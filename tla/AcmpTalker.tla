----------------------------- MODULE AcmpTalker -----------------------------
(***************************************************************************)
(* The ACMP talker state machine of lib/avdecc/acmp.c for one entity: the  *)
(* stream infos of its STREAM_OUTPUT descriptors, each with a connection   *)
(* count and a linked list of the listeners connected to it, and the four  *)
(* message handlers.  As for the listener, any message of Inputs may       *)
(* arrive at any time.                                                     *)
(*                                                                         *)
(* The list is modelled by the sequence of its live records and by whether *)
(* the last of them still points at a freed one, since the removal of the  *)
(* tail record leaves its predecessor's next pointer alone.  A walk that   *)
(* follows that pointer is undefined in C: nothing is claimed of the       *)
(* monitor thread from there on, and the model stops.                      *)
(***************************************************************************)
EXTENDS AcmpTypes, LinearSearch, Sequences, SequencesExt

CONSTANTS
    Me,             \* ctx->entity_id
    NumSources,     \* talker_stream_infos_count: STREAM_OUTPUT descriptors
    MaxPairs,       \* memory: the records of a list that calloc can provide
    CountRange,     \* 65536: connection_count is a uint16_t
    Allocations,    \* the outcomes of calloc: TRUE, FALSE or both
    Inputs          \* the messages the network may deliver

\* setup_descriptor_data numbers the STREAM_OUTPUT descriptors 0, 1, 2, ...
Sources == 0 .. NumSources - 1

ASSUME TalkerAssumption ==
    /\ Me \in Talkers
    /\ NumSources \in Nat
    /\ Sources \subseteq TalkerUids
    /\ MaxPairs \in Nat
    /\ CountRange \in Nat /\ 3 <= CountRange /\ CountRange <= 65536
    /\ Allocations \subseteq BOOLEAN
    /\ Inputs \subseteq Messages

VARIABLES
    pairs,      \* connected_listeners: the live records, in list order
    dangling,   \* the last live record points at a freed one
    count,      \* connection_count
    monitor,    \* the monitor thread: "running", "looping" for ever in a
                \* handler, or "undefined" after reading freed memory
    tx          \* the frames handed to send_data in the last step

talkerVars == <<pairs, dangling, count, monitor>>

vars == <<pairs, dangling, count, monitor, tx>>

\* struct acmp_listener_pair, and the one a command names
Pairs == [listener : Listeners, listener_unique_id : ListenerUids]

PairOf(m) == [listener |-> m.listener, listener_unique_id |-> m.listener_unique_id]

Init ==
    /\ pairs = [u \in Sources |-> <<>>]
    /\ dangling = [u \in Sources |-> FALSE]
    /\ count = [u \in Sources |-> 0]
    /\ monitor = "running"
    /\ tx = {}

-----------------------------------------------------------------------------

\* Talker stream infos are never cleared, so that a valid unique id is found.
ValidTalkerUnique(u) == u \in Sources

TxResponse(m, type, status) == tx' = {Frame(m, type, status)}

\* A walk to the end of the list, past the freed record.
ReadFreed ==
    /\ monitor' = "undefined"
    /\ tx' = {}
    /\ UNCHANGED <<pairs, dangling, count>>

\* calloc provides a record; MaxPairs bounds the model's lists.
CanAllocate(u) == TRUE \in Allocations /\ Len(pairs[u]) < MaxPairs

\* acmp_add_talker_stream_info: the pair is appended, present or not.  When
\* calloc fails the NULL result overwrites the head: the list is dropped, the
\* count stays.
AppendPair(u, p) ==
    /\ pairs' = [pairs EXCEPT ![u] = Append(@, p)]
    /\ count' = [count EXCEPT ![u] = (@ + 1) % CountRange]
    /\ UNCHANGED <<dangling, monitor>>

DropList(u) ==
    /\ pairs' = [pairs EXCEPT ![u] = <<>>]
    /\ dangling' = [dangling EXCEPT ![u] = FALSE]
    /\ UNCHANGED <<count, monitor>>

ConnectTxCommand(m) ==
    LET u == m.talker_unique_id IN
    /\ m.message_type = "CONNECT_TX_COMMAND"
    /\ \/ /\ ~ValidTalkerUnique(u)
          /\ TxResponse(m, "CONNECT_TX_RESPONSE", "TALKER_UNKNOWN_ID")
          /\ UNCHANGED talkerVars
       \/ /\ ValidTalkerUnique(u)
          /\ FALSE \in Allocations
          /\ DropList(u)
          /\ tx' = {[Frame(m, "CONNECT_TX_RESPONSE", "TALKER_MISBEHAVING") EXCEPT
                       !.connection_count = count[u]]}
       \/ /\ ValidTalkerUnique(u)
          /\ CanAllocate(u)
          /\ ~dangling[u]
          /\ AppendPair(u, PairOf(m))
          /\ tx' = {[Frame(m, "CONNECT_TX_RESPONSE", "SUCCESS") EXCEPT
                       !.connection_count = count'[u]]}
       \/ /\ ValidTalkerUnique(u)
          /\ CanAllocate(u)
          /\ dangling[u]
          /\ ReadFreed

PositionsOfEntity(u, p) == {k \in 1 .. Len(pairs[u]) : pairs[u][k].listener = p.listener}

\* The positions of a pair in a list; acmp_remove_listener_pair takes the first.
PositionsOf(u, p) == {k \in 1 .. Len(pairs[u]) : pairs[u][k] = p}

UnlinkedHeadToo(u, k) == RemoveAt(pairs[u], k)

UnlinkedPredecessor(u, k) == RemoveAt(pairs[u], IF k = 1 THEN 1 ELSE k - 1)

\* The list without its record k.  The head record stays: only the callee's
\* copy of the head pointer moves on.
Unlinked(u, k) == IF k = 1 THEN pairs[u] ELSE RemoveAt(pairs[u], k)

\* Freeing the tail record leaves the pointer to it in place.
DanglingAfter(u, k) == dangling[u] \/ (k # 1 /\ k = Len(pairs[u]))

RemovePairUncounted(u, k) ==
    /\ pairs' = [pairs EXCEPT ![u] = Unlinked(u, k)]
    /\ dangling' = [dangling EXCEPT ![u] = DanglingAfter(u, k)]
    /\ UNCHANGED <<count, monitor>>

RemovePairSigned(u, k) ==
    /\ pairs' = [pairs EXCEPT ![u] = Unlinked(u, k)]
    /\ dangling' = [dangling EXCEPT ![u] = DanglingAfter(u, k)]
    /\ count' = [count EXCEPT ![u] = IF @ > 0 THEN @ - 1 ELSE CountRange]
    /\ UNCHANGED monitor

\* acmp_remove_talker_stream_info for a pair of the list.
RemovePair(u, k) ==
    /\ pairs' = [pairs EXCEPT ![u] = Unlinked(u, k)]
    /\ dangling' = [dangling EXCEPT ![u] = DanglingAfter(u, k)]
    /\ count' = [count EXCEPT ![u] = (@ + CountRange - 1) % CountRange]
    /\ UNCHANGED monitor

\* A listener that is not connected is told SUCCESS as well.
DisconnectTxCommand(m) ==
    LET u == m.talker_unique_id
        found == PositionsOf(u, PairOf(m))
    IN
    /\ m.message_type = "DISCONNECT_TX_COMMAND"
    /\ \/ /\ ~ValidTalkerUnique(u)
          /\ TxResponse(m, "DISCONNECT_TX_RESPONSE", "TALKER_UNKNOWN_ID")
          /\ UNCHANGED talkerVars
       \/ /\ ValidTalkerUnique(u)
          /\ found # {}
          /\ RemovePair(u, First(found))
          /\ TxResponse(m, "DISCONNECT_TX_RESPONSE", "SUCCESS")
       \/ /\ ValidTalkerUnique(u)
          /\ found = {}
          /\ ~dangling[u]
          /\ TxResponse(m, "DISCONNECT_TX_RESPONSE", "SUCCESS")
          /\ UNCHANGED talkerVars
       \/ /\ ValidTalkerUnique(u)
          /\ found = {}
          /\ dangling[u]
          /\ ReadFreed

GetTxState(m) ==
    LET u == m.talker_unique_id IN
    /\ m.message_type = "GET_TX_STATE_COMMAND"
    /\ \/ /\ ~ValidTalkerUnique(u)
          /\ TxResponse(m, "GET_TX_STATE_RESPONSE", "TALKER_UNKNOWN_ID")
       \/ /\ ValidTalkerUnique(u)
          /\ tx' = {[Frame(m, "GET_TX_STATE_RESPONSE", "SUCCESS") EXCEPT
                       !.connection_count = count[u]]}
    /\ UNCHANGED talkerVars

\* The command asks for the connection with the index connection_count.  The
\* loop that steps to it never counts its steps, so that any index but 0 keeps
\* the thread walking, at the end of the list, with data_lock held.
GetTxConnection(m) ==
    LET u == m.talker_unique_id IN
    /\ m.message_type = "GET_TX_CONNECTION_COMMAND"
    /\ \/ /\ ~ValidTalkerUnique(u)
          /\ TxResponse(m, "GET_TX_CONNECTION_RESPONSE", "TALKER_UNKNOWN_ID")
          /\ UNCHANGED talkerVars
       \/ /\ ValidTalkerUnique(u)
          /\ pairs[u] = <<>>
          /\ TxResponse(m, "GET_TX_CONNECTION_RESPONSE", "NO_SUCH_CONNECTION")
          /\ UNCHANGED talkerVars
       \/ /\ ValidTalkerUnique(u)
          /\ pairs[u] # <<>>
          /\ m.connection_count = 0
          /\ tx' = {[Frame(m, "GET_TX_CONNECTION_RESPONSE", "SUCCESS") EXCEPT
                       !.listener = Head(pairs[u]).listener,
                       !.listener_unique_id = Head(pairs[u]).listener_unique_id,
                       !.connection_count = count[u]]}
          /\ UNCHANGED talkerVars
       \/ /\ ValidTalkerUnique(u)
          /\ pairs[u] # <<>>
          /\ m.connection_count # 0
          /\ dangling[u]
          /\ ReadFreed
       \/ /\ ValidTalkerUnique(u)
          /\ pairs[u] # <<>>
          /\ m.connection_count # 0
          /\ ~dangling[u]
          /\ monitor' = "looping"
          /\ tx' = {}
          /\ UNCHANGED <<pairs, dangling, count>>

\* acmp_process_talker_state_machine, reached through acmp_receive_process for
\* frames that name this entity as their talker.
Receive(m) ==
    /\ monitor = "running"
    /\ m.talker = Me
    /\ \/ ConnectTxCommand(m)
       \/ DisconnectTxCommand(m)
       \/ GetTxState(m)
       \/ GetTxConnection(m)

Next == \E m \in Inputs : Receive(m)

Spec == Init /\ [][Next]_vars

-----------------------------------------------------------------------------
(* Properties.                                                             *)

\* Type correctness of the talker's stream infos and of the frames it sends.
TypeOK ==
    /\ pairs \in [Sources -> Seq(Pairs)]
    /\ \A u \in Sources : Len(pairs[u]) <= MaxPairs
    /\ dangling \in [Sources -> BOOLEAN]
    /\ count \in [Sources -> 0 .. CountRange - 1]
    /\ monitor \in {"running", "looping", "undefined"}
    /\ tx \subseteq Messages

\* A freed record is only ever reached through a live one, whatever sequence of
\* removals and failed allocations came before: the head pointer, which
\* GET_TX_CONNECTION and the next removal dereference first, is sound.
FreedBehindLive == \A u \in Sources : dangling[u] => pairs[u] # <<>>

\* The answer to a listener's own DISCONNECT_TX_COMMAND for source u.
DisconnectAnswer(u, p) ==
    \E r \in tx' :
        /\ r.message_type = "DISCONNECT_TX_RESPONSE"
        /\ r.talker_unique_id = u
        /\ PairOf(r) = p

\* A listener leaves a source's list only by a DISCONNECT_TX_COMMAND of its own
\* or, with every other one, when calloc fails: removing one record takes no
\* other listener along.
ListenersLeaveByOwnCommand ==
    [][\A u \in Sources : \A p \in Range(pairs[u]) :
          p \notin Range(pairs'[u]) => pairs'[u] = <<>> \/ DisconnectAnswer(u, p)]_vars

\* connection_count, which tells the application to stop streaming at 0, goes
\* down only by the command of a listener that was in the list: a repeated
\* DISCONNECT_TX_COMMAND whose record is gone costs nobody the stream.
CountFallsForKnownListener ==
    [][\A u \in Sources :
          count'[u] = (count[u] + CountRange - 1) % CountRange =>
              \E p \in Range(pairs[u]) : DisconnectAnswer(u, p)]_vars

\* acmp_process_get_tx_connection_cmd answers NO_SUCH_CONNECTION for an index
\* past the end of the list: no command keeps the thread for ever.
NeverLoops == monitor # "looping"

=============================================================================
