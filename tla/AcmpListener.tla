---------------------------- MODULE AcmpListener ----------------------------
(***************************************************************************)
(* The ACMP listener state machine of lib/avdecc/acmp.c for one entity:    *)
(* the stream info slots of the current configuration, the table of        *)
(* commands in flight to talkers, the five message handlers and the        *)
(* timeout pass.  The network is an open environment: any message of       *)
(* Inputs may arrive at any time, so loss, duplication, delay, reordering  *)
(* and answers nobody asked for are all behaviours of the model.           *)
(*                                                                         *)
(* A step is one handler, run under data_lock by the monitor thread.       *)
(* Deadlines are abstracted: an armed command may expire in any pass.      *)
(***************************************************************************)
EXTENDS AcmpTypes, LinearSearch

CONSTANTS
    Me,             \* ctx->entity_id
    NumSinks,       \* listener_stream_infos_count: STREAM_INPUT descriptors
    MaxInflight,    \* MAX_INFLIGHT_CMD_NUM
    NoCommand,      \* content of a table slot whose timeout is 0
    Inputs          \* the messages the network may deliver

\* setup_descriptor_data numbers the STREAM_INPUT descriptors 0, 1, 2, ...
Sinks == 0 .. NumSinks - 1

TableSlots == 1 .. MaxInflight

\* The table holds only the two commands a listener sends to talkers.
TxCommands == {m \in Messages : m.message_type \in {"CONNECT_TX_COMMAND", "DISCONNECT_TX_COMMAND"}}

InflightCommands == [command : TxCommands, retried : BOOLEAN, original_sequence_id : SequenceIds]

ASSUME ListenerAssumption ==
    /\ Me \in Listeners
    /\ NumSinks \in Nat
    /\ Sinks \subseteq ListenerUids
    /\ 0 \in ListenerUids
    /\ MaxInflight \in Nat
    /\ NoCommand \notin InflightCommands
    /\ Inputs \subseteq Messages

VARIABLES
    infos,      \* acmp_listener_stream_infos: one record per sink
    inflight,   \* acmp_listener_inflight_commands; NoCommand where timeout = 0
    tx          \* the frames handed to send_data in the last step

vars == <<infos, inflight, tx>>

StreamInfos == [listener_unique_id : ListenerUids,
                connected : BOOLEAN,
                talker : Talkers \cup {NoEntity},
                talker_unique_id : TalkerUids]

\* A calloc'ed or memset slot but for its unique id.
Unconnected(uid) == [listener_unique_id |-> uid, connected |-> FALSE,
                     talker |-> NoEntity, talker_unique_id |-> 0]

Init ==
    /\ infos = [s \in Sinks |-> Unconnected(s)]
    /\ inflight = [i \in TableSlots |-> NoCommand]
    /\ tx = {}

-----------------------------------------------------------------------------
(* Helpers on the stream infos.                                            *)

\* The slots a search for a unique id meets.
SlotsNamed(uid) == {s \in Sinks : infos[s].listener_unique_id = uid}

FindLastSlot(uid) == LastMatch(SlotsNamed(uid))

Found(uid) == SlotsNamed(uid) # {}
Find(uid) == First(SlotsNamed(uid))

\* Validity goes by the descriptors, which never change.
ValidListenerUnique(uid) == uid \in Sinks

\* Connected to a talker that differs in BOTH the entity and the unique id.
IsConnected(m) ==
    /\ Found(m.listener_unique_id)
    /\ LET info == infos[Find(m.listener_unique_id)]
       IN  /\ info.connected
           /\ info.talker # m.talker
           /\ info.talker_unique_id # m.talker_unique_id

IsConnectedTo(m) ==
    Found(m.listener_unique_id) =>
        LET info == infos[Find(m.listener_unique_id)]
        IN  info.connected /\ SameStream(info, m)

AddStatusUnchecked(m) ==
    IF Found(m.listener_unique_id) THEN "SUCCESS" ELSE "LISTENER_MISBEHAVING"

\* The result of acmp_add_listener_stream_info ...
AddStatus(m) ==
    IF ~Found(m.listener_unique_id) THEN "LISTENER_MISBEHAVING"
    ELSE IF infos[Find(m.listener_unique_id)].connected THEN "LISTENER_EXCLUSIVE"
    ELSE "SUCCESS"

\* ... and the stream infos it leaves.
Added(m) ==
    IF AddStatus(m) = "SUCCESS"
    THEN [infos EXCEPT ![Find(m.listener_unique_id)] =
            [@ EXCEPT !.connected = TRUE, !.talker = m.talker,
                      !.talker_unique_id = m.talker_unique_id]]
    ELSE infos

RemovableOfAnyTalker(m) ==
    {s \in SlotsNamed(m.listener_unique_id) : infos[s].connected}

\* The slots acmp_remove_listener_stream_info may clear: it clears the first.
Removable(m) ==
    {s \in SlotsNamed(m.listener_unique_id) :
        infos[s].connected /\ SameStream(infos[s], m)}

\* The memset clears the whole slot, its private unique id included.
Removed(m) == [infos EXCEPT ![First(Removable(m))] = Unconnected(0)]

-----------------------------------------------------------------------------
(* Helpers on the command table.                                           *)

Armed(i) == inflight[i] # NoCommand

AnySlot == TableSlots

FreeSlots == {i \in TableSlots : ~Armed(i)}

\* acmp_tx_command for a new command: take the first free slot, arm it and
\* send; `sent` is the outcome of send_data.  A full table, or a failed send,
\* makes acmp_tx_response report under the COMMAND's message type.
TxCommand(m, type, sent) ==
    \/ /\ FreeSlots = {}
       /\ tx' = {Frame(m, type, "LISTENER_MISBEHAVING")}
       /\ UNCHANGED inflight
    \/ /\ FreeSlots # {}
       /\ inflight' = [inflight EXCEPT ![First(FreeSlots)] =
                         [command |-> Frame(m, type, "SUCCESS"), retried |-> FALSE,
                          original_sequence_id |-> m.sequence_id]]
       /\ tx' = {Frame(m, type, IF sent THEN "SUCCESS" ELSE "COULD_NOT_SEND_MESSAGE")}

TxResponse(m, type, status) == tx' = {Frame(m, type, status)}

MatchingAnyType(m) ==
    {i \in TableSlots : Armed(i) /\ inflight[i].command.sequence_id = m.sequence_id}

\* The armed commands a CONNECT_TX_RESPONSE matches ...
MatchingConnect(m) ==
    {i \in TableSlots :
        /\ Armed(i)
        /\ inflight[i].command.message_type = "CONNECT_TX_COMMAND"
        /\ inflight[i].command.sequence_id = m.sequence_id}

\* ... and those a DISCONNECT_TX_RESPONSE matches: the type is not compared.
MatchingDisconnect(m) == MatchingAnyType(m)

RemoveInflight(i) == inflight' = [inflight EXCEPT ![i] = NoCommand]

-----------------------------------------------------------------------------
(* The handlers.                                                           *)

ConnectRxCommand(m) ==
    /\ m.message_type = "CONNECT_RX_COMMAND"
    /\ \/ /\ ~ValidListenerUnique(m.listener_unique_id)
          /\ TxResponse(m, "CONNECT_RX_RESPONSE", "LISTENER_UNKNOWN_ID")
          /\ UNCHANGED inflight
       \/ /\ ValidListenerUnique(m.listener_unique_id)
          /\ IsConnected(m)
          /\ TxResponse(m, "CONNECT_RX_RESPONSE", "LISTENER_EXCLUSIVE")
          /\ UNCHANGED inflight
       \/ /\ ValidListenerUnique(m.listener_unique_id)
          /\ ~IsConnected(m)
          /\ \E sent \in BOOLEAN : TxCommand(m, "CONNECT_TX_COMMAND", sent)
    /\ UNCHANGED infos

Connect(m, i, status) ==
    /\ infos' = Added(m)
    /\ RemoveInflight(i)
    /\ tx' = {[Frame(m, "CONNECT_RX_RESPONSE", status) EXCEPT
                !.sequence_id = inflight[i].original_sequence_id]}

ConnectForwardingStatus(m, i) == Connect(m, i, m.status)

\* connectListener() for the matching command in slot i.
ConnectMatched(m, i) == Connect(m, i, AddStatus(m))

ConnectTxResponse(m) ==
    /\ m.message_type = "CONNECT_TX_RESPONSE"
    /\ \/ /\ ~ValidListenerUnique(m.listener_unique_id)
          /\ tx' = {}
          /\ UNCHANGED <<infos, inflight>>
       \/ /\ ValidListenerUnique(m.listener_unique_id)
          /\ m.status # "SUCCESS"          \* forwarded; the command stays armed
          /\ TxResponse(m, "CONNECT_RX_RESPONSE", m.status)
          /\ UNCHANGED <<infos, inflight>>
       \/ /\ ValidListenerUnique(m.listener_unique_id)
          /\ m.status = "SUCCESS"
          /\ MatchingConnect(m) = {}
          /\ TxResponse(m, "CONNECT_RX_RESPONSE", "LISTENER_MISBEHAVING")
          /\ UNCHANGED <<infos, inflight>>
       \/ /\ ValidListenerUnique(m.listener_unique_id)
          /\ m.status = "SUCCESS"
          /\ MatchingConnect(m) # {}
          /\ ConnectMatched(m, First(MatchingConnect(m)))

GetRxState(m) ==
    /\ m.message_type = "GET_RX_STATE_COMMAND"
    /\ \/ /\ ~ValidListenerUnique(m.listener_unique_id)
          /\ TxResponse(m, "GET_RX_STATE_RESPONSE", "LISTENER_UNKNOWN_ID")
       \/ /\ ValidListenerUnique(m.listener_unique_id)
          /\ ~Found(m.listener_unique_id)
          /\ TxResponse(m, "GET_RX_STATE_RESPONSE", "LISTENER_MISBEHAVING")
       \/ /\ ValidListenerUnique(m.listener_unique_id)
          /\ Found(m.listener_unique_id)
          /\ LET info == infos[Find(m.listener_unique_id)]
             IN  tx' = {[Frame(m, "GET_RX_STATE_RESPONSE", "SUCCESS") EXCEPT
                           !.talker = info.talker,
                           !.connection_count = IF info.connected THEN 1 ELSE 0]}
    /\ UNCHANGED <<infos, inflight>>

DisconnectRxCommand(m) ==
    /\ m.message_type = "DISCONNECT_RX_COMMAND"
    /\ \/ /\ ~ValidListenerUnique(m.listener_unique_id)
          /\ TxResponse(m, "DISCONNECT_RX_RESPONSE", "LISTENER_UNKNOWN_ID")
          /\ UNCHANGED inflight
       \/ /\ ValidListenerUnique(m.listener_unique_id)
          /\ ~IsConnectedTo(m)
          /\ TxResponse(m, "DISCONNECT_RX_RESPONSE", "NOT_CONNECTED")
          /\ UNCHANGED inflight
       \/ /\ ValidListenerUnique(m.listener_unique_id)
          /\ IsConnectedTo(m)
          /\ \E sent \in BOOLEAN : TxCommand(m, "DISCONNECT_TX_COMMAND", sent)
    /\ UNCHANGED infos

\* A failed removal keeps the command and answers nobody.
DisconnectMatchedAlwaysReleased(m, i) ==
    /\ RemoveInflight(i)
    /\ IF Removable(m) = {}
       THEN infos' = infos /\ tx' = {}
       ELSE /\ infos' = Removed(m)
            /\ tx' = {[Frame(m, "DISCONNECT_RX_RESPONSE", m.status) EXCEPT
                        !.sequence_id = inflight[i].original_sequence_id]}

DisconnectMatched(m, i) ==
    \/ /\ Removable(m) = {}
       /\ tx' = {}
       /\ UNCHANGED <<infos, inflight>>
    \/ /\ Removable(m) # {}
       /\ infos' = Removed(m)
       /\ RemoveInflight(i)
       /\ tx' = {[Frame(m, "DISCONNECT_RX_RESPONSE", m.status) EXCEPT
                   !.sequence_id = inflight[i].original_sequence_id]}

DisconnectTxResponse(m) ==
    /\ m.message_type = "DISCONNECT_TX_RESPONSE"
    /\ \/ /\ ~ValidListenerUnique(m.listener_unique_id) \/ MatchingDisconnect(m) = {}
          /\ tx' = {}
          /\ UNCHANGED <<infos, inflight>>
       \/ /\ ValidListenerUnique(m.listener_unique_id)
          /\ MatchingDisconnect(m) # {}
          /\ DisconnectMatched(m, First(MatchingDisconnect(m)))

-----------------------------------------------------------------------------
(* acmp_state_process: one pass over the table.                            *)

RxResponseType(c) ==
    IF c.message_type = "CONNECT_TX_COMMAND" THEN "CONNECT_RX_RESPONSE"
    ELSE "DISCONNECT_RX_RESPONSE"

AfterExpiryNeverRetried(e) == IF e.retried THEN NoCommand ELSE e

AfterExpiryNewSequence(e) ==
    IF e.retried THEN NoCommand
    ELSE [e EXCEPT !.retried = TRUE, !.command.sequence_id = @ + 1]

\* A table slot after acmp_process_{connect,disconnect}_tx_timeout ...
AfterExpiry(e) == IF e.retried THEN NoCommand ELSE [e EXCEPT !.retried = TRUE]

\* ... and the frame the handler sends: the final answer, the retry, or the
\* report of a retry that could not be sent.
ExpiryFrame(e, sent) ==
    IF e.retried
    THEN [Frame(e.command, RxResponseType(e.command), "LISTENER_TALKER_TIMEOUT") EXCEPT
            !.sequence_id = e.original_sequence_id]
    ELSE Frame(e.command, e.command.message_type,
               IF sent THEN "SUCCESS" ELSE "COULD_NOT_SEND_MESSAGE")

\* `due` are the armed commands whose deadline has passed, `failed` those of
\* them whose retransmission send_data refuses.
StateProcess(due, failed) ==
    /\ due # {}
    /\ \A i \in due : Armed(i)
    /\ inflight' = [i \in TableSlots |->
                      IF i \in due THEN AfterExpiry(inflight[i]) ELSE inflight[i]]
    /\ tx' = {ExpiryFrame(inflight[i], i \notin failed) : i \in due}
    /\ UNCHANGED infos

\* acmp_process_listener_state_machine, reached through acmp_receive_process
\* for frames that name this entity as their listener.
Receive(m) ==
    /\ m.listener = Me
    /\ \/ ConnectRxCommand(m)
       \/ ConnectTxResponse(m)
       \/ GetRxState(m)
       \/ DisconnectRxCommand(m)
       \/ DisconnectTxResponse(m)

StatePass == \E due \in SUBSET TableSlots : \E failed \in SUBSET due : StateProcess(due, failed)

Next ==
    \/ \E m \in Inputs : Receive(m)
    \/ StatePass

Spec == Init /\ [][Next]_vars

-----------------------------------------------------------------------------
(* Properties.                                                             *)

\* Type correctness of the stream infos, the command table and the frames
\* acmp.c sends.
TypeOK ==
    /\ infos \in [Sinks -> StreamInfos]
    /\ inflight \in [TableSlots -> InflightCommands \cup {NoCommand}]
    /\ tx \subseteq Messages

\* The slot memset by acmp_remove_listener_stream_info loses its unique id, so
\* it answers to id 0 from then on; still no search ends in such a slot: a
\* connected slot is always the one its sink's descriptor was given, and two
\* connected slots never stand for the same sink.
ConnectedSlotIsOwn ==
    \A s \in Sinks :
        /\ infos[s].listener_unique_id \in {s, 0}
        /\ infos[s].connected => infos[s].listener_unique_id = s

\* The state of sink s that an application can tell apart through
\* avdecc_get_connected_from_listener_stream_info (0, 1 or -1), with the
\* stream it is connected to.
SinkIn(state, t, u) == [state |-> state, talker |-> t, talker_unique_id |-> u]

BoundSinks == [state : {"bound"}, talker : Talkers \cup {NoEntity}, talker_unique_id : TalkerUids]

SinkState(s) ==
    IF infos[s].connected
    THEN SinkIn("bound", infos[s].talker, infos[s].talker_unique_id)
    ELSE IF infos[s].listener_unique_id = s THEN SinkIn("idle", NoEntity, 0)
    ELSE SinkIn("lost", NoEntity, 0)

Abstract == INSTANCE AcmpSink WITH
    Streams <- BoundSinks,
    Idle <- SinkIn("idle", NoEntity, 0),
    Lost <- SinkIn("lost", NoEntity, 0),
    sink <- [s \in Sinks |-> SinkState(s)]

\* The listener implements the sink lifecycle: a bound sink is never rebound
\* under its feet, although two CONNECT_RX_COMMANDs may both be in flight
\* (acmp_listener_is_connected lets them): the second talker's response finds
\* the sink taken.  A sink other than 0 is never bound twice.
SinkLifecycle == Abstract!Spec

\* One connection, one command.  The response that binds a sink binds that sink
\* alone, to the stream the response names, and uses up one CONNECT_TX_COMMAND
\* in flight of its own sequence id and no other: a response binds nothing when
\* no CONNECT_TX_COMMAND of its sequence id is armed, any more or ever, and a
\* duplicate does not bind a second sink on the same command.  acmp.c compares
\* the sequence id alone: a response that comes after its command was given up
\* does bind when another CONNECT_TX_COMMAND of the same id is armed meanwhile.
ConnectConsumesCommand ==
    [][\A s \in Sinks :
          ~infos[s].connected /\ infos'[s].connected =>
            \A m \in Inputs : Receive(m) =>
              /\ infos' = [infos EXCEPT ![s] = infos'[s]]
              /\ SameStream(infos'[s], m)
              /\ \E i \in TableSlots :
                    /\ Armed(i)
                    /\ inflight[i].command.message_type = "CONNECT_TX_COMMAND"
                    /\ inflight[i].command.sequence_id = m.sequence_id
                    /\ inflight' = [inflight EXCEPT ![i] = NoCommand]]_vars

\* A sink gets disconnected only together with a DISCONNECT_RX_RESPONSE that
\* names the very stream it was bound to, and releases one armed command.
DisconnectNamesBoundStream ==
    [][\A s \in Sinks :
          infos[s].connected /\ ~infos'[s].connected =>
            /\ \E r \in tx' :
                  /\ r.message_type = "DISCONNECT_RX_RESPONSE"
                  /\ r.listener_unique_id = s
                  /\ SameStream(r, infos[s])
            /\ \E i \in TableSlots : Armed(i) /\ ~Armed(i)']_vars

\* The controller is told SUCCESS only of a connection that exists: the sink
\* named in a successful CONNECT_RX_RESPONSE is bound to the stream it names.
SuccessMeansBound ==
    [][\A r \in tx' :
          r.message_type = "CONNECT_RX_RESPONSE" /\ r.status = "SUCCESS" =>
            \E s \in Sinks :
                /\ infos'[s].listener_unique_id = r.listener_unique_id
                /\ infos'[s].connected
                /\ SameStream(infos'[s], r)]_vars

\* No command in the table is overwritten by a later one, and a command's one
\* retry is never given back: each is transmitted at most twice.
CommandsStable ==
    [][\A i \in TableSlots :
          Armed(i) /\ Armed(i)' =>
            /\ inflight'[i].command = inflight[i].command
            /\ inflight[i].retried => inflight'[i].retried]_vars

IsFinalAnswer(r) == r.message_type \in {"CONNECT_RX_RESPONSE", "DISCONNECT_RX_RESPONSE"}

\* No command leaves the table silently: the step that releases it sends the
\* controller a final answer with the command's own sequence id.
ReleaseAnswers ==
    [][\A i \in TableSlots :
          Armed(i) /\ ~Armed(i)' =>
            \E r \in tx' :
                /\ IsFinalAnswer(r)
                /\ r.sequence_id = inflight[i].original_sequence_id]_vars

=============================================================================
