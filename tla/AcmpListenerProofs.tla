------------------------- MODULE AcmpListenerProofs -------------------------
(***************************************************************************)
(* Proofs about the ACMP listener, for every number of sinks, table size,  *)
(* set of entities and set of deliverable messages.                        *)
(*                                                                         *)
(* The inductive invariant is TypeOK with ConnectedSlotIsOwn: the second   *)
(* says where the searches over the stream infos end, and every other      *)
(* property follows from one step taken in such a state.                   *)
(***************************************************************************)
EXTENDS AcmpListener, WellFoundedInduction, TLAPS

IInv == TypeOK /\ ConnectedSlotIsOwn

\* A search over a nonempty set of table indices ends at a member of the set,
\* and at the smallest: no search of acmp.c runs past its match.
LEMMA FirstInSet ==
    ASSUME NEW S, S \subseteq Nat, S # {}
    PROVE  /\ First(S) \in S
           /\ \A j \in S : First(S) <= j
<1> DEFINE Less == {p \in Nat \X Nat : p[1] < p[2]}
<1>1. IsWellFoundedOn(Less, Nat)
  BY NatLessThanWellFounded, Zenon DEF OpToRel
<1>2. PICK x \in S : \A y \in S : ~ (<<y, x>> \in Less)
  <2> HIDE DEF Less
  <2> QED BY <1>1, WFMin
<1>3. \A y \in S : x <= y
  <2>1. SUFFICES ASSUME NEW y \in S, y < x PROVE FALSE
    OBVIOUS
  <2>2. <<y, x>> \in Less
    BY <2>1
  <2>3. QED
    BY <1>2, <2>2
<1>4. QED
  BY <1>3 DEF First

\* Both senders of acmp.c put well-formed frames on the wire.
LEMMA FrameType ==
    ASSUME NEW m \in Messages, NEW type \in CommandTypes \cup ResponseTypes,
           NEW status \in Statuses
    PROVE  /\ Frame(m, type, status) \in Messages
           /\ \A q \in SequenceIds :
                [Frame(m, type, status) EXCEPT !.sequence_id = q] \in Messages
  BY DEF Frame, Messages

\* In a state of the invariant the search of acmp_find_listener_stream_info
\* ends at the slot the sink's descriptor was given.
LEMMA FindIsOwn ==
    ASSUME IInv, NEW u \in Sinks, Found(u)
    PROVE  Find(u) = u
<1>1. SlotsNamed(u) \subseteq Sinks /\ Sinks \subseteq Nat /\ SlotsNamed(u) # {}
  BY DEF SlotsNamed, Found, Sinks
<1>2. Find(u) \in SlotsNamed(u) /\ \A s \in SlotsNamed(u) : Find(u) <= s
  BY <1>1, FirstInSet DEF Find
<1>3. CASE u = 0
  <2>1. 0 \in SlotsNamed(u)
    BY <1>3 DEF SlotsNamed, IInv, ConnectedSlotIsOwn
  <2>2. Find(u) <= 0 /\ Find(u) \in Nat
    BY <1>1, <1>2, <2>1
  <2>3. QED
    BY <1>3, <2>2
<1>4. CASE u # 0
  BY <1>2, <1>4 DEF SlotsNamed, IInv, ConnectedSlotIsOwn
<1>5. QED
  BY <1>3, <1>4

\* The slot acmp_remove_listener_stream_info clears is the sink's own.
LEMMA RemovedIsOwn ==
    ASSUME IInv, NEW m \in Messages, Removable(m) # {}
    PROVE  /\ First(Removable(m)) = m.listener_unique_id
           /\ m.listener_unique_id \in Sinks
           /\ infos[m.listener_unique_id].connected
           /\ SameStream(infos[m.listener_unique_id], m)
<1>1. Removable(m) \subseteq Nat
  BY DEF Removable, SlotsNamed, Sinks
<1>2. First(Removable(m)) \in Removable(m)
  BY <1>1, FirstInSet
<1>3. QED
  BY <1>2 DEF Removable, SlotsNamed, IInv, ConnectedSlotIsOwn

\* Arming a command or refusing it keeps the table and the frames well formed.
LEMMA TxCommandType ==
    ASSUME TypeOK, NEW m \in Messages, NEW sent \in BOOLEAN,
           NEW type \in {"CONNECT_TX_COMMAND", "DISCONNECT_TX_COMMAND"},
           TxCommand(m, type, sent)
    PROVE  /\ inflight' \in [TableSlots -> InflightCommands \cup {NoCommand}]
           /\ tx' \subseteq Messages
<1>1. \A status \in Statuses : Frame(m, type, status) \in TxCommands
  <2>1. \A status \in Statuses : Frame(m, type, status) \in Messages
    BY FrameType DEF CommandTypes
  <2>2. \A status \in Statuses : Frame(m, type, status).message_type = type
    BY DEF Frame, Messages
  <2>3. QED
    BY <2>1, <2>2 DEF TxCommands
<1>2. {"SUCCESS", "LISTENER_MISBEHAVING", "COULD_NOT_SEND_MESSAGE"} \subseteq Statuses
  BY DEF Statuses
<1>3. tx' \subseteq Messages
  BY <1>1, <1>2 DEF TxCommand, TxCommands
<1>4. m.sequence_id \in SequenceIds
  BY DEF Messages
<1>5. [command |-> Frame(m, type, "SUCCESS"), retried |-> FALSE,
       original_sequence_id |-> m.sequence_id] \in InflightCommands
  BY <1>1, <1>2, <1>4 DEF InflightCommands
<1>6. inflight' \in [TableSlots -> InflightCommands \cup {NoCommand}]
  BY <1>5 DEF TxCommand, TypeOK
<1>7. QED
  BY <1>3, <1>6

\* The slot chosen for a new command is a free slot of the table.
LEMMA FirstFreeSlot ==
    ASSUME FreeSlots # {}
    PROVE  First(FreeSlots) \in TableSlots /\ inflight[First(FreeSlots)] = NoCommand
<1>1. FreeSlots \subseteq Nat
  BY ListenerAssumption DEF FreeSlots, TableSlots
<1>2. QED
  BY <1>1, FirstInSet DEF FreeSlots, Armed


\* What acmp_add_listener_stream_info does in a state of the invariant: it
\* fills the sink's own, unconnected slot or changes nothing.
LEMMA AddedOwn ==
    ASSUME IInv, NEW m \in Messages, m.listener_unique_id \in Sinks
    PROVE  LET u == m.listener_unique_id
           IN  \/ /\ AddStatus(m) \in {"LISTENER_MISBEHAVING", "LISTENER_EXCLUSIVE"}
                  /\ Added(m) = infos
               \/ /\ AddStatus(m) = "SUCCESS"
                  /\ infos[u].listener_unique_id = u
                  /\ ~infos[u].connected
                  /\ Added(m) = [infos EXCEPT ![u] =
                                   [@ EXCEPT !.connected = TRUE, !.talker = m.talker,
                                             !.talker_unique_id = m.talker_unique_id]]
<1> DEFINE u == m.listener_unique_id
<1>1. CASE ~Found(u)
  BY <1>1 DEF AddStatus, Added
<1>2. CASE Found(u)
  <2>1. Find(u) = u
    BY <1>2, FindIsOwn
  <2>2. u \in SlotsNamed(u)
    <3>1. SlotsNamed(u) \subseteq Nat /\ SlotsNamed(u) # {}
      BY <1>2 DEF SlotsNamed, Found, Sinks
    <3>2. QED
      BY <2>1, <3>1, FirstInSet DEF Find
  <2>3. infos[u].listener_unique_id = u
    BY <2>2 DEF SlotsNamed
  <2>4. QED
    BY <1>2, <2>1, <2>3 DEF AddStatus, Added
<1>3. QED
  BY <1>1, <1>2

LEMMA AddedInv ==
    ASSUME IInv, NEW m \in Messages, m.listener_unique_id \in Sinks
    PROVE  /\ Added(m) \in [Sinks -> StreamInfos]
           /\ \A s \in Sinks :
                /\ Added(m)[s].listener_unique_id \in {s, 0}
                /\ Added(m)[s].connected => Added(m)[s].listener_unique_id = s
<1> DEFINE u == m.listener_unique_id
<1> DEFINE new == [infos[u] EXCEPT !.connected = TRUE, !.talker = m.talker,
                                   !.talker_unique_id = m.talker_unique_id]
<1>1. CASE Added(m) = infos
  BY <1>1 DEF IInv, TypeOK, ConnectedSlotIsOwn
<1>2. CASE infos[u].listener_unique_id = u /\ Added(m) = [infos EXCEPT ![u] = new]
  <2>1. infos[u] \in StreamInfos /\ infos \in [Sinks -> StreamInfos]
    BY DEF IInv, TypeOK
  <2>2. m.talker \in Talkers \cup {NoEntity} /\ m.talker_unique_id \in TalkerUids
    BY DEF Messages
  <2>3. new \in StreamInfos /\ new.listener_unique_id = u
    BY <1>2, <2>1, <2>2 DEF StreamInfos
  <2>4. /\ Added(m)[u] = new
        /\ \A s \in Sinks : s # u => Added(m)[s] = infos[s]
        /\ Added(m) \in [Sinks -> StreamInfos]
    <3> HIDE DEF new
    <3> QED BY <1>2, <2>1, <2>3
  <2>5. QED
    BY <2>3, <2>4 DEF IInv, ConnectedSlotIsOwn
<1>3. QED
  BY <1>1, <1>2, AddedOwn

-----------------------------------------------------------------------------
(* The inductive invariant.                                                *)

LEMMA InitInv == Init => IInv
<1>1. SUFFICES ASSUME Init PROVE IInv
  OBVIOUS
<1>2. infos \in [Sinks -> StreamInfos]
  BY <1>1, ListenerAssumption, TypesAssumption DEF Init, Unconnected, StreamInfos
<1>3. inflight \in [TableSlots -> InflightCommands \cup {NoCommand}] /\ tx \subseteq Messages
  BY <1>1 DEF Init
<1>4. ConnectedSlotIsOwn
  BY <1>1 DEF Init, Unconnected, ConnectedSlotIsOwn
<1>5. QED
  BY <1>2, <1>3, <1>4 DEF IInv, TypeOK

LEMMA ConnectRxCommandInv ==
    ASSUME IInv, NEW m \in Messages, ConnectRxCommand(m)
    PROVE  IInv'
<1>1. infos' = infos
  BY DEF ConnectRxCommand
<1>2. /\ inflight' \in [TableSlots -> InflightCommands \cup {NoCommand}]
      /\ tx' \subseteq Messages
  <2>1. CASE \E sent \in BOOLEAN : TxCommand(m, "CONNECT_TX_COMMAND", sent)
    BY <2>1, TxCommandType DEF IInv
  <2>2. CASE /\ UNCHANGED inflight
             /\ \E status \in {"LISTENER_UNKNOWN_ID", "LISTENER_EXCLUSIVE"} :
                   TxResponse(m, "CONNECT_RX_RESPONSE", status)
    <3>1. \A status \in {"LISTENER_UNKNOWN_ID", "LISTENER_EXCLUSIVE"} :
             Frame(m, "CONNECT_RX_RESPONSE", status) \in Messages
      BY FrameType DEF ResponseTypes, Statuses
    <3>2. QED
      BY <2>2, <3>1 DEF TxResponse, IInv, TypeOK
  <2>3. QED
    BY <2>1, <2>2 DEF ConnectRxCommand
<1>3. QED
  BY <1>1, <1>2 DEF IInv, TypeOK, ConnectedSlotIsOwn

LEMMA DisconnectRxCommandInv ==
    ASSUME IInv, NEW m \in Messages, DisconnectRxCommand(m)
    PROVE  IInv'
<1>1. infos' = infos
  BY DEF DisconnectRxCommand
<1>2. /\ inflight' \in [TableSlots -> InflightCommands \cup {NoCommand}]
      /\ tx' \subseteq Messages
  <2>1. CASE \E sent \in BOOLEAN : TxCommand(m, "DISCONNECT_TX_COMMAND", sent)
    BY <2>1, TxCommandType DEF IInv
  <2>2. CASE /\ UNCHANGED inflight
             /\ \E status \in {"LISTENER_UNKNOWN_ID", "NOT_CONNECTED"} :
                   TxResponse(m, "DISCONNECT_RX_RESPONSE", status)
    <3>1. \A status \in {"LISTENER_UNKNOWN_ID", "NOT_CONNECTED"} :
             Frame(m, "DISCONNECT_RX_RESPONSE", status) \in Messages
      BY FrameType DEF ResponseTypes, Statuses
    <3>2. QED
      BY <2>2, <3>1 DEF TxResponse, IInv, TypeOK
  <2>3. QED
    BY <2>1, <2>2 DEF DisconnectRxCommand
<1>3. QED
  BY <1>1, <1>2 DEF IInv, TypeOK, ConnectedSlotIsOwn

LEMMA GetRxStateInv ==
    ASSUME IInv, NEW m \in Messages, GetRxState(m)
    PROVE  IInv'
<1>1. UNCHANGED <<infos, inflight>>
  BY DEF GetRxState
<1>2. tx' \subseteq Messages
  <2>1. \A status \in {"LISTENER_UNKNOWN_ID", "LISTENER_MISBEHAVING", "SUCCESS"} :
           Frame(m, "GET_RX_STATE_RESPONSE", status) \in Messages
    BY FrameType DEF ResponseTypes, Statuses
  <2>2. CASE \E status \in {"LISTENER_UNKNOWN_ID", "LISTENER_MISBEHAVING"} :
                TxResponse(m, "GET_RX_STATE_RESPONSE", status)
    BY <2>1, <2>2 DEF TxResponse
  <2>3. CASE /\ ValidListenerUnique(m.listener_unique_id)
             /\ Found(m.listener_unique_id)
             /\ LET info == infos[Find(m.listener_unique_id)]
                IN  tx' = {[Frame(m, "GET_RX_STATE_RESPONSE", "SUCCESS") EXCEPT
                              !.talker = info.talker,
                              !.connection_count = IF info.connected THEN 1 ELSE 0]}
    <3>1. infos[Find(m.listener_unique_id)] \in StreamInfos
      BY <2>3, FindIsOwn DEF ValidListenerUnique, IInv, TypeOK
    <3>2. /\ infos[Find(m.listener_unique_id)].talker \in Talkers \cup {NoEntity}
          /\ (IF infos[Find(m.listener_unique_id)].connected THEN 1 ELSE 0) \in UInt16
      BY <3>1 DEF StreamInfos, UInt16
    <3>3. \A r \in Messages, t \in Talkers \cup {NoEntity}, n \in UInt16 :
             [r EXCEPT !.talker = t, !.connection_count = n] \in Messages
      BY DEF Messages
    <3> DEFINE info == infos[Find(m.listener_unique_id)]
    <3> DEFINE r == Frame(m, "GET_RX_STATE_RESPONSE", "SUCCESS")
    <3> DEFINE n == IF info.connected THEN 1 ELSE 0
    <3>4. /\ r \in Messages /\ info.talker \in Talkers \cup {NoEntity} /\ n \in UInt16
          /\ tx' = {[r EXCEPT !.talker = info.talker, !.connection_count = n]}
      BY <2>1, <2>3, <3>2
    <3> HIDE DEF info, r, n
    <3>5. [r EXCEPT !.talker = info.talker, !.connection_count = n] \in Messages
      BY <3>3, <3>4
    <3>6. QED
      BY <3>4, <3>5
  <2>4. QED
    BY <2>2, <2>3 DEF GetRxState
<1>3. QED
  BY <1>1, <1>2 DEF IInv, TypeOK, ConnectedSlotIsOwn


\* The command a response is matched with is an armed one of the table.
LEMMA MatchedCommand ==
    ASSUME TypeOK, NEW m \in Messages, NEW S \in {MatchingConnect(m), MatchingDisconnect(m)},
           S # {}
    PROVE  /\ First(S) \in S
           /\ First(S) \in TableSlots
           /\ Armed(First(S))
           /\ inflight[First(S)] \in InflightCommands
<1>1. S \subseteq Nat
  BY ListenerAssumption DEF MatchingConnect, MatchingDisconnect, MatchingAnyType, TableSlots
<1>2. First(S) \in S
  BY <1>1, FirstInSet
<1>3. First(S) \in TableSlots /\ Armed(First(S))
  BY <1>2 DEF MatchingConnect, MatchingDisconnect, MatchingAnyType
<1>4. QED
  BY <1>2, <1>3 DEF Armed, TypeOK

LEMMA ConnectTxResponseInv ==
    ASSUME IInv, NEW m \in Messages, ConnectTxResponse(m)
    PROVE  IInv'
<1> DEFINE i == First(MatchingConnect(m))
<1>1. CASE UNCHANGED <<infos, inflight>> /\ tx' = {}
  BY <1>1 DEF IInv, TypeOK, ConnectedSlotIsOwn
<1>2. CASE /\ UNCHANGED <<infos, inflight>>
           /\ \E status \in Statuses : TxResponse(m, "CONNECT_RX_RESPONSE", status)
  <2>1. tx' \subseteq Messages
    BY <1>2, FrameType DEF TxResponse, ResponseTypes
  <2>2. QED
    BY <1>2, <2>1 DEF IInv, TypeOK, ConnectedSlotIsOwn
<1>3. CASE /\ ValidListenerUnique(m.listener_unique_id)
           /\ MatchingConnect(m) # {}
           /\ ConnectMatched(m, i)
  <2>1. i \in TableSlots /\ inflight[i] \in InflightCommands
    BY <1>3, MatchedCommand DEF IInv
  <2>2. m.listener_unique_id \in Sinks
    BY <1>3 DEF ValidListenerUnique
  <2>3. infos' = Added(m)
    BY <1>3 DEF ConnectMatched, Connect
  <2>4. infos' \in [Sinks -> StreamInfos] /\ ConnectedSlotIsOwn'
    BY <2>2, <2>3, AddedInv DEF ConnectedSlotIsOwn
  <2>5. inflight' \in [TableSlots -> InflightCommands \cup {NoCommand}]
    BY <1>3 DEF ConnectMatched, Connect, RemoveInflight, IInv, TypeOK
  <2>6. tx' \subseteq Messages
    <3>1. inflight[i].original_sequence_id \in SequenceIds
      BY <2>1 DEF InflightCommands
    <3>2. AddStatus(m) \in Statuses
      BY DEF AddStatus, Statuses
    <3>3. [Frame(m, "CONNECT_RX_RESPONSE", AddStatus(m)) EXCEPT
             !.sequence_id = inflight[i].original_sequence_id] \in Messages
      BY <3>1, <3>2, FrameType DEF ResponseTypes
    <3>4. QED
      BY <1>3, <3>3 DEF ConnectMatched, Connect
  <2>7. QED
    BY <2>4, <2>5, <2>6 DEF IInv, TypeOK
<1>4. m.status \in Statuses /\ "LISTENER_MISBEHAVING" \in Statuses
  BY DEF Messages, Statuses
<1>5. QED
  BY <1>1, <1>2, <1>3, <1>4 DEF ConnectTxResponse

LEMMA DisconnectTxResponseInv ==
    ASSUME IInv, NEW m \in Messages, DisconnectTxResponse(m)
    PROVE  IInv'
<1> DEFINE i == First(MatchingDisconnect(m))
<1> DEFINE u == m.listener_unique_id
<1>1. CASE UNCHANGED <<infos, inflight>> /\ tx' = {}
  BY <1>1 DEF IInv, TypeOK, ConnectedSlotIsOwn
<1>2. CASE /\ MatchingDisconnect(m) # {}
           /\ Removable(m) # {}
           /\ infos' = Removed(m)
           /\ RemoveInflight(i)
           /\ tx' = {[Frame(m, "DISCONNECT_RX_RESPONSE", m.status) EXCEPT
                       !.sequence_id = inflight[i].original_sequence_id]}
  <2>1. infos' = [infos EXCEPT ![u] = Unconnected(0)] /\ u \in Sinks
    BY <1>2, RemovedIsOwn DEF Removed
  <2>2. infos' \in [Sinks -> StreamInfos] /\ ConnectedSlotIsOwn'
    BY <2>1, ListenerAssumption, TypesAssumption
       DEF IInv, TypeOK, ConnectedSlotIsOwn, Unconnected, StreamInfos
  <2>3. inflight' \in [TableSlots -> InflightCommands \cup {NoCommand}]
    BY <1>2 DEF RemoveInflight, IInv, TypeOK
  <2>4. tx' \subseteq Messages
    <3>1. inflight[i].original_sequence_id \in SequenceIds
      BY <1>2, MatchedCommand DEF IInv, InflightCommands
    <3>2. m.status \in Statuses /\ "DISCONNECT_RX_RESPONSE" \in ResponseTypes
      BY DEF Messages, ResponseTypes
    <3>3. [Frame(m, "DISCONNECT_RX_RESPONSE", m.status) EXCEPT
             !.sequence_id = inflight[i].original_sequence_id] \in Messages
      BY <3>1, <3>2, FrameType
    <3>4. QED
      BY <1>2, <3>3
  <2>5. QED
    BY <2>2, <2>3, <2>4 DEF IInv, TypeOK
<1>3. QED
  BY <1>1, <1>2 DEF DisconnectTxResponse, DisconnectMatched

LEMMA StateProcessInv ==
    ASSUME IInv, NEW due \in SUBSET TableSlots, NEW failed \in SUBSET due,
           StateProcess(due, failed)
    PROVE  IInv'
<1>1. \A i \in due : inflight[i] \in InflightCommands
  BY DEF StateProcess, Armed, IInv, TypeOK
<1>2. \A e \in InflightCommands : AfterExpiry(e) \in InflightCommands \cup {NoCommand}
  BY DEF AfterExpiry, InflightCommands
<1>3. inflight' \in [TableSlots -> InflightCommands \cup {NoCommand}]
  BY <1>1, <1>2 DEF StateProcess, IInv, TypeOK
<1>4. \A e \in InflightCommands, sent \in BOOLEAN : ExpiryFrame(e, sent) \in Messages
  <2>1. SUFFICES ASSUME NEW e \in InflightCommands, NEW sent \in BOOLEAN
                 PROVE  ExpiryFrame(e, sent) \in Messages
    OBVIOUS
  <2>2. /\ e.command \in Messages
        /\ e.command.message_type \in CommandTypes \cup ResponseTypes
        /\ e.original_sequence_id \in SequenceIds
    BY DEF InflightCommands, TxCommands, Messages
  <2>3. RxResponseType(e.command) \in CommandTypes \cup ResponseTypes
    BY DEF RxResponseType, ResponseTypes
  <2>4. {"SUCCESS", "COULD_NOT_SEND_MESSAGE", "LISTENER_TALKER_TIMEOUT"} \subseteq Statuses
    BY DEF Statuses
  <2>5. QED
    BY <2>2, <2>3, <2>4, FrameType DEF ExpiryFrame
<1>5. tx' \subseteq Messages
  BY <1>1, <1>4 DEF StateProcess
<1>6. QED
  BY <1>3, <1>5 DEF IInv, TypeOK, ConnectedSlotIsOwn, StateProcess

LEMMA StepInv == IInv /\ [Next]_vars => IInv'
<1> SUFFICES ASSUME IInv, [Next]_vars PROVE IInv'
  OBVIOUS
<1>1. ASSUME NEW m \in Inputs, Receive(m) PROVE IInv'
  <2>1. m \in Messages
    BY ListenerAssumption
  <2>2. QED
    BY <1>1, <2>1, ConnectRxCommandInv, ConnectTxResponseInv, GetRxStateInv,
       DisconnectRxCommandInv, DisconnectTxResponseInv DEF Receive
<1>2. CASE StatePass
  BY <1>2, StateProcessInv DEF StatePass
<1>3. CASE UNCHANGED vars
  BY <1>3 DEF vars, IInv, TypeOK, ConnectedSlotIsOwn
<1>4. QED
  BY <1>1, <1>2, <1>3 DEF Next

LEMMA Invariance == Spec => []IInv
<1>1. QED
  BY InitInv, StepInv, PTL DEF Spec

\* The stream infos, the command table and every frame sent stay well formed.
THEOREM TypeCorrect == Spec => []TypeOK
<1>1. IInv => TypeOK
  BY DEF IInv
<1>2. QED
  BY <1>1, Invariance, PTL

\* A connected slot is the one its sink's descriptor was given, although
\* released slots lose their unique id: no two connected slots share a sink.
THEOREM ConnectedSlotsAreOwn == Spec => []ConnectedSlotIsOwn
<1>1. IInv => ConnectedSlotIsOwn
  BY DEF IInv
<1>2. QED
  BY <1>1, Invariance, PTL


-----------------------------------------------------------------------------
(* What a step does to the stream infos, and to the command table.         *)

\* The two ways a step changes the stream infos: acmp_process_connect_tx_response
\* connects the sink's own slot, acmp_process_disconnect_tx_response clears it.
Connects(m, i) ==
    LET u == m.listener_unique_id
    IN  /\ u \in Sinks
        /\ infos[u].listener_unique_id = u
        /\ ~infos[u].connected
        /\ infos' = [infos EXCEPT ![u] =
                       [@ EXCEPT !.connected = TRUE, !.talker = m.talker,
                                 !.talker_unique_id = m.talker_unique_id]]
        /\ i \in MatchingConnect(m)
        /\ RemoveInflight(i)

Disconnects(m, i) ==
    LET u == m.listener_unique_id
    IN  /\ u \in Sinks
        /\ infos[u].listener_unique_id = u
        /\ infos[u].connected
        /\ SameStream(infos[u], m)
        /\ infos' = [infos EXCEPT ![u] = Unconnected(0)]
        /\ i \in MatchingDisconnect(m)
        /\ RemoveInflight(i)
        /\ tx' = {[Frame(m, "DISCONNECT_RX_RESPONSE", m.status) EXCEPT
                    !.sequence_id = inflight[i].original_sequence_id]}

\* A message that changes the stream infos connects or clears the sink it names.
LEMMA ReceiveInfos ==
    ASSUME IInv, NEW m \in Inputs, Receive(m), infos' # infos
    PROVE  \E i \in TableSlots : Connects(m, i) \/ Disconnects(m, i)
<1>0. m \in Messages
  BY ListenerAssumption
<1>1. ASSUME ConnectTxResponse(m)
      PROVE  \E i \in TableSlots : Connects(m, i)
  <2> DEFINE i == First(MatchingConnect(m))
  <2>1. /\ ValidListenerUnique(m.listener_unique_id)
        /\ MatchingConnect(m) # {}
        /\ ConnectMatched(m, i)
    BY <1>1 DEF ConnectTxResponse
  <2>2. i \in TableSlots /\ i \in MatchingConnect(m)
    BY <1>0, <2>1, MatchedCommand DEF IInv
  <2>3. m.listener_unique_id \in Sinks /\ infos' = Added(m) /\ RemoveInflight(i)
    BY <2>1 DEF ConnectMatched, Connect, ValidListenerUnique
  <2>4. Connects(m, i)
    BY <1>0, <1>1, <2>2, <2>3, AddedOwn DEF Connects
  <2>5. QED
    BY <2>2, <2>4
<1>2. ASSUME DisconnectTxResponse(m)
      PROVE  \E i \in TableSlots : Disconnects(m, i)
  <2> DEFINE i == First(MatchingDisconnect(m))
  <2>1. /\ MatchingDisconnect(m) # {}
        /\ Removable(m) # {}
        /\ infos' = Removed(m)
        /\ RemoveInflight(i)
        /\ tx' = {[Frame(m, "DISCONNECT_RX_RESPONSE", m.status) EXCEPT
                    !.sequence_id = inflight[i].original_sequence_id]}
    BY <1>2 DEF DisconnectTxResponse, DisconnectMatched
  <2>2. i \in TableSlots /\ i \in MatchingDisconnect(m)
    BY <1>0, <2>1, MatchedCommand DEF IInv
  <2>3. Disconnects(m, i)
    BY <1>0, <2>1, <2>2, RemovedIsOwn DEF Disconnects, Removed, IInv, ConnectedSlotIsOwn
  <2>4. QED
    BY <2>2, <2>3
<1>3. ConnectTxResponse(m) \/ DisconnectTxResponse(m)
  BY DEF Receive, ConnectRxCommand, GetRxState, DisconnectRxCommand
<1>4. QED
  BY <1>1, <1>2, <1>3

\* A step that changes the stream infos connects or clears one sink.
LEMMA InfosStep ==
    ASSUME IInv, [Next]_vars
    PROVE  \/ infos' = infos
           \/ \E m \in Messages, i \in TableSlots : Connects(m, i) \/ Disconnects(m, i)
<1>1. StatePass \/ UNCHANGED vars => infos' = infos
  BY DEF StatePass, StateProcess, vars
<1>2. QED
  BY <1>1, ReceiveInfos, ListenerAssumption DEF Next

-----------------------------------------------------------------------------
(* The listener implements AcmpSink.                                       *)

LEMMA BindStep ==
    ASSUME IInv, NEW m \in Messages, NEW i \in TableSlots, Connects(m, i)
    PROVE  \E stream \in BoundSinks : Abstract!Bind(m.listener_unique_id, stream)
<1> DEFINE u == m.listener_unique_id
<1> DEFINE stream == SinkIn("bound", m.talker, m.talker_unique_id)
<1> DEFINE new == [infos[u] EXCEPT !.connected = TRUE, !.talker = m.talker,
                                   !.talker_unique_id = m.talker_unique_id]
<1>1. u \in Sinks /\ infos' = [infos EXCEPT ![u] = new]
  BY DEF Connects
<1>2. infos[u] \in StreamInfos /\ infos \in [Sinks -> StreamInfos]
  BY <1>1 DEF IInv, TypeOK
<1>3. SinkState(u) = SinkIn("idle", NoEntity, 0)
  BY DEF Connects, SinkState
<1>4. new.connected /\ new.talker = m.talker /\ new.talker_unique_id = m.talker_unique_id
  BY <1>2 DEF StreamInfos
<1>5. infos'[u] = new /\ \A s \in Sinks : s # u => infos'[s] = infos[s]
  <2> HIDE DEF new
  <2> QED BY <1>1, <1>2
<1>6. SinkState(u)' = stream
  BY <1>4, <1>5 DEF SinkState
<1>7. \A s \in Sinks : s # u => SinkState(s)' = SinkState(s)
  BY <1>5 DEF SinkState
<1>8. [s \in Sinks |-> SinkState(s)]' = [[s \in Sinks |-> SinkState(s)] EXCEPT ![u] = stream]
  <2> HIDE DEF stream
  <2> QED BY <1>1, <1>6, <1>7
<1>9. stream \in BoundSinks
  BY DEF Messages, BoundSinks, SinkIn
<1>10. Abstract!Bind(u, stream)
  BY <1>1, <1>3, <1>8 DEF Abstract!Bind
<1>11. QED
  BY <1>9, <1>10

LEMMA ReleaseStep ==
    ASSUME IInv, NEW m \in Messages, NEW i \in TableSlots, Disconnects(m, i)
    PROVE  Abstract!Release(m.listener_unique_id)
<1> DEFINE u == m.listener_unique_id
<1> DEFINE after == IF u = 0 THEN SinkIn("idle", NoEntity, 0) ELSE SinkIn("lost", NoEntity, 0)
<1>1. u \in Sinks /\ infos' = [infos EXCEPT ![u] = Unconnected(0)]
  BY DEF Disconnects
<1>2. infos[u] \in StreamInfos /\ infos \in [Sinks -> StreamInfos]
  BY <1>1 DEF IInv, TypeOK
<1>3. SinkState(u) \in BoundSinks
  BY <1>2 DEF Disconnects, SinkState, SinkIn, BoundSinks, StreamInfos
<1>4. infos'[u] = Unconnected(0) /\ \A s \in Sinks : s # u => infos'[s] = infos[s]
  BY <1>1, <1>2
<1>5. SinkState(u)' = after
  BY <1>4 DEF SinkState, Unconnected
<1>6. \A s \in Sinks : s # u => SinkState(s)' = SinkState(s)
  BY <1>4 DEF SinkState
<1>7. [s \in Sinks |-> SinkState(s)]' = [[s \in Sinks |-> SinkState(s)] EXCEPT ![u] = after]
  <2> HIDE DEF after
  <2> QED BY <1>1, <1>5, <1>6
<1>8. QED
  BY <1>1, <1>3, <1>7 DEF Abstract!Release

\* The listener implements the sink lifecycle of AcmpSink: whatever the
\* network delivers, a bound sink is released before it is bound again, and a
\* sink other than 0 is bound at most once.
THEOREM ImplementsSinkLifecycle == Spec => SinkLifecycle
<1>1. Init => Abstract!Init
  BY DEF Init, Abstract!Init, SinkState, Unconnected
<1>2. IInv /\ [Next]_vars => [Abstract!Next]_([s \in Sinks |-> SinkState(s)])
  <2> SUFFICES ASSUME IInv, [Next]_vars
               PROVE  [Abstract!Next]_([s \in Sinks |-> SinkState(s)])
    OBVIOUS
  <2>1. CASE infos' = infos
    BY <2>1 DEF SinkState
  <2>2. ASSUME NEW m \in Messages, NEW i \in TableSlots, Connects(m, i)
        PROVE  Abstract!Next
    BY <2>2, BindStep DEF Connects, Abstract!Next
  <2>3. ASSUME NEW m \in Messages, NEW i \in TableSlots, Disconnects(m, i)
        PROVE  Abstract!Next
    BY <2>3, ReleaseStep DEF Disconnects, Abstract!Next
  <2>4. QED
    BY <2>1, <2>2, <2>3, InfosStep
<1>3. QED
  BY <1>1, <1>2, Invariance, PTL DEF Spec, Abstract!Spec, SinkLifecycle


-----------------------------------------------------------------------------
(* Action properties.                                                      *)

\* The response that binds a sink binds it to the stream it names, binds no
\* other, and uses up one CONNECT_TX_COMMAND in flight with its sequence id.
THEOREM ConnectionUsesUpCommand == Spec => ConnectConsumesCommand
<1> DEFINE OneCommand(s, m) ==
             /\ infos' = [infos EXCEPT ![s] = infos'[s]]
             /\ SameStream(infos'[s], m)
             /\ \E i \in TableSlots :
                   /\ Armed(i)
                   /\ inflight[i].command.message_type = "CONNECT_TX_COMMAND"
                   /\ inflight[i].command.sequence_id = m.sequence_id
                   /\ inflight' = [inflight EXCEPT ![i] = NoCommand]
           A == \A s \in Sinks :
                  ~infos[s].connected /\ infos'[s].connected =>
                    \A m \in Inputs : Receive(m) => OneCommand(s, m)
<1>1. IInv /\ [Next]_vars => A
  <2> SUFFICES ASSUME IInv, NEW s \in Sinks, NEW m \in Inputs,
                      ~infos[s].connected, infos'[s].connected, Receive(m)
               PROVE  OneCommand(s, m)
    OBVIOUS
  <2>1. PICK i \in TableSlots : Connects(m, i) \/ Disconnects(m, i)
    BY ReceiveInfos
  <2>2. ~Disconnects(m, i)
    BY DEF Disconnects, Unconnected, IInv, TypeOK
  <2>3. CASE Connects(m, i)
    <3>1. m.listener_unique_id = s
      BY <2>3 DEF Connects, IInv, TypeOK
    <3>2. /\ infos' = [infos EXCEPT ![s] = infos'[s]]
          /\ SameStream(infos'[s], m)
      BY <2>3, <3>1 DEF Connects, SameStream, IInv, TypeOK, StreamInfos
    <3>3. /\ Armed(i)
          /\ inflight[i].command.message_type = "CONNECT_TX_COMMAND"
          /\ inflight[i].command.sequence_id = m.sequence_id
          /\ inflight' = [inflight EXCEPT ![i] = NoCommand]
      BY <2>3 DEF Connects, MatchingConnect, RemoveInflight
    <3>4. QED
      BY <3>2, <3>3
  <2>4. QED
    BY <2>1, <2>2, <2>3
<1>2. QED
  BY <1>1, Invariance, PTL DEF Spec, ConnectConsumesCommand

\* A sink is released only with an answer that names the stream it was bound
\* to, by the response to a command that was still armed.
THEOREM ReleaseNamesBoundStream == Spec => DisconnectNamesBoundStream
<1> DEFINE A == \A s \in Sinks :
                  infos[s].connected /\ ~infos'[s].connected =>
                    /\ \E r \in tx' :
                          /\ r.message_type = "DISCONNECT_RX_RESPONSE"
                          /\ r.listener_unique_id = s
                          /\ SameStream(r, infos[s])
                    /\ \E i \in TableSlots : Armed(i) /\ ~Armed(i)'
<1>1. IInv /\ [Next]_vars => A
  <2> SUFFICES ASSUME IInv, [Next]_vars, NEW s \in Sinks,
                      infos[s].connected, ~infos'[s].connected
               PROVE  /\ \E r \in tx' :
                            /\ r.message_type = "DISCONNECT_RX_RESPONSE"
                            /\ r.listener_unique_id = s
                            /\ SameStream(r, infos[s])
                      /\ \E i \in TableSlots : Armed(i) /\ ~Armed(i)'
    OBVIOUS
  <2>1. ASSUME NEW m \in Messages, NEW i \in TableSlots, Connects(m, i)
        PROVE  FALSE
    BY <2>1 DEF Connects, IInv, TypeOK, StreamInfos
  <2>2. ASSUME NEW m \in Messages, NEW i \in TableSlots, Disconnects(m, i)
        PROVE  /\ \E r \in tx' :
                     /\ r.message_type = "DISCONNECT_RX_RESPONSE"
                     /\ r.listener_unique_id = s
                     /\ SameStream(r, infos[s])
               /\ Armed(i) /\ ~Armed(i)'
    <3>1. s = m.listener_unique_id
      BY <2>2 DEF Disconnects, IInv, TypeOK
    <3>2. Armed(i) /\ ~Armed(i)'
      BY <2>2 DEF Disconnects, MatchingDisconnect, MatchingAnyType, RemoveInflight, Armed,
                  IInv, TypeOK
    <3> DEFINE r == [Frame(m, "DISCONNECT_RX_RESPONSE", m.status) EXCEPT
                       !.sequence_id = inflight[i].original_sequence_id]
    <3>3. /\ r.message_type = "DISCONNECT_RX_RESPONSE"
          /\ r.listener_unique_id = m.listener_unique_id
          /\ r.talker = m.talker
          /\ r.talker_unique_id = m.talker_unique_id
      BY DEF Frame, Messages
    <3>4. SameStream(r, infos[s])
      BY <2>2, <3>1, <3>3 DEF Disconnects, SameStream
    <3>5. QED
      BY <2>2, <3>1, <3>2, <3>3, <3>4 DEF Disconnects
  <2>3. QED
    BY <2>1, <2>2, InfosStep
<1>2. QED
  BY <1>1, Invariance, PTL DEF Spec, DisconnectNamesBoundStream

\* The fate of an armed command in one step: it stays, it spends its retry, or
\* it leaves with a final answer that carries its sequence id.
LEMMA ArmedCommandStep ==
    ASSUME IInv, [Next]_vars, NEW i \in TableSlots, Armed(i)
    PROVE  \/ inflight'[i] = inflight[i]
           \/ inflight'[i] = [inflight[i] EXCEPT !.retried = TRUE]
           \/ /\ inflight'[i] = NoCommand
              /\ \E r \in tx' : /\ IsFinalAnswer(r)
                                /\ r.sequence_id = inflight[i].original_sequence_id
<1>1. inflight \in [TableSlots -> InflightCommands \cup {NoCommand}]
      /\ inflight[i] \in InflightCommands
  BY DEF IInv, TypeOK, Armed
<1>2. ASSUME NEW m \in Messages, NEW type \in CommandTypes, NEW sent \in BOOLEAN,
             TxCommand(m, type, sent)
      PROVE  inflight'[i] = inflight[i]
  BY <1>1, <1>2, FirstFreeSlot DEF TxCommand, Armed
<1>3. ASSUME NEW m \in Messages, ConnectTxResponse(m), inflight' # inflight
      PROVE  \/ inflight'[i] = inflight[i]
             \/ /\ inflight'[i] = NoCommand
                /\ \E r \in tx' : /\ IsFinalAnswer(r)
                                  /\ r.sequence_id = inflight[i].original_sequence_id
  <2> DEFINE k == First(MatchingConnect(m))
  <2> DEFINE r == [Frame(m, "CONNECT_RX_RESPONSE", AddStatus(m)) EXCEPT
                     !.sequence_id = inflight[k].original_sequence_id]
  <2>1. MatchingConnect(m) # {} /\ ConnectMatched(m, k)
    BY <1>3 DEF ConnectTxResponse
  <2>2. tx' = {r} /\ inflight' = [inflight EXCEPT ![k] = NoCommand]
    BY <2>1 DEF ConnectMatched, Connect, RemoveInflight
  <2>3. /\ r.message_type = "CONNECT_RX_RESPONSE"
        /\ r.sequence_id = inflight[k].original_sequence_id
    BY DEF Frame, Messages
  <2>4. QED
    BY <1>1, <2>2, <2>3 DEF IsFinalAnswer
<1>4. ASSUME NEW m \in Messages, DisconnectTxResponse(m), inflight' # inflight
      PROVE  \/ inflight'[i] = inflight[i]
             \/ /\ inflight'[i] = NoCommand
                /\ \E r \in tx' : /\ IsFinalAnswer(r)
                                  /\ r.sequence_id = inflight[i].original_sequence_id
  <2> DEFINE k == First(MatchingDisconnect(m))
  <2> DEFINE r == [Frame(m, "DISCONNECT_RX_RESPONSE", m.status) EXCEPT
                     !.sequence_id = inflight[k].original_sequence_id]
  <2>1. tx' = {r} /\ inflight' = [inflight EXCEPT ![k] = NoCommand]
    BY <1>4 DEF DisconnectTxResponse, DisconnectMatched, RemoveInflight
  <2>2. /\ r.message_type = "DISCONNECT_RX_RESPONSE"
        /\ r.sequence_id = inflight[k].original_sequence_id
    BY DEF Frame, Messages
  <2>3. QED
    BY <1>1, <2>1, <2>2 DEF IsFinalAnswer
<1>5. ASSUME NEW due \in SUBSET TableSlots, NEW failed \in SUBSET due,
             StateProcess(due, failed), i \in due
      PROVE  \/ inflight'[i] = [inflight[i] EXCEPT !.retried = TRUE]
             \/ /\ inflight'[i] = NoCommand
                /\ \E r \in tx' : /\ IsFinalAnswer(r)
                                  /\ r.sequence_id = inflight[i].original_sequence_id
  <2> DEFINE e == inflight[i]
  <2>1. CASE ~e.retried
    BY <1>1, <1>5, <2>1 DEF StateProcess, AfterExpiry
  <2>2. CASE e.retried
    <3> DEFINE r == ExpiryFrame(e, i \notin failed)
    <3>1. r \in tx' /\ inflight'[i] = NoCommand
      BY <1>1, <1>5, <2>2 DEF StateProcess, AfterExpiry
    <3>2. e.command \in Messages /\ e.original_sequence_id \in SequenceIds
      BY <1>1 DEF InflightCommands, TxCommands
    <3>3. /\ r.message_type = RxResponseType(e.command)
          /\ r.sequence_id = e.original_sequence_id
      BY <2>2, <3>2 DEF ExpiryFrame, Frame, Messages
    <3>4. QED
      BY <3>1, <3>3 DEF IsFinalAnswer, RxResponseType
  <2>3. QED
    BY <1>1, <2>1, <2>2 DEF InflightCommands
<1>6. ASSUME NEW m \in Inputs, Receive(m)
      PROVE  \/ inflight'[i] = inflight[i]
             \/ /\ inflight'[i] = NoCommand
                /\ \E r \in tx' : /\ IsFinalAnswer(r)
                                  /\ r.sequence_id = inflight[i].original_sequence_id
  <2>1. m \in Messages
    BY ListenerAssumption
  <2>2. CASE ConnectRxCommand(m) \/ DisconnectRxCommand(m)
    BY <1>2, <2>1, <2>2 DEF ConnectRxCommand, DisconnectRxCommand, CommandTypes
  <2>3. CASE GetRxState(m)
    BY <2>3 DEF GetRxState
  <2>4. CASE ConnectTxResponse(m)
    BY <1>3, <2>1, <2>4
  <2>5. CASE DisconnectTxResponse(m)
    BY <1>4, <2>1, <2>5
  <2>6. QED
    BY <1>6, <2>2, <2>3, <2>4, <2>5 DEF Receive
<1>7. ASSUME NEW due \in SUBSET TableSlots, NEW failed \in SUBSET due,
             StateProcess(due, failed), i \notin due
      PROVE  inflight'[i] = inflight[i]
  BY <1>7 DEF StateProcess
<1>8. CASE UNCHANGED vars
  BY <1>8 DEF vars
<1>9. QED
  BY <1>5, <1>6, <1>7, <1>8 DEF Next, StatePass

\* No command is overwritten in the table, whatever the order of commands,
\* responses and expiries, and none is transmitted more than twice.
THEOREM CommandsNeverOverwritten == Spec => CommandsStable
<1> DEFINE A == \A i \in TableSlots :
                  Armed(i) /\ Armed(i)' =>
                    /\ inflight'[i].command = inflight[i].command
                    /\ inflight[i].retried => inflight'[i].retried
<1>1. IInv /\ [Next]_vars => A
  <2> SUFFICES ASSUME IInv, [Next]_vars, NEW i \in TableSlots, Armed(i), Armed(i)'
               PROVE  /\ inflight'[i].command = inflight[i].command
                      /\ inflight[i].retried => inflight'[i].retried
    OBVIOUS
  <2>1. inflight[i] \in InflightCommands
    BY DEF IInv, TypeOK, Armed
  <2>2. QED
    BY <2>1, ArmedCommandStep DEF Armed, InflightCommands
<1>2. QED
  BY <1>1, Invariance, PTL DEF Spec, CommandsStable

\* No command leaves the table without a final answer to its controller.
THEOREM ReleasedCommandsAreAnswered == Spec => ReleaseAnswers
<1> DEFINE A == \A i \in TableSlots :
                  Armed(i) /\ ~Armed(i)' =>
                    \E r \in tx' :
                        /\ IsFinalAnswer(r)
                        /\ r.sequence_id = inflight[i].original_sequence_id
<1>1. IInv /\ [Next]_vars => A
  <2> SUFFICES ASSUME IInv, [Next]_vars, NEW i \in TableSlots, Armed(i), ~Armed(i)'
               PROVE  \E r \in tx' :
                        /\ IsFinalAnswer(r)
                        /\ r.sequence_id = inflight[i].original_sequence_id
    OBVIOUS
  <2>1. inflight[i] \in InflightCommands /\ inflight'[i] = NoCommand
    BY DEF IInv, TypeOK, Armed
  <2>2. [inflight[i] EXCEPT !.retried = TRUE] \in InflightCommands
    BY <2>1 DEF InflightCommands
  <2>3. QED
    BY <2>1, <2>2, ArmedCommandStep, ListenerAssumption
<1>2. QED
  BY <1>1, Invariance, PTL DEF Spec, ReleaseAnswers


\* A controller is told SUCCESS only of a connection that exists when it is
\* told: an overtaken or late response is answered with another status.
THEOREM SuccessIsTrue == Spec => SuccessMeansBound
<1> DEFINE Good(r) ==
        r.message_type = "CONNECT_RX_RESPONSE" /\ r.status = "SUCCESS" =>
            \E s \in Sinks :
                /\ infos'[s].listener_unique_id = r.listener_unique_id
                /\ infos'[s].connected
                /\ SameStream(infos'[s], r)
<1> DEFINE A == \A r \in tx' : Good(r)
<1>1. ASSUME NEW m \in Messages, NEW type, NEW status,
             type # "CONNECT_RX_RESPONSE" \/ status # "SUCCESS"
      PROVE  Good(Frame(m, type, status))
  BY <1>1 DEF Frame, Messages
<1>2. ASSUME IInv, NEW m \in Messages, ConnectTxResponse(m)
      PROVE  A
  <2> DEFINE i == First(MatchingConnect(m))
  <2> DEFINE r == [Frame(m, "CONNECT_RX_RESPONSE", AddStatus(m)) EXCEPT
                     !.sequence_id = inflight[i].original_sequence_id]
  <2>1. CASE tx' = {}
    BY <2>1
  <2>2. CASE \E status \in Statuses \ {"SUCCESS"} :
               TxResponse(m, "CONNECT_RX_RESPONSE", status)
    BY <1>1, <2>2 DEF TxResponse
  <2>3. CASE /\ ValidListenerUnique(m.listener_unique_id)
             /\ ConnectMatched(m, i)
    <3> DEFINE u == m.listener_unique_id
    <3> DEFINE new == [infos[u] EXCEPT !.connected = TRUE, !.talker = m.talker,
                                       !.talker_unique_id = m.talker_unique_id]
    <3>1. u \in Sinks /\ infos' = Added(m) /\ tx' = {r}
      BY <2>3 DEF ConnectMatched, Connect, ValidListenerUnique
    <3>2. /\ r.status = AddStatus(m)
          /\ r.listener_unique_id = u
          /\ r.talker = m.talker
          /\ r.talker_unique_id = m.talker_unique_id
      BY DEF Frame, Messages
    <3>3. CASE AddStatus(m) # "SUCCESS"
      BY <3>1, <3>2, <3>3
    <3>4. CASE infos[u].listener_unique_id = u /\ Added(m) = [infos EXCEPT ![u] = new]
      <4>1. infos[u] \in StreamInfos /\ infos'[u] = new
        BY <1>2, <3>1, <3>4 DEF IInv, TypeOK
      <4>2. /\ new.listener_unique_id = u
            /\ new.connected
            /\ new.talker = m.talker
            /\ new.talker_unique_id = m.talker_unique_id
        BY <3>4, <4>1 DEF StreamInfos
      <4>3. infos'[u].listener_unique_id = u /\ infos'[u].connected /\ u \in Sinks
        BY <3>1, <4>1, <4>2
      <4>4. infos'[u].talker = m.talker /\ infos'[u].talker_unique_id = m.talker_unique_id
        BY <4>1, <4>2
      <4> HIDE DEF new, r, u
      <4>5. SameStream(infos'[u], r)
        BY <3>2, <4>4 DEF SameStream
      <4>6. Good(r)
        BY <3>2, <4>3, <4>5
      <4>7. QED
        BY <3>1, <4>6
    <3>5. QED
      BY <1>2, <3>1, <3>3, <3>4, AddedOwn
  <2>4. m.status \in Statuses /\ "LISTENER_MISBEHAVING" \in Statuses \ {"SUCCESS"}
    BY DEF Messages, Statuses
  <2>5. QED
    BY <1>2, <2>1, <2>2, <2>3, <2>4 DEF ConnectTxResponse
<1>3. ASSUME IInv, NEW m \in Messages,
             ConnectRxCommand(m) \/ GetRxState(m) \/ DisconnectRxCommand(m)
                \/ DisconnectTxResponse(m)
      PROVE  A
  <2>1. CASE \E type \in {"CONNECT_TX_COMMAND", "DISCONNECT_TX_COMMAND"}, sent \in BOOLEAN :
               TxCommand(m, type, sent)
    BY <1>1, <2>1 DEF TxCommand
  <2>2. CASE \E status \in {"LISTENER_UNKNOWN_ID", "LISTENER_EXCLUSIVE"} :
               TxResponse(m, "CONNECT_RX_RESPONSE", status)
    BY <1>1, <2>2 DEF TxResponse
  <2>3. CASE \E type \in {"GET_RX_STATE_RESPONSE", "DISCONNECT_RX_RESPONSE"},
                status \in Statuses :
               TxResponse(m, type, status)
    BY <1>1, <2>3 DEF TxResponse
  <2>4. CASE tx' = {}
    BY <2>4
  <2>5. CASE \A r \in tx' : r.message_type # "CONNECT_RX_RESPONSE"
    BY <2>5
  <2>6. CASE GetRxState(m)
    <3> DEFINE f(status) == Frame(m, "GET_RX_STATE_RESPONSE", status)
    <3>1. \A status : f(status).message_type = "GET_RX_STATE_RESPONSE"
      BY DEF Frame, Messages
    <3> DEFINE g(t, n) == [f("SUCCESS") EXCEPT !.talker = t, !.connection_count = n]
    <3>2. \A t, n : g(t, n).message_type = "GET_RX_STATE_RESPONSE"
      BY DEF Frame, Messages
    <3> DEFINE info == infos[Find(m.listener_unique_id)]
    <3>3. \/ \E status : tx' = {f(status)}
          \/ tx' = {g(info.talker, IF info.connected THEN 1 ELSE 0)}
      BY <2>6 DEF GetRxState, TxResponse
    <3> HIDE DEF f, g
    <3>4. \A r \in tx' : r.message_type = "GET_RX_STATE_RESPONSE"
      BY <3>1, <3>2, <3>3
    <3>5. QED
      BY <3>4
  <2>7. CASE DisconnectTxResponse(m)
    <3> DEFINE f(q) == [Frame(m, "DISCONNECT_RX_RESPONSE", m.status) EXCEPT !.sequence_id = q]
    <3>1. \A q : f(q).message_type = "DISCONNECT_RX_RESPONSE"
      BY DEF Frame, Messages
    <3>2. tx' = {} \/ \E q : tx' = {f(q)}
      BY <2>7 DEF DisconnectTxResponse, DisconnectMatched
    <3> HIDE DEF f
    <3>3. QED
      BY <3>1, <3>2
  <2>8. {"LISTENER_UNKNOWN_ID", "NOT_CONNECTED"} \subseteq Statuses
    BY DEF Statuses
  <2>9. QED
    BY <1>3, <2>1, <2>2, <2>3, <2>6, <2>7, <2>8 DEF ConnectRxCommand, DisconnectRxCommand
<1>4. ASSUME IInv, StatePass
      PROVE  A
  <2>1. ASSUME NEW e \in InflightCommands, NEW sent \in BOOLEAN
        PROVE  Good(ExpiryFrame(e, sent))
    <3>1. e.command \in Messages /\ e.command.message_type # "CONNECT_RX_RESPONSE"
      BY DEF InflightCommands, TxCommands
    <3> DEFINE r == ExpiryFrame(e, sent)
    <3>2. CASE e.retried
      <4>1. r.status = "LISTENER_TALKER_TIMEOUT"
        BY <3>1, <3>2 DEF ExpiryFrame, Frame, Messages
      <4>2. QED
        BY <4>1
    <3>3. CASE ~e.retried
      <4>1. r.message_type # "CONNECT_RX_RESPONSE"
        BY <3>1, <3>3 DEF ExpiryFrame, Frame, Messages
      <4>2. QED
        BY <4>1
    <3>4. QED
      BY <3>2, <3>3 DEF InflightCommands
  <2>2. PICK due \in SUBSET TableSlots :
            \E failed \in SUBSET due : StateProcess(due, failed)
    BY <1>4 DEF StatePass
  <2>3. PICK failed \in SUBSET due : StateProcess(due, failed)
    BY <2>2
  <2>4. \A i \in due : inflight[i] \in InflightCommands
    BY <1>4, <2>3 DEF StateProcess, Armed, IInv, TypeOK
  <2>5. ASSUME NEW f \in tx'
        PROVE  Good(f)
    <3>1. tx' = {ExpiryFrame(inflight[i], i \notin failed) : i \in due}
      BY <2>3 DEF StateProcess
    <3>2. PICK i \in due : f = ExpiryFrame(inflight[i], i \notin failed)
      BY <3>1
    <3>3. (i \notin failed) \in BOOLEAN
      OBVIOUS
    <3>4. Good(ExpiryFrame(inflight[i], i \notin failed))
      BY <2>1, <2>4, <3>3
    <3> HIDE DEF Good
    <3>5. QED
      BY <3>2, <3>4
  <2>6. QED
    BY <2>5
<1>5. IInv /\ [Next]_vars => [A]_vars
  BY <1>2, <1>3, <1>4, ListenerAssumption DEF Next, Receive
<1>6. QED
  BY <1>5, Invariance, PTL DEF Spec, SuccessMeansBound

=============================================================================
