------------------------- MODULE AcmpNetworkProofs -------------------------
(***************************************************************************)
(* Proofs about careful controllers, a listener and a talker on a network  *)
(* that loses nothing, for any number of them, of sinks and of sources.     *)
(*                                                                         *)
(* The invariant follows every outstanding command through the network:    *)
(* one frame at a time stands for it, and tells how far it has come.       *)
(***************************************************************************)
EXTENDS AcmpNetwork, FiniteSetTheorems, SequenceTheorems, WellFoundedInduction, TLAPS

-----------------------------------------------------------------------------
(* The inductive invariant.                                                *)

TxCommandTypes == {"CONNECT_TX_COMMAND", "DISCONNECT_TX_COMMAND"}
TxResponseTypes == {"CONNECT_TX_RESPONSE", "DISCONNECT_TX_RESPONSE"}
TxTypes == TxCommandTypes \cup TxResponseTypes
RxResponseTypes == {"CONNECT_RX_RESPONSE", "DISCONNECT_RX_RESPONSE"}

ConnectTypes == {"CONNECT_RX_COMMAND", "CONNECT_TX_COMMAND",
                 "CONNECT_TX_RESPONSE", "CONNECT_RX_RESPONSE"}
DisconnectTypes == {"DISCONNECT_RX_COMMAND", "DISCONNECT_TX_COMMAND",
                    "DISCONNECT_TX_RESPONSE", "DISCONNECT_RX_RESPONSE"}

\* Type correctness of the composition.
NetTypeOK ==
    /\ infos \in [L!Sinks -> L!StreamInfos]
    /\ inflight \in [L!TableSlots -> L!InflightCommands \cup {NoCommand}]
    /\ pairs \in [T!Sources -> Seq(T!Pairs)]
    /\ dangling \in [T!Sources -> BOOLEAN]
    /\ count \in [T!Sources -> 0 .. CountRange - 1]
    /\ monitor \in {"running", "looping", "undefined"}
    /\ net \subseteq L!Messages
    /\ request \in [Controllers -> L!Messages \cup {NoRequest}]
    /\ sequence \in [Controllers -> Nat]
    /\ \A c \in Controllers : FirstId[c] <= sequence[c]
    /\ connections \subseteq T!Sources \X L!Sinks

\* Every controller manages its own sinks under its own sequence ids, connects
\* a free sink that has its slot and disconnects only a stream it has.
RequestsOwn ==
    \A c \in Controllers : request[c] # NoRequest =>
        LET q == request[c]
            s == q.listener_unique_id
        IN  /\ q.controller = c
            /\ s \in SinksOf[c]
            /\ q.sequence_id \in FirstId[c] .. LastId[c]
            /\ q.sequence_id < sequence[c]
            /\ \/ /\ q.message_type = "CONNECT_RX_COMMAND"
                  /\ \A stream \in connections : stream[2] # s
                  /\ s \in L!Sinks => infos[s].listener_unique_id = s
               \/ /\ q.message_type = "DISCONNECT_RX_COMMAND"
                  /\ <<q.talker_unique_id, s>> \in connections

\* Every frame in transit stands for its controller's outstanding command.
FrameOf(m, q) ==
    /\ m.sequence_id = q.sequence_id
    /\ m.talker = Talker
    /\ m.listener = Listener
    /\ m.talker_unique_id = q.talker_unique_id
    /\ m.listener_unique_id = q.listener_unique_id
    /\ \/ q.message_type = "CONNECT_RX_COMMAND" /\ m.message_type \in ConnectTypes
       \/ q.message_type = "DISCONNECT_RX_COMMAND" /\ m.message_type \in DisconnectTypes
    /\ m.message_type \in TxTypes => m.listener_unique_id \in L!Sinks
    /\ m.message_type \in TxResponseTypes => m.status = "SUCCESS"
    /\ m.message_type \in RxResponseTypes =>
          (m.status = "SUCCESS" <=> m.listener_unique_id \in L!Sinks)

FramesStand ==
    \A m \in net :
        /\ request[m.controller] # NoRequest
        /\ FrameOf(m, request[m.controller])

OneFrame == \A m, n \in net : m.controller = n.controller => m = n

\* The listener's table holds one command for every frame between it and the
\* talker, each an outstanding one that has no frame elsewhere.
CommandOf(command, q) ==
    /\ command.sequence_id = q.sequence_id
    /\ \/ /\ command.message_type = "CONNECT_TX_COMMAND"
          /\ q.message_type = "CONNECT_RX_COMMAND"
       \/ /\ command.message_type = "DISCONNECT_TX_COMMAND"
          /\ q.message_type = "DISCONNECT_RX_COMMAND"

ArmedFor(i, c) == L!Armed(i) /\ inflight[i].command.controller = c

ArmedStand ==
    /\ \A i \in L!TableSlots, c \in Controllers : ArmedFor(i, c) =>
          /\ request[c] # NoRequest
          /\ CommandOf(inflight[i].command, request[c])
          /\ inflight[i].original_sequence_id = request[c].sequence_id
          /\ \A m \in net : m.controller = c => m.message_type \in TxTypes
    /\ \A m \in net : m.message_type \in TxTypes =>
          \E i \in L!TableSlots : ArmedFor(i, m.controller)
    /\ \A i, j \in L!TableSlots, c \in Controllers :
          ArmedFor(i, c) /\ ArmedFor(j, c) => i = j

InTransit(type, s) == \E m \in net : m.message_type = type /\ m.listener_unique_id = s

InTransitFor(type, u, s) ==
    \E m \in net : /\ m.message_type = type
                   /\ m.talker_unique_id = u
                   /\ m.listener_unique_id = s

\* The streams the listener has bound are the ones the controllers know, but for
\* the answers that are still on their way.
Bound(u, s) == infos[s].connected /\ infos[s].talker_unique_id = u

BoundIsKnown ==
    \A u \in T!Sources, s \in L!Sinks :
        Bound(u, s) <=>
            \/ <<u, s>> \in connections /\ ~InTransit("DISCONNECT_RX_RESPONSE", s)
            \/ InTransitFor("CONNECT_RX_RESPONSE", u, s)

OneStream ==
    \A s \in L!Sinks, u, v \in T!Sources :
        <<u, s>> \in connections /\ <<v, s>> \in connections => u = v

SlotsOwn ==
    \A s \in L!Sinks :
        /\ infos[s].listener_unique_id \in {s, 0}
        /\ infos[s].connected => infos[s].listener_unique_id = s /\ infos[s].talker = Talker

\* The sinks the talker streams source u to: those bound to it, but for the
\* answers that are still on their way to the listener.
Held(u) ==
    {s \in L!Sinks :
        \/ Bound(u, s) /\ ~InTransit("DISCONNECT_TX_RESPONSE", s)
        \/ InTransitFor("CONNECT_TX_RESPONSE", u, s)}

PairOfSink(s) == [listener |-> Listener, listener_unique_id |-> s]

HeldIsListed ==
    monitor = "running" =>
        \A u \in T!Sources :
            /\ count[u] = Cardinality(Held(u))
            /\ \A s \in Held(u) : \E k \in 1 .. Len(pairs[u]) : pairs[u][k] = PairOfSink(s)

NetInv ==
    /\ NetTypeOK
    /\ RequestsOwn
    /\ FramesStand
    /\ OneFrame
    /\ ArmedStand
    /\ BoundIsKnown
    /\ OneStream
    /\ SlotsOwn
    /\ HeldIsListed

-----------------------------------------------------------------------------
(* Frames.                                                                 *)

\* Frame r names the same stream, for the same controller, as frame m.
SameCommand(r, m) ==
    /\ r \in L!Messages
    /\ r.controller = m.controller
    /\ r.sequence_id = m.sequence_id
    /\ r.talker = m.talker
    /\ r.listener = m.listener
    /\ r.talker_unique_id = m.talker_unique_id
    /\ r.listener_unique_id = m.listener_unique_id

\* Both senders of acmp.c pass a command on under another type and status.
LEMMA FrameMade ==
    ASSUME NEW m \in L!Messages, NEW type \in L!CommandTypes \cup L!ResponseTypes,
           NEW status \in L!Statuses
    PROVE  /\ SameCommand(L!Frame(m, type, status), m)
           /\ L!Frame(m, type, status).message_type = type
           /\ L!Frame(m, type, status).status = status
           /\ T!Frame(m, type, status) = L!Frame(m, type, status)
  BY DEF SameCommand, L!Frame, T!Frame, L!Messages

\* The listener answers under the command's first sequence id, which is its own.
LEMMA FrameRenumbered ==
    ASSUME NEW m \in L!Messages, NEW type \in L!CommandTypes \cup L!ResponseTypes,
           NEW status \in L!Statuses, NEW n, n = m.sequence_id
    PROVE  LET r == [L!Frame(m, type, status) EXCEPT !.sequence_id = n]
           IN  SameCommand(r, m) /\ r.message_type = type /\ r.status = status
  BY DEF SameCommand, L!Frame, L!Messages

\* The talker answers with its connection_count.
LEMMA FrameCounted ==
    ASSUME NEW m \in L!Messages, NEW type \in L!CommandTypes \cup L!ResponseTypes,
           NEW status \in L!Statuses, NEW n \in 0 .. CountRange - 1
    PROVE  LET r == [T!Frame(m, type, status) EXCEPT !.connection_count = n]
           IN  SameCommand(r, m) /\ r.message_type = type /\ r.status = status
<1>1. n \in L!UInt16
  BY StationsAssumption DEF L!UInt16
<1>2. QED
  BY <1>1 DEF SameCommand, T!Frame, L!Messages

\* A search over a nonempty set of table indices ends at its smallest member.
LEMMA FirstInSet ==
    ASSUME NEW S, S \subseteq Nat, S # {}
    PROVE  /\ L!First(S) \in S /\ \A j \in S : L!First(S) <= j
           /\ T!First(S) \in S
<1> DEFINE Less == {p \in Nat \X Nat : p[1] < p[2]}
<1>1. IsWellFoundedOn(Less, Nat)
  BY NatLessThanWellFounded, Zenon DEF OpToRel
<1>2. PICK x \in S : \A y \in S : ~ (<<y, x>> \in Less)
  <2> HIDE DEF Less
  <2> QED BY <1>1, WFMin
<1>3. \A y \in S : x <= y
  <2>1. SUFFICES ASSUME NEW y \in S, y < x PROVE FALSE
    OBVIOUS
  <2>2. <<y, x>> \in Less
    BY <2>1
  <2>3. QED
    BY <1>2, <2>2
<1>4. QED
  BY <1>3 DEF L!First, T!First

\* What the invariant says of a frame in transit.
LEMMA FrameFacts ==
    ASSUME CarefulNetwork, NetInv, NEW m \in net
    PROVE  /\ m \in L!Messages
           /\ m.controller \in Controllers
           /\ request[m.controller] # NoRequest
           /\ request[m.controller] \in L!Messages
           /\ request[m.controller].controller = m.controller
           /\ FrameOf(m, request[m.controller])
           /\ m.talker_unique_id \in T!Sources
           /\ m.listener_unique_id \in ListenerUids
           /\ m.listener_unique_id \in SinksOf[m.controller]
           /\ m.sequence_id \in FirstId[m.controller] .. LastId[m.controller]
<1>1. m \in L!Messages
  BY DEF NetInv, NetTypeOK
<1>2. /\ m.controller \in Controllers
      /\ m.talker_unique_id \in T!Sources
      /\ m.listener_unique_id \in ListenerUids
  BY <1>1 DEF L!Messages, CarefulNetwork
<1>3. request[m.controller] # NoRequest /\ FrameOf(m, request[m.controller])
  BY DEF NetInv, FramesStand
<1>4. request[m.controller] \in L!Messages
  BY <1>2, <1>3 DEF NetInv, NetTypeOK
<1>5. QED
  BY <1>1, <1>2, <1>3, <1>4 DEF NetInv, RequestsOwn, FrameOf

\* Controllers keep to sinks of their own, and each has one frame in transit.
LEMMA OneFramePerSink ==
    ASSUME CarefulNetwork, NetInv, NEW m \in net, NEW n \in net,
           m.listener_unique_id = n.listener_unique_id
    PROVE  m = n
<1>1. /\ m.controller \in Controllers /\ n.controller \in Controllers
      /\ m.listener_unique_id \in SinksOf[m.controller]
      /\ n.listener_unique_id \in SinksOf[n.controller]
  BY FrameFacts
<1>2. m.controller = n.controller
  BY <1>1, NetworkAssumption
<1>3. QED
  BY <1>2 DEF NetInv, OneFrame

\* The one frame of a sink tells all there is to tell of its frames.
LEMMA TransitOfFrame ==
    ASSUME CarefulNetwork, NetInv, NEW m \in net, NEW type, NEW u
    PROVE  /\ InTransit(type, m.listener_unique_id) <=> m.message_type = type
           /\ InTransitFor(type, u, m.listener_unique_id) <=>
                m.message_type = type /\ m.talker_unique_id = u
  BY OneFramePerSink DEF InTransit, InTransitFor

-----------------------------------------------------------------------------
(* A station that reads a frame and sends another one for it.              *)

Passes(m, r) ==
    /\ m \in net
    /\ net' = (net \ {m}) \cup {r}
    /\ SameCommand(r, m)
    /\ FrameOf(r, request[m.controller])

\* The frames of the other sinks stay as they are, and r is the only one of
\* its own.
LEMMA TransitOfPassed ==
    ASSUME CarefulNetwork, NetInv, NEW m, NEW r, Passes(m, r), NEW type, NEW u, NEW s
    PROVE  /\ s # m.listener_unique_id =>
                /\ InTransit(type, s)' <=> InTransit(type, s)
                /\ InTransitFor(type, u, s)' <=> InTransitFor(type, u, s)
           /\ s = m.listener_unique_id =>
                /\ InTransit(type, s)' <=> r.message_type = type
                /\ InTransitFor(type, u, s)' <=> r.message_type = type /\ r.talker_unique_id = u
<1>1. m \in net /\ net' = (net \ {m}) \cup {r}
      /\ r.listener_unique_id = m.listener_unique_id
  BY DEF Passes, SameCommand
<1>2. \A n \in net : n.listener_unique_id = m.listener_unique_id => n = m
  BY <1>1, OneFramePerSink
<1>3. QED
  BY <1>1, <1>2 DEF InTransit, InTransitFor

\* One frame still stands for each command.
LEMMA PassedFramesStand ==
    ASSUME CarefulNetwork, NetInv, NEW m, NEW r, Passes(m, r), request' = request
    PROVE  net' \subseteq L!Messages /\ FramesStand' /\ OneFrame'
<1>1. /\ m \in net /\ net' = (net \ {m}) \cup {r} /\ r \in L!Messages
      /\ r.controller = m.controller /\ FrameOf(r, request[m.controller])
  BY DEF Passes, SameCommand
<1>2. net' \subseteq L!Messages
  BY <1>1 DEF NetInv, NetTypeOK
<1>3. FramesStand'
  BY <1>1 DEF NetInv, FramesStand, FrameOf
<1>4. OneFrame'
  BY <1>1 DEF NetInv, OneFrame
<1>5. QED
  BY <1>2, <1>3, <1>4

-----------------------------------------------------------------------------
(* The controllers.                                                        *)

\* What the sinks are held for stays, and the talker's list and count with it.
LEMMA HeldStays ==
    ASSUME CarefulNetwork, NetInv, count' = count, pairs' = pairs, monitor' = monitor,
           \A u \in T!Sources : Held(u)' = Held(u)
    PROVE  HeldIsListed'
  BY DEF NetInv, HeldIsListed, PairOfSink

\* A slot that is found under the unique id of a sink is the sink's own.
LEMMA FoundIsOwn ==
    ASSUME NetInv, NEW s \in L!Sinks, L!Found(s)
    PROVE  infos[s].listener_unique_id = s
<1>1. PICK t \in L!Sinks : infos[t].listener_unique_id = s
  BY DEF L!Found, L!SlotsNamed
<1>2. \A v \in L!Sinks : infos[v].listener_unique_id \in {v, 0}
  BY DEF NetInv, SlotsOwn
<1>3. QED
  BY <1>1, <1>2

\* A new command: its controller had none, and no frame or table slot either.
LEMMA IssueKeeps ==
    ASSUME CarefulNetwork, NetInv, NEW c \in Controllers, NEW u \in TalkerUids,
           NEW s \in SinksOf[c], NEW type \in {"CONNECT_RX_COMMAND", "DISCONNECT_RX_COMMAND"},
           Issue(c, Command(c, type, u, s)),
           type = "CONNECT_RX_COMMAND" =>
                (\A stream \in connections : stream[2] # s) /\ L!Found(s),
           type = "DISCONNECT_RX_COMMAND" => <<u, s>> \in connections
    PROVE  NetInv'
<1> DEFINE q == Command(c, type, u, s)
<1>1. /\ request[c] = NoRequest /\ request' = [request EXCEPT ![c] = q]
      /\ net' = net \cup {q}
      /\ sequence[c] <= LastId[c] /\ sequence' = [sequence EXCEPT ![c] = @ + 1]
      /\ UNCHANGED <<infos, inflight, pairs, dangling, count, monitor, connections>>
  BY DEF Issue, listenerVars, talkerVars
<1>2. /\ request \in [Controllers -> L!Messages \cup {NoRequest}]
      /\ sequence \in [Controllers -> Nat] /\ net \subseteq L!Messages
      /\ FirstId[c] \in Nat /\ LastId[c] \in Nat /\ sequence[c] >= FirstId[c]
  BY NetworkAssumption DEF NetInv, NetTypeOK, RequestsOwn
<1>3. q \in L!Messages
  <2>1. sequence[c] \in SequenceIds
    BY <1>1, <1>2 DEF SequenceIds
  <2>2. s \in ListenerUids /\ 0 \in L!UInt16
    BY NetworkAssumption DEF L!UInt16
  <2>3. QED
    BY <2>1, <2>2 DEF Command, L!Messages, L!CommandTypes, L!Statuses
<1>4. \A m \in net : m.controller # c
  BY <1>1, FrameFacts
<1>5. q.controller = c /\ q.listener_unique_id = s /\ q.talker_unique_id = u
      /\ q.talker = Talker /\ q.listener = Listener /\ q.message_type = type
      /\ q.sequence_id = sequence[c] /\ q # NoRequest
  BY <1>3, NetworkAssumption DEF Command
<1>6. FrameOf(q, q)
  BY <1>5 DEF FrameOf, ConnectTypes, DisconnectTypes, TxTypes, TxCommandTypes, TxResponseTypes,
              RxResponseTypes
<1> HIDE DEF q
<1>7. NetTypeOK'
  BY <1>1, <1>2, <1>3 DEF NetInv, NetTypeOK
<1>8. RequestsOwn'
  <2>1. s \in L!Sinks /\ type = "CONNECT_RX_COMMAND" => infos[s].listener_unique_id = s
    BY FoundIsOwn
  <2>2. sequence[c] \in FirstId[c] .. LastId[c] /\ sequence[c] < sequence'[c]
    BY <1>1, <1>2
  <2>3. ASSUME NEW d \in Controllers, d # c
        PROVE  request'[d] = request[d] /\ sequence'[d] = sequence[d]
    BY <1>1, <1>2, <2>3
  <2>4. request'[c] = q
    BY <1>1, <1>2
  <2>5. QED
    BY <1>1, <1>5, <2>1, <2>2, <2>3, <2>4 DEF NetInv, RequestsOwn
<1>9. FramesStand'
  <2>1. request'[c] = q
    BY <1>1, <1>2
  <2>2. \A m \in net : request'[m.controller] = request[m.controller]
    BY <1>1, <1>2, <1>4, FrameFacts
  <2>3. QED
    BY <1>1, <1>5, <1>6, <2>1, <2>2 DEF NetInv, FramesStand, FrameOf
<1>10. OneFrame'
  BY <1>1, <1>4, <1>5 DEF NetInv, OneFrame
<1>11. ArmedStand'
  <2>1. \A i \in L!TableSlots : ~ArmedFor(i, c)
    BY <1>1 DEF NetInv, ArmedStand
  <2>2. \A i, d : ArmedFor(i, d)' <=> ArmedFor(i, d)
    BY <1>1 DEF ArmedFor, L!Armed
  <2>3. \A d \in Controllers : d # c => request'[d] = request[d]
    BY <1>1, <1>2
  <2>4. q.message_type \notin TxTypes
    BY <1>5 DEF TxTypes, TxCommandTypes, TxResponseTypes
  <2>5. QED
    BY <1>1, <1>5, <2>1, <2>2, <2>3, <2>4 DEF NetInv, ArmedStand, CommandOf
<1>12. \A t, v, w : t \in TxTypes \cup RxResponseTypes =>
            /\ InTransit(t, v)' <=> InTransit(t, v)
            /\ InTransitFor(t, w, v)' <=> InTransitFor(t, w, v)
  BY <1>1, <1>5 DEF InTransit, InTransitFor, TxTypes, TxCommandTypes, TxResponseTypes,
                    RxResponseTypes
<1>13. BoundIsKnown' /\ OneStream' /\ SlotsOwn'
  BY <1>1, <1>12 DEF NetInv, BoundIsKnown, OneStream, SlotsOwn, Bound, RxResponseTypes
<1>14. HeldIsListed'
  BY <1>1, <1>12, HeldStays DEF Held, Bound, TxTypes, TxResponseTypes
<1>15. QED
  BY <1>7, <1>8, <1>9, <1>10, <1>11, <1>13, <1>14 DEF NetInv

\* The answer a controller waits for: it has no other frame, and no slot.
LEMMA ControllerReceivesKeeps ==
    ASSUME CarefulNetwork, NetInv, NEW m \in net, ControllerReceives(m)
    PROVE  NetInv'
<1> DEFINE c == m.controller
           s == m.listener_unique_id
           u == m.talker_unique_id
<1>1. /\ m.message_type \in RxResponseTypes
      /\ net' = net \ {m}
      /\ UNCHANGED <<infos, inflight, pairs, dangling, count, monitor, sequence>>
  BY DEF ControllerReceives, RxResponseTypes, listenerVars, talkerVars
<1>2. /\ c \in Controllers /\ request[c] # NoRequest /\ FrameOf(m, request[c])
      /\ u \in T!Sources /\ s \in SinksOf[c]
  BY FrameFacts
<1>3. /\ connections \subseteq T!Sources \X L!Sinks
      /\ request \in [Controllers -> L!Messages \cup {NoRequest}]
  BY DEF NetInv, NetTypeOK
<1>4. request' = [request EXCEPT ![c] = NoRequest] /\ connections' = Believed(m)
  <2>1. IsAnswer(m, request[c])
    BY <1>1, <1>2 DEF FrameOf, IsAnswer, ConnectTypes, DisconnectTypes, RxResponseTypes
  <2>2. QED
    BY <1>2, <2>1 DEF ControllerReceives
<1>5. \/ /\ m.message_type = "CONNECT_RX_RESPONSE"
         /\ \A stream \in connections : stream[2] # s
         /\ connections' = IF s \in L!Sinks THEN connections \cup {<<u, s>>} ELSE connections
      \/ /\ m.message_type = "DISCONNECT_RX_RESPONSE"
         /\ <<u, s>> \in connections
         /\ s \in L!Sinks
         /\ connections' = connections \ {<<u, s>>}
  <2>1. s = request[c].listener_unique_id /\ u = request[c].talker_unique_id
    BY <1>2 DEF FrameOf
  <2>2. \/ /\ request[c].message_type = "CONNECT_RX_COMMAND"
           /\ \A stream \in connections : stream[2] # s
        \/ /\ request[c].message_type = "DISCONNECT_RX_COMMAND"
           /\ <<u, s>> \in connections
    BY <1>2, <2>1 DEF NetInv, RequestsOwn
  <2>3. m.status = "SUCCESS" <=> s \in L!Sinks
    BY <1>1, <1>2 DEF FrameOf
  <2>4. \/ /\ m.message_type = "CONNECT_RX_RESPONSE"
           /\ \A stream \in connections : stream[2] # s
        \/ /\ m.message_type = "DISCONNECT_RX_RESPONSE"
           /\ <<u, s>> \in connections
    BY <1>1, <1>2, <2>2 DEF FrameOf, ConnectTypes, DisconnectTypes, RxResponseTypes
  <2>5. QED
    BY <1>3, <1>4, <2>3, <2>4 DEF Believed
<1>6. \A d \in Controllers : d # c => request'[d] = request[d] /\ s \notin SinksOf[d]
  BY <1>2, <1>3, <1>4, NetworkAssumption
<1>7. \A v, t : t # s => (<<v, t>> \in connections' <=> <<v, t>> \in connections)
  BY <1>5
<1>8. connections' \subseteq T!Sources \X L!Sinks
  BY <1>2, <1>3, <1>5
<1>9. NetTypeOK'
  BY <1>1, <1>3, <1>4, <1>8 DEF NetInv, NetTypeOK
<1>10. RequestsOwn'
  <2> SUFFICES ASSUME NEW d \in Controllers, request'[d] # NoRequest
               PROVE  LET q == request'[d]
                          t == q.listener_unique_id
                      IN  /\ q.controller = d
                          /\ t \in SinksOf[d]
                          /\ q.sequence_id \in FirstId[d] .. LastId[d]
                          /\ q.sequence_id < sequence'[d]
                          /\ \/ /\ q.message_type = "CONNECT_RX_COMMAND"
                                /\ \A stream \in connections' : stream[2] # t
                                /\ t \in L!Sinks => infos'[t].listener_unique_id = t
                             \/ /\ q.message_type = "DISCONNECT_RX_COMMAND"
                                /\ <<q.talker_unique_id, t>> \in connections'
    BY DEF RequestsOwn
  <2>1. d # c /\ request'[d] = request[d] /\ s \notin SinksOf[d]
    BY <1>2, <1>3, <1>4, <1>6
  <2>2. \A stream \in connections' : stream[2] # s => stream \in connections
    BY <1>5
  <2>3. QED
    BY <1>1, <1>7, <2>1, <2>2 DEF NetInv, RequestsOwn
<1>11. FramesStand'
  <2>1. \A n \in net' : n \in net /\ n.controller \in Controllers /\ n.controller # c
    BY <1>1, FrameFacts DEF NetInv, OneFrame
  <2>2. QED
    BY <1>6, <2>1 DEF NetInv, FramesStand, FrameOf
<1>12. OneFrame'
  BY <1>1 DEF NetInv, OneFrame
<1>13. ArmedStand'
  <2>1. \A i \in L!TableSlots : ~ArmedFor(i, c)
    BY <1>1, <1>2 DEF NetInv, ArmedStand, RxResponseTypes, TxTypes, TxCommandTypes, TxResponseTypes
  <2>2. \A i, d : ArmedFor(i, d)' <=> ArmedFor(i, d)
    BY <1>1 DEF ArmedFor, L!Armed
  <2>3. QED
    BY <1>1, <1>6, <2>1, <2>2 DEF NetInv, ArmedStand, CommandOf
<1>14. \A t, v, w :
            /\ v # s => /\ InTransit(t, v)' <=> InTransit(t, v)
                        /\ InTransitFor(t, w, v)' <=> InTransitFor(t, w, v)
            /\ ~InTransit(t, s)' /\ ~InTransitFor(t, w, s)'
  BY <1>1, OneFramePerSink DEF InTransit, InTransitFor
<1>15. \A t \in L!Sinks, v \in T!Sources, w \in T!Sources :
            <<v, t>> \in connections' /\ <<w, t>> \in connections' => v = w
  BY <1>5 DEF NetInv, OneStream
<1>16. OneStream' /\ SlotsOwn'
  BY <1>1, <1>15 DEF NetInv, OneStream, SlotsOwn
<1>17. BoundIsKnown'
  <2> SUFFICES ASSUME NEW v \in T!Sources, NEW t \in L!Sinks
               PROVE  Bound(v, t) <=>
                        \/ <<v, t>> \in connections' /\ ~InTransit("DISCONNECT_RX_RESPONSE", t)'
                        \/ InTransitFor("CONNECT_RX_RESPONSE", v, t)'
    BY <1>1 DEF BoundIsKnown, Bound
  <2>1. Bound(v, t) <=>
            \/ <<v, t>> \in connections /\ ~InTransit("DISCONNECT_RX_RESPONSE", t)
            \/ InTransitFor("CONNECT_RX_RESPONSE", v, t)
    BY DEF NetInv, BoundIsKnown
  <2>2. CASE t # s
    BY <1>7, <1>14, <2>1, <2>2
  <2>3. CASE t = s
    <3>1. /\ InTransit("DISCONNECT_RX_RESPONSE", s) <=> m.message_type = "DISCONNECT_RX_RESPONSE"
          /\ InTransitFor("CONNECT_RX_RESPONSE", v, s) <=>
                m.message_type = "CONNECT_RX_RESPONSE" /\ u = v
      BY TransitOfFrame
    <3>2. <<v, s>> \in connections' <=> m.message_type = "CONNECT_RX_RESPONSE" /\ u = v
      BY <1>2, <1>5, <2>3 DEF NetInv, OneStream
    <3>3. <<v, s>> \in connections => m.message_type = "DISCONNECT_RX_RESPONSE"
      BY <1>5
    <3>4. QED
      BY <1>14, <2>1, <2>3, <3>1, <3>2, <3>3
  <2>4. QED
    BY <2>2, <2>3
<1>18. HeldIsListed'
  <2>1. \A v \in T!Sources, t \in L!Sinks : t \in Held(v)' <=> t \in Held(v)
    <3> SUFFICES ASSUME NEW v \in T!Sources, NEW t \in L!Sinks
                 PROVE  t \in Held(v)' <=> t \in Held(v)
      OBVIOUS
    <3>1. /\ InTransit("DISCONNECT_TX_RESPONSE", s) <=> m.message_type = "DISCONNECT_TX_RESPONSE"
          /\ InTransitFor("CONNECT_TX_RESPONSE", v, s) <=>
                m.message_type = "CONNECT_TX_RESPONSE" /\ u = v
      BY TransitOfFrame
    <3>2. t = s => ~InTransit("DISCONNECT_TX_RESPONSE", t) /\ ~InTransitFor("CONNECT_TX_RESPONSE", v, t)
      BY <1>1, <3>1 DEF RxResponseTypes
    <3>3. QED
      BY <1>1, <1>14, <3>2 DEF Held, Bound
  <2>2. \A v \in T!Sources : Held(v)' = Held(v)
    BY <2>1 DEF Held
  <2>3. QED
    BY <1>1, <2>2, HeldStays
<1>19. QED
  BY <1>9, <1>10, <1>11, <1>12, <1>13, <1>16, <1>17, <1>18 DEF NetInv

-----------------------------------------------------------------------------
(* The listener.                                                           *)

\* The search for a unique id ends at the sink's own slot.
LEMMA FindIsOwn ==
    ASSUME NetInv, NEW s \in L!Sinks, infos[s].listener_unique_id = s
    PROVE  L!Found(s) /\ L!Find(s) = s
<1>1. L!Sinks \subseteq Nat /\ s \in L!SlotsNamed(s) /\ L!SlotsNamed(s) \subseteq L!Sinks
  BY DEF L!Sinks, L!SlotsNamed
<1>2. L!Find(s) \in L!SlotsNamed(s) /\ L!Find(s) <= s
  BY <1>1, FirstInSet DEF L!Find
<1>3. infos[L!Find(s)].listener_unique_id = s /\ L!Find(s) \in L!Sinks
  BY <1>2 DEF L!SlotsNamed
<1>4. infos[L!Find(s)].listener_unique_id \in {L!Find(s), 0}
  BY <1>3 DEF NetInv, SlotsOwn
<1>5. L!Find(s) = s
  <2> DEFINE t == L!Find(s)
  <2>1. t \in Nat /\ s \in Nat /\ t <= s /\ (s = t \/ s = 0)
    BY <1>1, <1>2, <1>3, <1>4
  <2> HIDE DEF t
  <2>2. t = s
    BY <2>1
  <2>3. QED
    BY <2>2 DEF t
<1>6. QED
  BY <1>1, <1>5 DEF L!Found

\* The listener's table has room for a command of every controller.
LEMMA RoomForCommand ==
    ASSUME CarefulNetwork, NetInv, NEW c \in Controllers,
           \A i \in L!TableSlots : ~ArmedFor(i, c)
    PROVE  L!FreeSlots # {}
<1> SUFFICES ASSUME \A i \in L!TableSlots : L!Armed(i) PROVE FALSE
  BY DEF L!FreeSlots
<1> DEFINE f == [i \in L!TableSlots |-> inflight[i].command.controller]
           others == Controllers \ {c}
<1>1. \A i \in L!TableSlots : inflight[i].command.controller \in Controllers
  BY DEF NetInv, NetTypeOK, L!Armed, L!InflightCommands, L!TxCommands, L!Messages
<1>2. f \in [L!TableSlots -> others]
  BY <1>1 DEF ArmedFor
<1>3. IsFiniteSet(others) /\ Cardinality(others) = Cardinality(Controllers) - 1
      /\ IsFiniteSet(Controllers) /\ Cardinality(Controllers) <= MaxInflight
  BY FS_RemoveElement DEF CarefulNetwork
<1>4. IsFiniteSet(L!TableSlots) /\ Cardinality(L!TableSlots) = MaxInflight
  BY FS_Interval, StationsAssumption DEF L!TableSlots
<1>5. Cardinality(others) < Cardinality(L!TableSlots)
  BY <1>3, <1>4, FS_CardinalityType, StationsAssumption
<1> HIDE DEF f, others
<1>6. PICK i, j \in L!TableSlots : i # j /\ f[i] = f[j]
  BY <1>2, <1>3, <1>4, <1>5, FS_PigeonHole
<1>7. inflight[i].command.controller = inflight[j].command.controller
      /\ inflight[i].command.controller \in Controllers
  BY <1>1, <1>6 DEF f
<1>8. QED
  BY <1>6, <1>7 DEF NetInv, ArmedStand, ArmedFor

\* A table slot with a frame's sequence id is the one of the frame's command.
LEMMA MatchIsOwn ==
    ASSUME CarefulNetwork, NetInv, NEW m \in net, NEW i \in L!TableSlots,
           L!Armed(i), inflight[i].command.sequence_id = m.sequence_id
    PROVE  ArmedFor(i, m.controller) /\ inflight[i].original_sequence_id = m.sequence_id
<1> DEFINE d == inflight[i].command.controller
           c == m.controller
<1>1. d \in Controllers /\ ArmedFor(i, d)
  BY DEF NetInv, NetTypeOK, L!Armed, L!InflightCommands, L!TxCommands, L!Messages, ArmedFor
<1>2. /\ request[d] # NoRequest /\ request[d].sequence_id = m.sequence_id
      /\ inflight[i].original_sequence_id = request[d].sequence_id
  BY <1>1 DEF NetInv, ArmedStand, CommandOf
<1>3. request[d].sequence_id \in FirstId[d] .. LastId[d]
  BY <1>1, <1>2 DEF NetInv, RequestsOwn
<1>4. c \in Controllers /\ m.sequence_id \in FirstId[c] .. LastId[c]
  BY FrameFacts
<1>5. d = c
  BY <1>1, <1>2, <1>3, <1>4 DEF CarefulNetwork
<1>6. QED
  BY <1>1, <1>2, <1>5

\* A frame between the listener and the talker has its slot in the table.
LEMMA SlotOfFrame ==
    ASSUME CarefulNetwork, NetInv, NEW m \in net, m.message_type \in TxTypes
    PROVE  \E i \in L!TableSlots :
              /\ ArmedFor(i, m.controller)
              /\ inflight[i].command.sequence_id = m.sequence_id
              /\ inflight[i].command.message_type =
                    IF m.message_type \in ConnectTypes
                    THEN "CONNECT_TX_COMMAND" ELSE "DISCONNECT_TX_COMMAND"
<1>1. PICK i \in L!TableSlots : ArmedFor(i, m.controller)
  BY DEF NetInv, ArmedStand
<1>2. m.controller \in Controllers /\ FrameOf(m, request[m.controller])
  BY FrameFacts
<1>3. CommandOf(inflight[i].command, request[m.controller])
  BY <1>1, <1>2 DEF NetInv, ArmedStand
<1>4. QED
  BY <1>1, <1>2, <1>3 DEF CommandOf, FrameOf, ConnectTypes, DisconnectTypes

\* What the sink of a frame is bound to, as far as the frame has come.
LEMMA BoundOfFrame ==
    ASSUME CarefulNetwork, NetInv, NEW m \in net,
           m.listener_unique_id \in L!Sinks, m.message_type \notin RxResponseTypes
    PROVE  LET s == m.listener_unique_id IN
           /\ m.message_type \in ConnectTypes =>
                ~infos[s].connected /\ infos[s].listener_unique_id = s
           /\ m.message_type \in DisconnectTypes =>
                /\ infos[s].connected
                /\ infos[s].listener_unique_id = s
                /\ infos[s].talker = m.talker
                /\ infos[s].talker_unique_id = m.talker_unique_id
<1> DEFINE s == m.listener_unique_id
           u == m.talker_unique_id
           q == request[m.controller]
<1>1. m.controller \in Controllers /\ q # NoRequest /\ FrameOf(m, q) /\ u \in T!Sources
  BY FrameFacts
<1>2. /\ q.message_type = "CONNECT_RX_COMMAND" =>
            (\A stream \in connections : stream[2] # s) /\ infos[s].listener_unique_id = s
      /\ q.message_type # "CONNECT_RX_COMMAND" => <<u, s>> \in connections
  BY <1>1 DEF NetInv, RequestsOwn, FrameOf
<1>3. infos[s].talker_unique_id \in T!Sources
  BY DEF NetInv, NetTypeOK, L!StreamInfos, CarefulNetwork
<1>4. \A v \in T!Sources : Bound(v, s) <=> <<v, s>> \in connections
  <2> SUFFICES ASSUME NEW v \in T!Sources PROVE Bound(v, s) <=> <<v, s>> \in connections
    OBVIOUS
  <2>1. ~InTransit("DISCONNECT_RX_RESPONSE", s) /\ ~InTransitFor("CONNECT_RX_RESPONSE", v, s)
    <3>1. /\ InTransit("DISCONNECT_RX_RESPONSE", s) <=> m.message_type = "DISCONNECT_RX_RESPONSE"
          /\ InTransitFor("CONNECT_RX_RESPONSE", v, s) <=>
                m.message_type = "CONNECT_RX_RESPONSE" /\ u = v
      BY TransitOfFrame
    <3>2. QED
      BY <3>1 DEF RxResponseTypes
  <2>2. QED
    BY <2>1 DEF NetInv, BoundIsKnown
<1>5. ASSUME m.message_type \in ConnectTypes
      PROVE  ~infos[s].connected /\ infos[s].listener_unique_id = s
  <2>1. q.message_type = "CONNECT_RX_COMMAND"
    BY <1>1, <1>5 DEF FrameOf, ConnectTypes, DisconnectTypes
  <2>2. \A v : <<v, s>> \notin connections
    BY <1>2, <2>1
  <2>3. QED
    BY <1>2, <1>3, <1>4, <2>1, <2>2 DEF Bound
<1>6. ASSUME m.message_type \in DisconnectTypes
      PROVE  /\ infos[s].connected
             /\ infos[s].listener_unique_id = s
             /\ infos[s].talker = m.talker
             /\ infos[s].talker_unique_id = u
  <2>1. q.message_type # "CONNECT_RX_COMMAND"
    BY <1>1, <1>6 DEF FrameOf, ConnectTypes, DisconnectTypes
  <2>2. Bound(u, s)
    BY <1>1, <1>2, <1>4, <2>1
  <2>3. m.talker = Talker
    BY <1>1 DEF FrameOf
  <2>4. QED
    BY <2>2, <2>3 DEF Bound, NetInv, SlotsOwn
<1>7. QED
  BY <1>5, <1>6

\* What the listener makes of a controller's command.
LEMMA ListenerTakesCommand ==
    ASSUME CarefulNetwork, NetInv, NEW m \in net, L!Receive(m),
           m.message_type \in {"CONNECT_RX_COMMAND", "DISCONNECT_RX_COMMAND"}
    PROVE  /\ infos' = infos
           /\ \E r : /\ listenerTx' = {r}
                     /\ SameCommand(r, m)
                     /\ \/ /\ m.listener_unique_id \notin L!Sinks
                           /\ m.message_type = "CONNECT_RX_COMMAND"
                           /\ r.message_type = "CONNECT_RX_RESPONSE"
                           /\ r.status # "SUCCESS"
                           /\ inflight' = inflight
                        \/ /\ m.listener_unique_id \in L!Sinks
                           /\ r.message_type = IF m.message_type = "CONNECT_RX_COMMAND"
                                               THEN "CONNECT_TX_COMMAND" ELSE "DISCONNECT_TX_COMMAND"
                           /\ \E i \in L!TableSlots : \E command :
                                /\ ~L!Armed(i)
                                /\ SameCommand(command, m)
                                /\ command.message_type = r.message_type
                                /\ inflight' = [inflight EXCEPT ![i] =
                                      [command |-> command, retried |-> FALSE,
                                       original_sequence_id |-> m.sequence_id]]
<1> DEFINE s == m.listener_unique_id
           c == m.controller
           type == IF m.message_type = "CONNECT_RX_COMMAND"
                   THEN "CONNECT_TX_COMMAND" ELSE "DISCONNECT_TX_COMMAND"
<1>1. /\ m \in L!Messages /\ c \in Controllers /\ FrameOf(m, request[c])
      /\ m.talker = Talker
  BY FrameFacts DEF FrameOf
<1>2. L!FreeSlots # {}
  <2>1. \A i \in L!TableSlots : ~ArmedFor(i, c)
    BY <1>1 DEF NetInv, ArmedStand, TxTypes, TxCommandTypes, TxResponseTypes
  <2>2. QED
    BY <1>1, <2>1, RoomForCommand
<1>3. s \in L!Sinks =>
        (IF m.message_type = "CONNECT_RX_COMMAND" THEN ~L!IsConnected(m) ELSE L!IsConnectedTo(m))
  <2> SUFFICES ASSUME s \in L!Sinks
               PROVE  IF m.message_type = "CONNECT_RX_COMMAND"
                      THEN ~L!IsConnected(m) ELSE L!IsConnectedTo(m)
    OBVIOUS
  <2>1. /\ m.message_type = "CONNECT_RX_COMMAND" =>
              ~infos[s].connected /\ infos[s].listener_unique_id = s
        /\ m.message_type # "CONNECT_RX_COMMAND" =>
              /\ infos[s].connected /\ infos[s].listener_unique_id = s
              /\ infos[s].talker = m.talker /\ infos[s].talker_unique_id = m.talker_unique_id
    BY BoundOfFrame DEF ConnectTypes, DisconnectTypes, RxResponseTypes
  <2>2. L!Found(s) /\ L!Find(s) = s
    BY <2>1, FindIsOwn
  <2>3. QED
    BY <2>1, <2>2 DEF L!IsConnected, L!IsConnectedTo, L!SameStream
<1>4. s \notin L!Sinks => m.message_type = "CONNECT_RX_COMMAND"
  <2>1. m.message_type = "DISCONNECT_RX_COMMAND" => <<m.talker_unique_id, s>> \in connections
    BY <1>1, FrameFacts DEF FrameOf, NetInv, RequestsOwn, ConnectTypes
  <2>2. QED
    BY <2>1 DEF NetInv, NetTypeOK
<1>5. \/ /\ s \notin L!Sinks
         /\ L!TxResponse(m, "CONNECT_RX_RESPONSE", "LISTENER_UNKNOWN_ID")
         /\ UNCHANGED inflight
      \/ /\ s \in L!Sinks
         /\ \E sent \in BOOLEAN : L!TxCommand(m, type, sent)
  BY <1>3, <1>4 DEF L!Receive, L!ConnectRxCommand, L!DisconnectRxCommand, L!ConnectTxResponse,
        L!DisconnectTxResponse, L!GetRxState, L!ValidListenerUnique
<1>6. infos' = infos
  BY DEF L!Receive, L!ConnectRxCommand, L!DisconnectRxCommand, L!ConnectTxResponse,
        L!DisconnectTxResponse, L!GetRxState
<1>7. CASE s \notin L!Sinks
  <2> DEFINE r == L!Frame(m, "CONNECT_RX_RESPONSE", "LISTENER_UNKNOWN_ID")
  <2>1. listenerTx' = {r} /\ inflight' = inflight
    BY <1>5, <1>7 DEF L!TxResponse
  <2>2. SameCommand(r, m) /\ r.message_type = "CONNECT_RX_RESPONSE" /\ r.status = "LISTENER_UNKNOWN_ID"
    BY <1>1, FrameMade DEF L!ResponseTypes, L!Statuses
  <2> HIDE DEF r
  <2>3. QED
    BY <1>4, <1>6, <1>7, <2>1, <2>2
<1>8. CASE s \in L!Sinks
  <2>1. PICK sent \in BOOLEAN : L!TxCommand(m, type, sent)
    BY <1>5, <1>8
  <2> DEFINE i == L!First(L!FreeSlots)
             command == L!Frame(m, type, "SUCCESS")
             r == L!Frame(m, type, IF sent THEN "SUCCESS" ELSE "COULD_NOT_SEND_MESSAGE")
  <2>2. /\ listenerTx' = {r}
        /\ inflight' = [inflight EXCEPT ![i] =
              [command |-> command, retried |-> FALSE, original_sequence_id |-> m.sequence_id]]
    BY <1>2, <2>1 DEF L!TxCommand
  <2>3. i \in L!TableSlots /\ ~L!Armed(i)
    <3>1. L!FreeSlots \subseteq Nat
      BY DEF L!FreeSlots, L!TableSlots
    <3>2. i \in L!FreeSlots
      BY <1>2, <3>1, FirstInSet
    <3>3. QED
      BY <3>2 DEF L!FreeSlots
  <2>4. SameCommand(command, m) /\ command.message_type = type
    BY <1>1, FrameMade DEF L!CommandTypes, L!Statuses
  <2>5. SameCommand(r, m) /\ r.message_type = type
    BY <1>1, FrameMade DEF L!CommandTypes, L!Statuses
  <2> HIDE DEF i, command, r
  <2>6. QED
    BY <1>6, <1>8, <2>2, <2>3, <2>4, <2>5
<1>9. QED
  BY <1>7, <1>8

\* What it makes of the talker's answers.
ListenerReleases(m, i) ==
    /\ i \in L!TableSlots
    /\ ArmedFor(i, m.controller)
    /\ inflight' = [inflight EXCEPT ![i] = NoCommand]

LEMMA ListenerConnects ==
    ASSUME CarefulNetwork, NetInv, NEW m \in net, L!Receive(m),
           m.message_type = "CONNECT_TX_RESPONSE"
    PROVE  LET s == m.listener_unique_id IN
           /\ s \in L!Sinks
           /\ infos' = [infos EXCEPT ![s] =
                           [@ EXCEPT !.connected = TRUE, !.talker = m.talker,
                                     !.talker_unique_id = m.talker_unique_id]]
           /\ \E i : ListenerReleases(m, i)
           /\ \E r : /\ listenerTx' = {r}
                     /\ SameCommand(r, m)
                     /\ r.message_type = "CONNECT_RX_RESPONSE"
                     /\ r.status = "SUCCESS"
<1> DEFINE s == m.listener_unique_id
           i == L!First(L!MatchingConnect(m))
           r == [L!Frame(m, "CONNECT_RX_RESPONSE", L!AddStatus(m)) EXCEPT
                    !.sequence_id = inflight[i].original_sequence_id]
<1>1. m \in L!Messages /\ s \in L!Sinks /\ m.status = "SUCCESS"
  BY FrameFacts DEF FrameOf, TxTypes, TxResponseTypes
<1>2. m.message_type \in TxTypes /\ m.message_type \in ConnectTypes
      /\ m.message_type \notin RxResponseTypes
  BY DEF TxTypes, TxResponseTypes, ConnectTypes, RxResponseTypes
<1>3. L!MatchingConnect(m) # {}
  <2>1. PICK j \in L!TableSlots : /\ ArmedFor(j, m.controller)
                                  /\ inflight[j].command.sequence_id = m.sequence_id
                                  /\ inflight[j].command.message_type = "CONNECT_TX_COMMAND"
    BY <1>2, SlotOfFrame
  <2>2. QED
    BY <2>1 DEF L!MatchingConnect, ArmedFor
<1>4. i \in L!TableSlots /\ L!Armed(i) /\ inflight[i].command.sequence_id = m.sequence_id
  <2>1. L!MatchingConnect(m) \subseteq Nat
    BY DEF L!MatchingConnect, L!TableSlots
  <2>2. i \in L!MatchingConnect(m)
    BY <1>3, <2>1, FirstInSet
  <2>3. QED
    BY <2>2 DEF L!MatchingConnect
<1>5. ArmedFor(i, m.controller) /\ inflight[i].original_sequence_id = m.sequence_id
  BY <1>4, MatchIsOwn
<1>6. ~infos[s].connected /\ L!Found(s) /\ L!Find(s) = s
  BY <1>1, <1>2, BoundOfFrame, FindIsOwn
<1>7. L!AddStatus(m) = "SUCCESS"
  BY <1>6 DEF L!AddStatus
<1>8. L!ConnectMatched(m, i)
  BY <1>1, <1>3 DEF L!Receive, L!ConnectRxCommand, L!DisconnectRxCommand, L!ConnectTxResponse,
        L!DisconnectTxResponse, L!GetRxState, L!ValidListenerUnique
<1>9. /\ infos' = L!Added(m)
      /\ inflight' = [inflight EXCEPT ![i] = NoCommand]
      /\ listenerTx' = {r}
  BY <1>8 DEF L!ConnectMatched, L!Connect, L!RemoveInflight
<1>10. SameCommand(r, m) /\ r.message_type = "CONNECT_RX_RESPONSE" /\ r.status = "SUCCESS"
  BY <1>1, <1>5, <1>7, FrameRenumbered DEF L!ResponseTypes, L!Statuses
<1>11. infos' = [infos EXCEPT ![s] =
                    [@ EXCEPT !.connected = TRUE, !.talker = m.talker,
                              !.talker_unique_id = m.talker_unique_id]]
  BY <1>6, <1>7, <1>9 DEF L!Added
<1> HIDE DEF i, r
<1>12. ListenerReleases(m, i)
  BY <1>4, <1>5, <1>9 DEF ListenerReleases
<1>13. QED
  BY <1>1, <1>9, <1>10, <1>11, <1>12

LEMMA ListenerDisconnects ==
    ASSUME CarefulNetwork, NetInv, NEW m \in net, L!Receive(m),
           m.message_type = "DISCONNECT_TX_RESPONSE"
    PROVE  LET s == m.listener_unique_id IN
           /\ s \in L!Sinks
           /\ infos' = [infos EXCEPT ![s] = L!Unconnected(0)]
           /\ \E i : ListenerReleases(m, i)
           /\ \E r : /\ listenerTx' = {r}
                     /\ SameCommand(r, m)
                     /\ r.message_type = "DISCONNECT_RX_RESPONSE"
                     /\ r.status = "SUCCESS"
<1> DEFINE s == m.listener_unique_id
           i == L!First(L!MatchingDisconnect(m))
           r == [L!Frame(m, "DISCONNECT_RX_RESPONSE", m.status) EXCEPT
                    !.sequence_id = inflight[i].original_sequence_id]
<1>1. m \in L!Messages /\ s \in L!Sinks /\ m.status = "SUCCESS"
  BY FrameFacts DEF FrameOf, TxTypes, TxResponseTypes
<1>2. m.message_type \in TxTypes /\ m.message_type \in DisconnectTypes
      /\ m.message_type \notin RxResponseTypes /\ m.message_type \notin ConnectTypes
  BY DEF TxTypes, TxResponseTypes, ConnectTypes, DisconnectTypes, RxResponseTypes
<1>3. L!MatchingDisconnect(m) # {}
  <2>1. PICK j \in L!TableSlots : /\ ArmedFor(j, m.controller)
                                  /\ inflight[j].command.sequence_id = m.sequence_id
    BY <1>2, SlotOfFrame
  <2>2. QED
    BY <2>1 DEF L!MatchingDisconnect, L!MatchingAnyType, ArmedFor
<1>4. i \in L!TableSlots /\ L!Armed(i) /\ inflight[i].command.sequence_id = m.sequence_id
  <2>1. L!MatchingDisconnect(m) \subseteq Nat
    BY DEF L!MatchingDisconnect, L!MatchingAnyType, L!TableSlots
  <2>2. i \in L!MatchingDisconnect(m)
    BY <1>3, <2>1, FirstInSet
  <2>3. QED
    BY <2>2 DEF L!MatchingDisconnect, L!MatchingAnyType
<1>5. ArmedFor(i, m.controller) /\ inflight[i].original_sequence_id = m.sequence_id
  BY <1>4, MatchIsOwn
<1>6. L!Removable(m) = {s}
  <2>1. /\ infos[s].connected /\ infos[s].listener_unique_id = s
        /\ infos[s].talker = m.talker /\ infos[s].talker_unique_id = m.talker_unique_id
    BY <1>1, <1>2, BoundOfFrame
  <2>2. \A t \in L!Sinks : infos[t].connected => infos[t].listener_unique_id = t
    BY DEF NetInv, SlotsOwn
  <2>3. QED
    BY <1>1, <2>1, <2>2 DEF L!Removable, L!SlotsNamed, L!SameStream
<1>7. L!First(L!Removable(m)) = s
  <2>1. L!Removable(m) \subseteq Nat /\ L!Removable(m) # {}
    BY <1>1, <1>6 DEF L!Sinks
  <2>2. L!First(L!Removable(m)) \in L!Removable(m)
    BY <2>1, FirstInSet
  <2>3. QED
    BY <1>6, <2>2
<1>8. L!DisconnectMatched(m, i)
  BY <1>1, <1>3 DEF L!Receive, L!ConnectRxCommand, L!DisconnectRxCommand, L!ConnectTxResponse,
        L!DisconnectTxResponse, L!GetRxState, L!ValidListenerUnique
<1>9. /\ infos' = [infos EXCEPT ![s] = L!Unconnected(0)]
      /\ inflight' = [inflight EXCEPT ![i] = NoCommand]
      /\ listenerTx' = {r}
  BY <1>6, <1>7, <1>8 DEF L!DisconnectMatched, L!Removed, L!RemoveInflight
<1>10. SameCommand(r, m) /\ r.message_type = "DISCONNECT_RX_RESPONSE" /\ r.status = "SUCCESS"
  BY <1>1, <1>5, FrameRenumbered DEF L!ResponseTypes, L!Statuses
<1> HIDE DEF i, r
<1>11. ListenerReleases(m, i)
  BY <1>4, <1>5, <1>9 DEF ListenerReleases
<1>12. QED
  BY <1>1, <1>9, <1>10, <1>11

\* A frame of the same exchange, as far as the sink allows, stands for its command.
LEMMA PassesOn ==
    ASSUME CarefulNetwork, NetInv, NEW m \in net, NEW r,
           net' = (net \ {m}) \cup {r}, SameCommand(r, m),
           \/ m.message_type \in ConnectTypes /\ r.message_type \in ConnectTypes
           \/ m.message_type \in DisconnectTypes /\ r.message_type \in DisconnectTypes,
           r.message_type \in TxTypes => m.listener_unique_id \in L!Sinks,
           r.message_type \in TxResponseTypes => r.status = "SUCCESS",
           r.message_type \in RxResponseTypes =>
                (r.status = "SUCCESS" <=> m.listener_unique_id \in L!Sinks)
    PROVE  Passes(m, r)
<1>1. FrameOf(m, request[m.controller])
  BY FrameFacts
<1>2. FrameOf(r, request[m.controller])
  BY <1>1 DEF FrameOf, SameCommand, ConnectTypes, DisconnectTypes
<1>3. QED
  BY <1>2 DEF Passes

\* The table and the frames agree after m has become r if the slots of the other
\* controllers are left alone.
LEMMA PassedArmedStand ==
    ASSUME CarefulNetwork, NetInv, NEW m, NEW r, Passes(m, r), request' = request,
           \A i \in L!TableSlots, d \in Controllers : d # m.controller =>
                /\ ArmedFor(i, d)' <=> ArmedFor(i, d)
                /\ ArmedFor(i, d) => inflight'[i] = inflight[i],
           \A i \in L!TableSlots : ArmedFor(i, m.controller)' =>
                /\ CommandOf(inflight'[i].command, request[m.controller])
                /\ inflight'[i].original_sequence_id = request[m.controller].sequence_id
                /\ r.message_type \in TxTypes,
           r.message_type \in TxTypes => \E i \in L!TableSlots : ArmedFor(i, m.controller)',
           \A i, j \in L!TableSlots :
                ArmedFor(i, m.controller)' /\ ArmedFor(j, m.controller)' => i = j
    PROVE  ArmedStand'
<1> DEFINE c == m.controller
<1>1. /\ m \in net /\ net' = (net \ {m}) \cup {r} /\ r.controller = c /\ c \in Controllers
      /\ \A n \in net : n.controller \in Controllers /\ (n.controller = c => n = m)
  BY FrameFacts DEF Passes, SameCommand, NetInv, OneFrame
<1>2. ASSUME NEW i \in L!TableSlots, NEW d \in Controllers, ArmedFor(i, d)'
      PROVE  /\ request'[d] # NoRequest
             /\ CommandOf(inflight[i].command, request[d])'
             /\ inflight'[i].original_sequence_id = request'[d].sequence_id
             /\ \A n \in net' : n.controller = d => n.message_type \in TxTypes
  <2>1. CASE d = c
    <3>1. request[c] # NoRequest
      BY <1>1, FrameFacts
    <3>2. QED
      BY <1>1, <1>2, <2>1, <3>1 DEF CommandOf
  <2>2. CASE d # c
    <3>1. ArmedFor(i, d) /\ inflight'[i] = inflight[i]
      BY <1>2, <2>2
    <3>2. QED
      BY <1>1, <2>2, <3>1 DEF NetInv, ArmedStand, CommandOf
  <2>3. QED
    BY <2>1, <2>2
<1>3. ASSUME NEW n \in net', n.message_type \in TxTypes
      PROVE  \E i \in L!TableSlots : ArmedFor(i, n.controller)'
  <2>1. CASE n = r
    BY <1>1, <1>3, <2>1
  <2>2. CASE n # r
    <3>1. n \in net /\ n.controller \in Controllers /\ n.controller # c
      BY <1>1, <2>2
    <3>2. PICK i \in L!TableSlots : ArmedFor(i, n.controller)
      BY <1>3, <3>1 DEF NetInv, ArmedStand
    <3>3. QED
      BY <3>1, <3>2
  <2>3. QED
    BY <2>1, <2>2
<1>4. ASSUME NEW i \in L!TableSlots, NEW j \in L!TableSlots, NEW d \in Controllers,
             ArmedFor(i, d)', ArmedFor(j, d)'
      PROVE  i = j
  BY <1>4 DEF NetInv, ArmedStand
<1>5. QED
  BY <1>2, <1>3, <1>4 DEF ArmedStand

\* The listener and the controllers agree after m has become r if they do on its sink.
LEMMA PassedBoundIsKnown ==
    ASSUME CarefulNetwork, NetInv, NEW m, NEW r, Passes(m, r), connections' = connections,
           \A t \in L!Sinks : t # m.listener_unique_id => infos'[t] = infos[t],
           m.listener_unique_id \in L!Sinks => \A v \in T!Sources :
                Bound(v, m.listener_unique_id)' <=>
                    \/ /\ <<v, m.listener_unique_id>> \in connections
                       /\ r.message_type # "DISCONNECT_RX_RESPONSE"
                    \/ r.message_type = "CONNECT_RX_RESPONSE" /\ r.talker_unique_id = v
    PROVE  BoundIsKnown'
<1> DEFINE s == m.listener_unique_id
<1> SUFFICES ASSUME NEW v \in T!Sources, NEW t \in L!Sinks
             PROVE  Bound(v, t)' <=>
                      \/ <<v, t>> \in connections /\ ~InTransit("DISCONNECT_RX_RESPONSE", t)'
                      \/ InTransitFor("CONNECT_RX_RESPONSE", v, t)'
  BY DEF BoundIsKnown
<1>1. CASE t # s
  <2>1. /\ InTransit("DISCONNECT_RX_RESPONSE", t)' <=> InTransit("DISCONNECT_RX_RESPONSE", t)
        /\ InTransitFor("CONNECT_RX_RESPONSE", v, t)' <=> InTransitFor("CONNECT_RX_RESPONSE", v, t)
    BY <1>1, TransitOfPassed
  <2>2. Bound(v, t)' <=> Bound(v, t)
    BY <1>1 DEF Bound
  <2>3. QED
    BY <2>1, <2>2 DEF NetInv, BoundIsKnown
<1>2. CASE t = s
  <2>1. /\ InTransit("DISCONNECT_RX_RESPONSE", t)' <=> r.message_type = "DISCONNECT_RX_RESPONSE"
        /\ InTransitFor("CONNECT_RX_RESPONSE", v, t)' <=>
              r.message_type = "CONNECT_RX_RESPONSE" /\ r.talker_unique_id = v
    BY <1>2, TransitOfPassed
  <2>2. QED
    BY <1>2, <2>1
<1>3. QED
  BY <1>1, <1>2

\* The sink of m is held after m has become r for the source that it was held for.
HeldFor(v, type, u, bound) ==
    \/ bound /\ type # "DISCONNECT_TX_RESPONSE"
    \/ type = "CONNECT_TX_RESPONSE" /\ u = v

LEMMA PassedHeld ==
    ASSUME CarefulNetwork, NetInv, NEW m, NEW r, Passes(m, r), NEW v \in T!Sources,
           \A t \in L!Sinks : t # m.listener_unique_id => infos'[t] = infos[t]
    PROVE  /\ \A t \in L!Sinks : t # m.listener_unique_id => (t \in Held(v)' <=> t \in Held(v))
           /\ m.listener_unique_id \in L!Sinks =>
                /\ m.listener_unique_id \in Held(v) <=>
                    HeldFor(v, m.message_type, m.talker_unique_id, Bound(v, m.listener_unique_id))
                /\ m.listener_unique_id \in Held(v)' <=>
                    HeldFor(v, r.message_type, r.talker_unique_id, Bound(v, m.listener_unique_id)')
<1> DEFINE s == m.listener_unique_id
<1>1. m \in net
  BY DEF Passes
<1>2. ASSUME NEW t \in L!Sinks, t # s PROVE t \in Held(v)' <=> t \in Held(v)
  <2>1. /\ InTransit("DISCONNECT_TX_RESPONSE", t)' <=> InTransit("DISCONNECT_TX_RESPONSE", t)
        /\ InTransitFor("CONNECT_TX_RESPONSE", v, t)' <=> InTransitFor("CONNECT_TX_RESPONSE", v, t)
    BY <1>2, TransitOfPassed
  <2>2. QED
    BY <1>2, <2>1 DEF Held, Bound
<1>3. ASSUME s \in L!Sinks
      PROVE  s \in Held(v) <=> HeldFor(v, m.message_type, m.talker_unique_id, Bound(v, s))
  <2>1. /\ InTransit("DISCONNECT_TX_RESPONSE", s) <=> m.message_type = "DISCONNECT_TX_RESPONSE"
        /\ InTransitFor("CONNECT_TX_RESPONSE", v, s) <=>
              m.message_type = "CONNECT_TX_RESPONSE" /\ m.talker_unique_id = v
    BY <1>1, TransitOfFrame
  <2>2. QED
    BY <1>3, <2>1 DEF Held, HeldFor
<1>4. ASSUME s \in L!Sinks
      PROVE  s \in Held(v)' <=> HeldFor(v, r.message_type, r.talker_unique_id, Bound(v, s)')
  <2>1. /\ InTransit("DISCONNECT_TX_RESPONSE", s)' <=> r.message_type = "DISCONNECT_TX_RESPONSE"
        /\ InTransitFor("CONNECT_TX_RESPONSE", v, s)' <=>
              r.message_type = "CONNECT_TX_RESPONSE" /\ r.talker_unique_id = v
    BY TransitOfPassed
  <2>2. QED
    BY <1>4, <2>1 DEF Held, HeldFor
<1>5. QED
  BY <1>2, <1>3, <1>4

\* What the listener's steps leave alone keeps the parts of the invariant that
\* speak of the requests, the frames and the types.
LEMMA ListenerStepKeeps ==
    ASSUME CarefulNetwork, NetInv, NEW m, NEW r, Passes(m, r),
           UNCHANGED <<talkerVars, controllerVars>>,
           infos' \in [L!Sinks -> L!StreamInfos],
           inflight' \in [L!TableSlots -> L!InflightCommands \cup {NoCommand}],
           \A t \in L!Sinks : t # m.listener_unique_id => infos'[t] = infos[t],
           m.listener_unique_id \in L!Sinks /\ m.message_type \in ConnectTypes =>
                infos'[m.listener_unique_id].listener_unique_id = m.listener_unique_id
    PROVE  NetTypeOK' /\ RequestsOwn' /\ FramesStand' /\ OneFrame' /\ OneStream'
<1> DEFINE s == m.listener_unique_id
           c == m.controller
<1>1. /\ request' = request /\ sequence' = sequence /\ connections' = connections
      /\ pairs' = pairs /\ dangling' = dangling /\ count' = count /\ monitor' = monitor
  BY DEF talkerVars, controllerVars
<1>2. net' \subseteq L!Messages /\ FramesStand' /\ OneFrame'
  BY <1>1, PassedFramesStand
<1>3. NetTypeOK'
  BY <1>1, <1>2 DEF NetInv, NetTypeOK
<1>4. RequestsOwn'
  <2>1. /\ m \in net /\ c \in Controllers /\ FrameOf(m, request[c]) /\ s \in SinksOf[c]
    BY FrameFacts DEF Passes
  <2> SUFFICES ASSUME NEW d \in Controllers, request[d] # NoRequest,
                      request[d].message_type = "CONNECT_RX_COMMAND",
                      request[d].listener_unique_id \in L!Sinks
               PROVE  infos'[request[d].listener_unique_id].listener_unique_id
                        = request[d].listener_unique_id
    BY <1>1 DEF NetInv, RequestsOwn
  <2>2. request[d].listener_unique_id \in SinksOf[d]
        /\ infos[request[d].listener_unique_id].listener_unique_id = request[d].listener_unique_id
    BY DEF NetInv, RequestsOwn
  <2>3. CASE d = c
    <3>1. s = request[d].listener_unique_id /\ m.message_type \in ConnectTypes
      BY <2>1, <2>3 DEF FrameOf
    <3>2. QED
      BY <3>1
  <2>4. CASE d # c
    <3>1. request[d].listener_unique_id # s
      BY <2>1, <2>2, <2>4, NetworkAssumption
    <3>2. QED
      BY <2>2, <3>1
  <2>5. QED
    BY <2>3, <2>4
<1>5. OneStream'
  BY <1>1 DEF NetInv, OneStream
<1>6. QED
  BY <1>2, <1>3, <1>4, <1>5

\* A controller's command is read,
LEMMA ListenerCommandKeeps ==
    ASSUME CarefulNetwork, NetInv, NEW m \in net, ListenerReceives(m),
           m.message_type \in {"CONNECT_RX_COMMAND", "DISCONNECT_RX_COMMAND"}
    PROVE  NetInv'
<1> DEFINE s == m.listener_unique_id
           c == m.controller
<1>1. /\ L!Receive(m) /\ net' = (net \ {m}) \cup listenerTx'
      /\ UNCHANGED <<talkerVars, controllerVars>>
  BY DEF ListenerReceives
<1>2. /\ request' = request /\ connections' = connections
      /\ pairs' = pairs /\ count' = count /\ monitor' = monitor
  BY <1>1 DEF talkerVars, controllerVars
<1>3. PICK r : /\ listenerTx' = {r}
               /\ SameCommand(r, m)
               /\ \/ /\ s \notin L!Sinks
                     /\ m.message_type = "CONNECT_RX_COMMAND"
                     /\ r.message_type = "CONNECT_RX_RESPONSE"
                     /\ r.status # "SUCCESS"
                     /\ inflight' = inflight
                  \/ /\ s \in L!Sinks
                     /\ r.message_type = IF m.message_type = "CONNECT_RX_COMMAND"
                                         THEN "CONNECT_TX_COMMAND" ELSE "DISCONNECT_TX_COMMAND"
                     /\ \E i \in L!TableSlots : \E command :
                          /\ ~L!Armed(i)
                          /\ SameCommand(command, m)
                          /\ command.message_type = r.message_type
                          /\ inflight' = [inflight EXCEPT ![i] =
                                [command |-> command, retried |-> FALSE,
                                 original_sequence_id |-> m.sequence_id]]
  BY <1>1, ListenerTakesCommand
<1>4. infos' = infos
  BY <1>1, ListenerTakesCommand
<1>5. Passes(m, r)
  BY <1>1, <1>3, PassesOn DEF ConnectTypes, DisconnectTypes, TxTypes, TxCommandTypes,
        TxResponseTypes, RxResponseTypes
<1>6. /\ c \in Controllers /\ m \in L!Messages /\ FrameOf(m, request[c]) /\ request[c] # NoRequest
      /\ \A i \in L!TableSlots : ~ArmedFor(i, c)
  <2>1. c \in Controllers /\ m \in L!Messages /\ FrameOf(m, request[c]) /\ request[c] # NoRequest
    BY FrameFacts
  <2>2. QED
    BY <2>1 DEF NetInv, ArmedStand, TxTypes, TxCommandTypes, TxResponseTypes
<1>7. inflight' \in [L!TableSlots -> L!InflightCommands \cup {NoCommand}] /\ ArmedStand'
  <2>1. inflight \in [L!TableSlots -> L!InflightCommands \cup {NoCommand}]
    BY DEF NetInv, NetTypeOK
  <2>2. CASE s \notin L!Sinks
    <3>1. inflight' = inflight /\ r.message_type \notin TxTypes
      BY <1>3, <2>2 DEF TxTypes, TxCommandTypes, TxResponseTypes
    <3>2. \A i, d : ArmedFor(i, d)' <=> ArmedFor(i, d)
      BY <3>1 DEF ArmedFor, L!Armed
    <3>3. ArmedStand'
      BY <1>2, <1>5, <1>6, <3>1, <3>2, PassedArmedStand
    <3>4. QED
      BY <2>1, <3>1, <3>3
  <2>3. CASE s \in L!Sinks
    <3>0. PICK i \in L!TableSlots : \E command :
              /\ ~L!Armed(i)
              /\ SameCommand(command, m)
              /\ command.message_type = r.message_type
              /\ inflight' = [inflight EXCEPT ![i] =
                    [command |-> command, retried |-> FALSE,
                     original_sequence_id |-> m.sequence_id]]
      BY <1>3, <2>3
    <3>1. PICK command :
              /\ ~L!Armed(i)
              /\ SameCommand(command, m)
              /\ command.message_type = r.message_type
              /\ inflight' = [inflight EXCEPT ![i] =
                    [command |-> command, retried |-> FALSE,
                     original_sequence_id |-> m.sequence_id]]
      BY <3>0
    <3> DEFINE entry == [command |-> command, retried |-> FALSE,
                         original_sequence_id |-> m.sequence_id]
    <3>2. r.message_type = IF m.message_type = "CONNECT_RX_COMMAND"
                           THEN "CONNECT_TX_COMMAND" ELSE "DISCONNECT_TX_COMMAND"
      BY <1>3, <2>3
    <3>3. r.message_type \in TxTypes /\ command \in L!TxCommands
      BY <3>1, <3>2 DEF TxTypes, TxCommandTypes, SameCommand, L!TxCommands
    <3>4. m.sequence_id \in SequenceIds
      BY <1>6 DEF L!Messages
    <3>5. entry \in L!InflightCommands /\ entry # NoCommand
      <4>1. entry \in L!InflightCommands
        BY <3>3, <3>4 DEF L!InflightCommands
      <4> HIDE DEF entry
      <4>2. QED
        BY <4>1, StationsAssumption
    <3>6. /\ entry.command = command /\ entry.original_sequence_id = m.sequence_id
          /\ command.controller = c /\ command.sequence_id = m.sequence_id
      BY <3>1 DEF SameCommand
    <3>7. inflight' = [inflight EXCEPT ![i] = entry]
      BY <3>1
    <3> HIDE DEF entry
    <3>8. inflight'[i] = entry /\ \A j \in L!TableSlots : j # i => inflight'[j] = inflight[j]
      BY <2>1, <3>7
    <3>9. \A j \in L!TableSlots : \A d : ArmedFor(j, d)' <=> IF j = i THEN d = c ELSE ArmedFor(j, d)
      BY <3>5, <3>6, <3>8 DEF ArmedFor, L!Armed
    <3>10. ~L!Armed(i)
      BY <3>1
    <3>11. CommandOf(command, request[c]) /\ m.sequence_id = request[c].sequence_id
      BY <1>6, <3>1, <3>2, <3>6 DEF FrameOf, CommandOf, ConnectTypes, DisconnectTypes
    <3>12. ArmedStand'
      <4>1. \A j \in L!TableSlots, d \in Controllers : d # c =>
                /\ ArmedFor(j, d)' <=> ArmedFor(j, d)
                /\ ArmedFor(j, d) => inflight'[j] = inflight[j]
        BY <3>8, <3>9, <3>10 DEF ArmedFor
      <4>2. \A j \in L!TableSlots : ArmedFor(j, c)' => j = i
        BY <1>6, <3>9
      <4>3. ArmedFor(i, c)'
        BY <3>9
      <4>4. /\ CommandOf(inflight'[i].command, request[c])
            /\ inflight'[i].original_sequence_id = request[c].sequence_id
        BY <3>6, <3>8, <3>11
      <4>5. QED
        BY <1>2, <1>5, <3>3, <4>1, <4>2, <4>3, <4>4, PassedArmedStand
    <3>13. inflight' \in [L!TableSlots -> L!InflightCommands \cup {NoCommand}]
      BY <2>1, <3>5, <3>7
    <3>14. QED
      BY <3>12, <3>13
  <2>4. QED
    BY <2>2, <2>3
<1>8. NetTypeOK' /\ RequestsOwn' /\ FramesStand' /\ OneFrame' /\ OneStream'
  <2>1. s \in L!Sinks /\ m.message_type \in ConnectTypes => infos'[s].listener_unique_id = s
    BY <1>4, BoundOfFrame DEF RxResponseTypes
  <2>2. infos' \in [L!Sinks -> L!StreamInfos]
    BY <1>4 DEF NetInv, NetTypeOK
  <2>3. QED
    BY <1>1, <1>4, <1>5, <1>7, <2>1, <2>2, ListenerStepKeeps
<1>9. SlotsOwn'
  BY <1>4 DEF NetInv, SlotsOwn
<1>10. \A v : Bound(v, s)' <=> Bound(v, s)
  BY <1>4 DEF Bound
<1>11. BoundIsKnown'
  <2>1. ASSUME s \in L!Sinks, NEW v \in T!Sources
        PROVE  Bound(v, s)' <=>
                    \/ <<v, s>> \in connections /\ r.message_type # "DISCONNECT_RX_RESPONSE"
                    \/ r.message_type = "CONNECT_RX_RESPONSE" /\ r.talker_unique_id = v
    <3>1. /\ InTransit("DISCONNECT_RX_RESPONSE", s) <=> m.message_type = "DISCONNECT_RX_RESPONSE"
          /\ InTransitFor("CONNECT_RX_RESPONSE", v, s) <=>
                m.message_type = "CONNECT_RX_RESPONSE" /\ m.talker_unique_id = v
      BY TransitOfFrame
    <3>2. QED
      BY <1>3, <1>10, <2>1, <3>1 DEF NetInv, BoundIsKnown
  <2>2. QED
    BY <1>2, <1>4, <1>5, <2>1, PassedBoundIsKnown
<1>12. HeldIsListed'
  <2>1. ASSUME NEW v \in T!Sources PROVE Held(v)' = Held(v)
    <3>1. /\ \A t \in L!Sinks : t # s => (t \in Held(v)' <=> t \in Held(v))
          /\ s \in L!Sinks =>
                /\ s \in Held(v) <=> HeldFor(v, m.message_type, m.talker_unique_id, Bound(v, s))
                /\ s \in Held(v)' <=> HeldFor(v, r.message_type, r.talker_unique_id, Bound(v, s)')
      BY <1>4, <1>5, PassedHeld
    <3>2. s \in L!Sinks => (s \in Held(v)' <=> s \in Held(v))
      BY <1>3, <1>10, <3>1 DEF HeldFor
    <3>3. QED
      BY <3>1, <3>2 DEF Held
  <2>2. QED
    BY <1>2, <2>1, HeldStays
<1>13. QED
  BY <1>7, <1>8, <1>9, <1>11, <1>12 DEF NetInv

\* and the talker's answer, which releases the command's slot.
LEMMA ReleaseKeepsTable ==
    ASSUME CarefulNetwork, NetInv, NEW m, NEW r, Passes(m, r), request' = request,
           r.message_type \in RxResponseTypes, NEW i, ListenerReleases(m, i)
    PROVE  ArmedStand' /\ inflight' \in [L!TableSlots -> L!InflightCommands \cup {NoCommand}]
<1> DEFINE c == m.controller
<1>1. /\ i \in L!TableSlots /\ ArmedFor(i, c) /\ inflight' = [inflight EXCEPT ![i] = NoCommand]
      /\ inflight \in [L!TableSlots -> L!InflightCommands \cup {NoCommand}]
  BY DEF ListenerReleases, NetInv, NetTypeOK
<1>2. inflight'[i] = NoCommand /\ \A j \in L!TableSlots : j # i => inflight'[j] = inflight[j]
  BY <1>1
<1>3. c \in Controllers
  BY FrameFacts DEF Passes
<1>4. \A j \in L!TableSlots : ArmedFor(j, c) => j = i
  BY <1>1, <1>3 DEF NetInv, ArmedStand
<1>5. \A j \in L!TableSlots : \A d : ArmedFor(j, d)' <=> j # i /\ ArmedFor(j, d)
  BY <1>2 DEF ArmedFor, L!Armed
<1>6. \A j \in L!TableSlots : ~ArmedFor(j, c)'
  BY <1>4, <1>5
<1>7. \A j \in L!TableSlots, d \in Controllers : d # c =>
          /\ ArmedFor(j, d)' <=> ArmedFor(j, d)
          /\ ArmedFor(j, d) => inflight'[j] = inflight[j]
  BY <1>1, <1>2, <1>5 DEF ArmedFor
<1>8. r.message_type \notin TxTypes
  BY DEF TxTypes, TxCommandTypes, TxResponseTypes, RxResponseTypes
<1>9. ArmedStand'
  BY <1>6, <1>7, <1>8, PassedArmedStand
<1>10. QED
  BY <1>1, <1>9

LEMMA ListenerConnectKeeps ==
    ASSUME CarefulNetwork, NetInv, NEW m \in net, ListenerReceives(m),
           m.message_type = "CONNECT_TX_RESPONSE"
    PROVE  NetInv'
<1> DEFINE s == m.listener_unique_id
           u == m.talker_unique_id
<1>1. /\ L!Receive(m) /\ net' = (net \ {m}) \cup listenerTx'
      /\ UNCHANGED <<talkerVars, controllerVars>>
  BY DEF ListenerReceives
<1>2. /\ request' = request /\ connections' = connections
      /\ pairs' = pairs /\ count' = count /\ monitor' = monitor
  BY <1>1 DEF talkerVars, controllerVars
<1>3. /\ s \in L!Sinks
      /\ infos' = [infos EXCEPT ![s] = [@ EXCEPT !.connected = TRUE, !.talker = m.talker,
                                                 !.talker_unique_id = u]]
      /\ \E i : ListenerReleases(m, i)
      /\ \E r : /\ listenerTx' = {r}
                /\ SameCommand(r, m)
                /\ r.message_type = "CONNECT_RX_RESPONSE"
                /\ r.status = "SUCCESS"
  BY <1>1, ListenerConnects
<1>4. PICK r : /\ listenerTx' = {r}
               /\ SameCommand(r, m)
               /\ r.message_type = "CONNECT_RX_RESPONSE"
               /\ r.status = "SUCCESS"
  BY <1>3
<1>5. PICK i : ListenerReleases(m, i)
  BY <1>3
<1>6. Passes(m, r)
  BY <1>1, <1>3, <1>4, PassesOn DEF ConnectTypes, TxTypes, TxCommandTypes, TxResponseTypes,
        RxResponseTypes
<1>7. inflight' \in [L!TableSlots -> L!InflightCommands \cup {NoCommand}] /\ ArmedStand'
  BY <1>2, <1>4, <1>5, <1>6, ReleaseKeepsTable DEF RxResponseTypes
<1>8. /\ infos \in [L!Sinks -> L!StreamInfos] /\ m \in L!Messages /\ u \in T!Sources
      /\ m.talker = Talker /\ u \in TalkerUids
      /\ ~infos[s].connected /\ infos[s].listener_unique_id = s
  <2>1. m \in L!Messages /\ u \in T!Sources /\ m.talker = Talker
    BY FrameFacts DEF FrameOf
  <2>2. ~infos[s].connected /\ infos[s].listener_unique_id = s
    BY <1>3, BoundOfFrame DEF ConnectTypes, RxResponseTypes
  <2>3. QED
    BY <2>1, <2>2 DEF NetInv, NetTypeOK, CarefulNetwork
<1>9. /\ infos' \in [L!Sinks -> L!StreamInfos]
      /\ \A t \in L!Sinks : t # s => infos'[t] = infos[t]
      /\ infos'[s].listener_unique_id = s /\ infos'[s].connected
      /\ infos'[s].talker = Talker /\ infos'[s].talker_unique_id = u
  <2> DEFINE info == [infos[s] EXCEPT !.connected = TRUE, !.talker = m.talker,
                                      !.talker_unique_id = u]
  <2>1. infos[s] \in L!StreamInfos
    BY <1>3, <1>8
  <2>2. /\ info \in L!StreamInfos /\ info.listener_unique_id = s /\ info.connected
        /\ info.talker = Talker /\ info.talker_unique_id = u
    BY <1>8, <2>1 DEF L!StreamInfos
  <2>3. infos' = [infos EXCEPT ![s] = info]
    BY <1>3
  <2> HIDE DEF info
  <2>4. QED
    BY <1>3, <1>8, <2>2, <2>3
<1>10. NetTypeOK' /\ RequestsOwn' /\ FramesStand' /\ OneFrame' /\ OneStream'
  BY <1>1, <1>6, <1>7, <1>9, ListenerStepKeeps
<1>11. SlotsOwn'
  BY <1>9 DEF NetInv, SlotsOwn
<1>12. \A v : (Bound(v, s)' <=> v = u) /\ ~Bound(v, s)
  BY <1>8, <1>9 DEF Bound
<1>13. r.talker_unique_id = u
  BY <1>4 DEF SameCommand
<1>14. BoundIsKnown'
  <2>1. ASSUME NEW v \in T!Sources PROVE <<v, s>> \notin connections
    <3>1. /\ InTransit("DISCONNECT_RX_RESPONSE", s) <=> m.message_type = "DISCONNECT_RX_RESPONSE"
      BY TransitOfFrame
    <3>2. QED
      BY <1>3, <1>12, <3>1 DEF NetInv, BoundIsKnown
  <2>2. QED
    BY <1>2, <1>4, <1>6, <1>9, <1>12, <1>13, <2>1, PassedBoundIsKnown
<1>15. HeldIsListed'
  <2>1. ASSUME NEW v \in T!Sources PROVE Held(v)' = Held(v)
    <3>1. /\ \A t \in L!Sinks : t # s => (t \in Held(v)' <=> t \in Held(v))
          /\ s \in L!Sinks =>
                /\ s \in Held(v) <=> HeldFor(v, m.message_type, m.talker_unique_id, Bound(v, s))
                /\ s \in Held(v)' <=> HeldFor(v, r.message_type, r.talker_unique_id, Bound(v, s)')
      BY <1>6, <1>9, PassedHeld
    <3>2. s \in Held(v)' <=> s \in Held(v)
      BY <1>3, <1>4, <1>12, <3>1 DEF HeldFor
    <3>3. QED
      BY <3>1, <3>2 DEF Held
  <2>2. QED
    BY <1>2, <2>1, HeldStays
<1>16. QED
  BY <1>7, <1>10, <1>11, <1>14, <1>15 DEF NetInv

LEMMA ListenerDisconnectKeeps ==
    ASSUME CarefulNetwork, NetInv, NEW m \in net, ListenerReceives(m),
           m.message_type = "DISCONNECT_TX_RESPONSE"
    PROVE  NetInv'
<1> DEFINE s == m.listener_unique_id
           u == m.talker_unique_id
<1>1. /\ L!Receive(m) /\ net' = (net \ {m}) \cup listenerTx'
      /\ UNCHANGED <<talkerVars, controllerVars>>
  BY DEF ListenerReceives
<1>2. /\ request' = request /\ connections' = connections
      /\ pairs' = pairs /\ count' = count /\ monitor' = monitor
  BY <1>1 DEF talkerVars, controllerVars
<1>3. /\ s \in L!Sinks
      /\ infos' = [infos EXCEPT ![s] = L!Unconnected(0)]
      /\ \E i : ListenerReleases(m, i)
      /\ \E r : /\ listenerTx' = {r}
                /\ SameCommand(r, m)
                /\ r.message_type = "DISCONNECT_RX_RESPONSE"
                /\ r.status = "SUCCESS"
  BY <1>1, ListenerDisconnects
<1>4. PICK r : /\ listenerTx' = {r}
               /\ SameCommand(r, m)
               /\ r.message_type = "DISCONNECT_RX_RESPONSE"
               /\ r.status = "SUCCESS"
  BY <1>3
<1>5. PICK i : ListenerReleases(m, i)
  BY <1>3
<1>6. Passes(m, r)
  BY <1>1, <1>3, <1>4, PassesOn DEF DisconnectTypes, TxTypes, TxCommandTypes, TxResponseTypes,
        RxResponseTypes
<1>7. inflight' \in [L!TableSlots -> L!InflightCommands \cup {NoCommand}] /\ ArmedStand'
  BY <1>2, <1>4, <1>5, <1>6, ReleaseKeepsTable DEF RxResponseTypes
<1>8. infos \in [L!Sinks -> L!StreamInfos] /\ m.message_type \notin ConnectTypes
  BY DEF NetInv, NetTypeOK, ConnectTypes
<1>9. /\ infos' \in [L!Sinks -> L!StreamInfos]
      /\ \A t \in L!Sinks : t # s => infos'[t] = infos[t]
      /\ infos'[s].listener_unique_id = 0 /\ ~infos'[s].connected
  <2>1. L!Unconnected(0) \in L!StreamInfos /\ L!Unconnected(0).listener_unique_id = 0
        /\ ~L!Unconnected(0).connected
    BY StationsAssumption DEF L!Unconnected, L!StreamInfos
  <2>2. QED
    BY <1>3, <1>8, <2>1
<1>10. NetTypeOK' /\ RequestsOwn' /\ FramesStand' /\ OneFrame' /\ OneStream'
  BY <1>1, <1>6, <1>7, <1>8, <1>9, ListenerStepKeeps
<1>11. SlotsOwn'
  BY <1>9 DEF NetInv, SlotsOwn
<1>12. \A v : ~Bound(v, s)'
  BY <1>9 DEF Bound
<1>13. BoundIsKnown'
  BY <1>2, <1>4, <1>6, <1>9, <1>12, PassedBoundIsKnown
<1>14. HeldIsListed'
  <2>1. ASSUME NEW v \in T!Sources PROVE Held(v)' = Held(v)
    <3>1. /\ \A t \in L!Sinks : t # s => (t \in Held(v)' <=> t \in Held(v))
          /\ s \in L!Sinks =>
                /\ s \in Held(v) <=> HeldFor(v, m.message_type, m.talker_unique_id, Bound(v, s))
                /\ s \in Held(v)' <=> HeldFor(v, r.message_type, r.talker_unique_id, Bound(v, s)')
      BY <1>6, <1>9, PassedHeld
    <3>2. s \in Held(v)' <=> s \in Held(v)
      BY <1>3, <1>4, <1>12, <3>1 DEF HeldFor
    <3>3. QED
      BY <3>1, <3>2 DEF Held
  <2>2. QED
    BY <1>2, <2>1, HeldStays
<1>15. QED
  BY <1>7, <1>10, <1>11, <1>13, <1>14 DEF NetInv

-----------------------------------------------------------------------------
(* The talker.                                                             *)

\* Taking one record out of a list leaves every other one in.
LEMMA RemoveAtKeeps ==
    ASSUME NEW S, NEW list \in Seq(S), NEW k \in 1 .. Len(list)
    PROVE  /\ T!RemoveAt(list, k) \in Seq(S)
           /\ \A j \in 1 .. Len(list) : j # k => \E i \in 1 .. Len(T!RemoveAt(list, k)) :
                T!RemoveAt(list, k)[i] = list[j]
<1> DEFINE a == SubSeq(list, 1, k - 1)
           b == SubSeq(list, k + 1, Len(list))
<1>1. a \in Seq(S) /\ Len(a) = k - 1 /\ \A i \in 1 .. k - 1 : a[i] = list[i]
  OBVIOUS
<1>2. /\ b \in Seq(S) /\ Len(b) = Len(list) - k
      /\ \A i \in 1 .. Len(list) - k : b[i] = list[k + i]
  <2>1. k \in Nat /\ k + 1 \in Nat /\ Len(list) \in Nat /\ k <= Len(list)
    OBVIOUS
  <2>2. \A i \in k + 1 .. Len(list) : list[i] \in S
    BY <2>1
  <2>3. b \in Seq(S) /\ Len(b) = Len(list) - k
    BY <2>1, <2>2
  <2>4. ASSUME NEW i \in 1 .. Len(list) - k
        PROVE  b[i] = list[k + i]
    <3>1. i \in 1 .. Len(list) - (k + 1) + 1 /\ k + 1 + i - 1 = k + i
      BY <2>1
    <3>2. b[i] = list[k + 1 + i - 1]
      BY <2>1, <3>1
    <3>3. QED
      BY <3>1, <3>2
  <2>5. QED
    BY <2>3, <2>4
<1>3. T!RemoveAt(list, k) = a \o b
  BY DEF T!RemoveAt
<1> HIDE DEF a, b
<1>4. a \o b \in Seq(S) /\ Len(a \o b) = Len(list) - 1
  <2>1. a \o b \in Seq(S) /\ Len(a \o b) = Len(a) + Len(b)
    BY <1>1, <1>2, ConcatProperties
  <2>2. Len(list) \in Nat
    OBVIOUS
  <2>3. QED
    BY <1>1, <1>2, <2>1, <2>2
<1>5. ASSUME NEW j \in 1 .. Len(list), j # k
      PROVE  \E i \in 1 .. Len(a \o b) : (a \o b)[i] = list[j]
  <2>1. CASE j < k
    <3>1. j \in 1 .. k - 1 /\ j \in 1 .. Len(a \o b)
      BY <1>4, <2>1
    <3>2. (a \o b)[j] = a[j]
      BY <1>1, <1>2, <3>1, ConcatProperties
    <3>3. a[j] = list[j]
      BY <1>1, <3>1
    <3>4. QED
      BY <3>1, <3>2, <3>3
  <2>2. CASE j > k
    <3>1. j - 1 \in 1 .. Len(a \o b) /\ (a \o b)[j - 1] = b[j - k]
      BY <1>1, <1>2, <1>4, <2>2
    <3>2. b[j - k] = list[j]
      BY <1>2, <2>2
    <3>3. QED
      BY <3>1, <3>2
  <2>3. QED
    BY <1>5, <2>1, <2>2
<1>6. QED
  BY <1>3, <1>4, <1>5

\* The sinks held for a source are finitely many, and connection_count can count them.
LEMMA HeldFinite ==
    ASSUME CarefulNetwork, NEW H, H \subseteq L!Sinks
    PROVE  IsFiniteSet(H) /\ Cardinality(H) \in Nat /\ Cardinality(H) < CountRange
<1>1. IsFiniteSet(L!Sinks) /\ Cardinality(L!Sinks) = NumSinks
  BY FS_Interval, StationsAssumption DEF L!Sinks
<1>2. IsFiniteSet(H) /\ Cardinality(H) <= NumSinks
  BY <1>1, FS_Subset
<1>3. Cardinality(H) \in Nat
  BY <1>2, FS_CardinalityType
<1>4. QED
  BY <1>2, <1>3, StationsAssumption DEF CarefulNetwork

\* connection_count does not wrap while it counts the held sinks.
LEMMA CountsOn ==
    ASSUME NEW n \in 0 .. CountRange - 1
    PROVE  /\ (n + 1) % CountRange \in 0 .. CountRange - 1
           /\ (n + CountRange - 1) % CountRange \in 0 .. CountRange - 1
           /\ n + 1 < CountRange => (n + 1) % CountRange = n + 1
           /\ n > 0 => (n + CountRange - 1) % CountRange = n - 1
<1>1. CountRange \in Nat /\ CountRange >= 3
  BY StationsAssumption
<1>2. (n + 1) % CountRange = IF n = CountRange - 1 THEN 0 ELSE n + 1
  BY <1>1
<1>3. (n + CountRange - 1) % CountRange = IF n = 0 THEN CountRange - 1 ELSE n - 1
  BY <1>1
<1>4. QED
  BY <1>1, <1>2, <1>3

\* What the talker makes of the listener's commands.
LEMMA TalkerConnects ==
    ASSUME CarefulNetwork, NetInv, NEW m \in net, T!Receive(m),
           m.message_type = "CONNECT_TX_COMMAND"
    PROVE  LET u == m.talker_unique_id
               s == m.listener_unique_id
           IN  \/ /\ monitor' = "undefined"
                  /\ talkerTx' = {}
                  /\ UNCHANGED <<pairs, dangling, count>>
               \/ /\ pairs' = [pairs EXCEPT ![u] = Append(@, PairOfSink(s))]
                  /\ count' = [count EXCEPT ![u] = (@ + 1) % CountRange]
                  /\ UNCHANGED <<dangling, monitor>>
                  /\ \E r : /\ talkerTx' = {r}
                            /\ SameCommand(r, m)
                            /\ r.message_type = "CONNECT_TX_RESPONSE"
                            /\ r.status = "SUCCESS"
<1> DEFINE u == m.talker_unique_id
           s == m.listener_unique_id
           r == [T!Frame(m, "CONNECT_TX_RESPONSE", "SUCCESS") EXCEPT !.connection_count = count'[u]]
<1>1. m \in L!Messages /\ u \in T!Sources /\ m.listener = Listener
  BY FrameFacts DEF FrameOf
<1>2. T!ConnectTxCommand(m)
  BY DEF T!Receive, T!DisconnectTxCommand, T!GetTxState, T!GetTxConnection
<1>3. \/ T!ReadFreed
      \/ T!AppendPair(u, T!PairOf(m)) /\ talkerTx' = {r}
  BY <1>1, <1>2 DEF T!ConnectTxCommand, T!ValidTalkerUnique
<1>4. CASE T!ReadFreed
  BY <1>4 DEF T!ReadFreed
<1>5. CASE T!AppendPair(u, T!PairOf(m)) /\ talkerTx' = {r}
  <2>1. T!PairOf(m) = PairOfSink(s)
    BY <1>1 DEF T!PairOf, PairOfSink
  <2>2. /\ pairs' = [pairs EXCEPT ![u] = Append(@, PairOfSink(s))]
        /\ count' = [count EXCEPT ![u] = (@ + 1) % CountRange]
        /\ UNCHANGED <<dangling, monitor>>
    BY <1>5, <2>1 DEF T!AppendPair
  <2>3. count \in [T!Sources -> 0 .. CountRange - 1]
    BY DEF NetInv, NetTypeOK
  <2>4. (count[u] + 1) % CountRange \in 0 .. CountRange - 1
    BY <1>1, <2>3, CountsOn
  <2>5. count'[u] \in 0 .. CountRange - 1
    BY <1>1, <2>2, <2>3, <2>4
  <2>6. SameCommand(r, m) /\ r.message_type = "CONNECT_TX_RESPONSE" /\ r.status = "SUCCESS"
    BY <1>1, <2>5, FrameCounted DEF L!ResponseTypes, L!Statuses
  <2> HIDE DEF r
  <2>7. QED
    BY <1>5, <2>2, <2>6
<1>6. QED
  BY <1>3, <1>4, <1>5

\* The record of a sink that is still held is found.
LEMMA TalkerDisconnects ==
    ASSUME CarefulNetwork, NetInv, NEW m \in net, T!Receive(m),
           m.message_type = "DISCONNECT_TX_COMMAND"
    PROVE  LET u == m.talker_unique_id
               s == m.listener_unique_id
           IN  /\ \E k \in 1 .. Len(pairs[u]) :
                    /\ pairs[u][k] = PairOfSink(s)
                    /\ pairs' = [pairs EXCEPT ![u] = T!Unlinked(u, k)]
                    /\ dangling' = [dangling EXCEPT ![u] = T!DanglingAfter(u, k)]
               /\ count' = [count EXCEPT ![u] = (@ + CountRange - 1) % CountRange]
               /\ UNCHANGED monitor
               /\ s \in Held(u)
               /\ \E r : /\ talkerTx' = {r}
                         /\ SameCommand(r, m)
                         /\ r.message_type = "DISCONNECT_TX_RESPONSE"
                         /\ r.status = "SUCCESS"
<1> DEFINE u == m.talker_unique_id
           s == m.listener_unique_id
           found == T!PositionsOf(u, T!PairOf(m))
           k == T!First(found)
           r == T!Frame(m, "DISCONNECT_TX_RESPONSE", "SUCCESS")
<1>1. /\ m \in L!Messages /\ u \in T!Sources /\ m.listener = Listener /\ s \in L!Sinks
      /\ monitor = "running"
  BY FrameFacts DEF FrameOf, TxTypes, TxCommandTypes, T!Receive
<1>2. s \in Held(u)
  <2>1. infos[s].connected /\ infos[s].talker_unique_id = u
    BY <1>1, BoundOfFrame DEF DisconnectTypes, RxResponseTypes
  <2>2. InTransit("DISCONNECT_TX_RESPONSE", s) <=> m.message_type = "DISCONNECT_TX_RESPONSE"
    BY TransitOfFrame
  <2>3. QED
    BY <1>1, <2>1, <2>2 DEF Held, Bound
<1>3. T!PairOf(m) = PairOfSink(s)
  BY <1>1 DEF T!PairOf, PairOfSink
<1>4. found # {}
  <2>1. PICK j \in 1 .. Len(pairs[u]) : pairs[u][j] = PairOfSink(s)
    BY <1>1, <1>2 DEF NetInv, HeldIsListed
  <2>2. QED
    BY <1>3, <2>1 DEF T!PositionsOf
<1>5. k \in 1 .. Len(pairs[u]) /\ pairs[u][k] = PairOfSink(s)
  <2>1. found \subseteq Nat
    BY DEF T!PositionsOf
  <2>2. k \in found
    BY <1>4, <2>1, FirstInSet
  <2>3. QED
    BY <1>3, <2>2 DEF T!PositionsOf
<1>6. T!DisconnectTxCommand(m)
  BY DEF T!Receive, T!ConnectTxCommand, T!GetTxState, T!GetTxConnection
<1>7. T!RemovePair(u, k) /\ talkerTx' = {r}
  BY <1>1, <1>4, <1>6 DEF T!DisconnectTxCommand, T!ValidTalkerUnique, T!TxResponse
<1>8. SameCommand(r, m) /\ r.message_type = "DISCONNECT_TX_RESPONSE" /\ r.status = "SUCCESS"
  BY <1>1, FrameMade DEF L!ResponseTypes, L!Statuses
<1> HIDE DEF k, r, found
<1>9. /\ pairs' = [pairs EXCEPT ![u] = T!Unlinked(u, k)]
      /\ dangling' = [dangling EXCEPT ![u] = T!DanglingAfter(u, k)]
      /\ count' = [count EXCEPT ![u] = (@ + CountRange - 1) % CountRange]
      /\ UNCHANGED monitor
  BY <1>7 DEF T!RemovePair
<1>10. QED
  BY <1>2, <1>5, <1>7, <1>8, <1>9

\* What the talker's steps leave alone keeps the parts of the invariant that do
\* not speak of its lists and counts.
LEMMA TalkerStepKeeps ==
    ASSUME CarefulNetwork, NetInv, NEW m, NEW r, Passes(m, r),
           UNCHANGED <<listenerVars, controllerVars, monitor>>,
           m.message_type \in TxTypes, r.message_type \in TxTypes,
           pairs' \in [T!Sources -> Seq(T!Pairs)],
           dangling' \in [T!Sources -> BOOLEAN],
           count' \in [T!Sources -> 0 .. CountRange - 1],
           HeldIsListed'
    PROVE  NetInv'
<1> DEFINE c == m.controller
<1>1. /\ request' = request /\ sequence' = sequence /\ connections' = connections
      /\ infos' = infos /\ inflight' = inflight /\ monitor' = monitor
  BY DEF listenerVars, controllerVars
<1>2. net' \subseteq L!Messages /\ FramesStand' /\ OneFrame'
  BY <1>1, PassedFramesStand
<1>3. NetTypeOK'
  BY <1>1, <1>2 DEF NetInv, NetTypeOK
<1>4. RequestsOwn' /\ OneStream' /\ SlotsOwn'
  BY <1>1 DEF NetInv, RequestsOwn, OneStream, SlotsOwn
<1>5. ArmedStand'
  <2>1. m \in net /\ c \in Controllers
    BY FrameFacts DEF Passes
  <2>2. \A i, d : ArmedFor(i, d)' <=> ArmedFor(i, d)
    BY <1>1 DEF ArmedFor, L!Armed
  <2>3. \E i \in L!TableSlots : ArmedFor(i, c)
    BY <2>1 DEF NetInv, ArmedStand
  <2>4. \A i \in L!TableSlots : ArmedFor(i, c) =>
            /\ CommandOf(inflight[i].command, request[c])
            /\ inflight[i].original_sequence_id = request[c].sequence_id
    BY <2>1 DEF NetInv, ArmedStand
  <2>5. \A i, j \in L!TableSlots : ArmedFor(i, c) /\ ArmedFor(j, c) => i = j
    BY <2>1 DEF NetInv, ArmedStand
  <2>6. QED
    BY <1>1, <2>2, <2>3, <2>4, <2>5, PassedArmedStand
<1>6. BoundIsKnown'
  <2> DEFINE s == m.listener_unique_id
  <2>1. ASSUME s \in L!Sinks, NEW v \in T!Sources
        PROVE  Bound(v, s)' <=>
                    \/ <<v, s>> \in connections /\ r.message_type # "DISCONNECT_RX_RESPONSE"
                    \/ r.message_type = "CONNECT_RX_RESPONSE" /\ r.talker_unique_id = v
    <3>1. /\ InTransit("DISCONNECT_RX_RESPONSE", s) <=> m.message_type = "DISCONNECT_RX_RESPONSE"
          /\ InTransitFor("CONNECT_RX_RESPONSE", v, s) <=>
                m.message_type = "CONNECT_RX_RESPONSE" /\ m.talker_unique_id = v
      BY TransitOfFrame DEF Passes
    <3>2. Bound(v, s)' <=> Bound(v, s)
      BY <1>1 DEF Bound
    <3>3. QED
      BY <2>1, <3>1, <3>2 DEF NetInv, BoundIsKnown, TxTypes, TxCommandTypes, TxResponseTypes
  <2>2. QED
    BY <1>1, <2>1, PassedBoundIsKnown
<1>7. QED
  BY <1>2, <1>3, <1>4, <1>5, <1>6 DEF NetInv

\* A connection joins the list and is counted;
LEMMA TalkerConnectKeeps ==
    ASSUME CarefulNetwork, NetInv, NEW m \in net, TalkerReceives(m),
           m.message_type = "CONNECT_TX_COMMAND", monitor' = monitor
    PROVE  NetInv'
<1> DEFINE u == m.talker_unique_id
           s == m.listener_unique_id
<1>1. /\ T!Receive(m) /\ net' = (net \ {m}) \cup talkerTx'
      /\ UNCHANGED <<listenerVars, controllerVars>>
  BY DEF TalkerReceives
<1>2. monitor = "running" /\ monitor # "undefined"
  BY <1>1 DEF T!Receive
<1>3. /\ pairs' = [pairs EXCEPT ![u] = Append(@, PairOfSink(s))]
      /\ count' = [count EXCEPT ![u] = (@ + 1) % CountRange]
      /\ UNCHANGED <<dangling, monitor>>
      /\ \E r : /\ talkerTx' = {r}
                /\ SameCommand(r, m)
                /\ r.message_type = "CONNECT_TX_RESPONSE"
                /\ r.status = "SUCCESS"
  BY <1>1, <1>2, TalkerConnects
<1>4. PICK r : /\ talkerTx' = {r}
               /\ SameCommand(r, m)
               /\ r.message_type = "CONNECT_TX_RESPONSE"
               /\ r.status = "SUCCESS"
  BY <1>3
<1>5. u \in T!Sources /\ s \in L!Sinks /\ m \in L!Messages /\ s \in ListenerUids
  BY FrameFacts DEF FrameOf, TxTypes, TxCommandTypes
<1>6. Passes(m, r)
  BY <1>1, <1>4, <1>5, PassesOn DEF ConnectTypes, TxTypes, TxCommandTypes, TxResponseTypes,
        RxResponseTypes
<1>7. /\ pairs \in [T!Sources -> Seq(T!Pairs)] /\ dangling \in [T!Sources -> BOOLEAN]
      /\ count \in [T!Sources -> 0 .. CountRange - 1]
  BY DEF NetInv, NetTypeOK
<1>8. PairOfSink(s) \in T!Pairs
  BY <1>5 DEF PairOfSink, T!Pairs
<1>9. /\ pairs' \in [T!Sources -> Seq(T!Pairs)] /\ dangling' \in [T!Sources -> BOOLEAN]
      /\ count' \in [T!Sources -> 0 .. CountRange - 1]
  <2>1. (count[u] + 1) % CountRange \in 0 .. CountRange - 1
    BY <1>5, <1>7, CountsOn
  <2>2. Append(pairs[u], PairOfSink(s)) \in Seq(T!Pairs)
    BY <1>5, <1>7, <1>8
  <2>3. QED
    BY <1>3, <1>7, <2>1, <2>2
<1>10. infos' = infos /\ r.talker_unique_id = u
  BY <1>1, <1>4 DEF listenerVars, SameCommand
<1>11. ASSUME NEW v \in T!Sources
       PROVE  Held(v)' = (IF v = u THEN Held(v) \cup {s} ELSE Held(v)) /\ s \notin Held(v)
  <2>1. /\ \A t \in L!Sinks : t # s => (t \in Held(v)' <=> t \in Held(v))
        /\ s \in Held(v) <=> HeldFor(v, m.message_type, m.talker_unique_id, Bound(v, s))
        /\ s \in Held(v)' <=> HeldFor(v, r.message_type, r.talker_unique_id, Bound(v, s)')
    BY <1>5, <1>6, <1>10, PassedHeld
  <2>2. ~Bound(v, s) /\ ~Bound(v, s)'
    BY <1>5, <1>10, BoundOfFrame DEF Bound, ConnectTypes, RxResponseTypes
  <2>3. s \notin Held(v) /\ (s \in Held(v)' <=> v = u)
    BY <1>4, <1>10, <2>1, <2>2 DEF HeldFor
  <2>4. Held(v) \subseteq L!Sinks /\ Held(v)' \subseteq L!Sinks
    BY DEF Held
  <2>5. QED
    BY <1>5, <2>1, <2>3, <2>4
<1>12. HeldIsListed'
  <2> SUFFICES ASSUME NEW v \in T!Sources
               PROVE  /\ count'[v] = Cardinality(Held(v)')
                      /\ \A t \in Held(v)' :
                            \E k \in 1 .. Len(pairs'[v]) : pairs'[v][k] = PairOfSink(t)
    BY DEF HeldIsListed, PairOfSink
  <2>1. /\ count[v] = Cardinality(Held(v))
        /\ \A t \in Held(v) : \E k \in 1 .. Len(pairs[v]) : pairs[v][k] = PairOfSink(t)
    BY <1>2 DEF NetInv, HeldIsListed
  <2>2. CASE v # u
    BY <1>3, <1>7, <1>11, <2>1, <2>2
  <2>3. CASE v = u
    <3>1. Held(v)' = Held(v) \cup {s} /\ s \notin Held(v) /\ Held(v) \subseteq L!Sinks
          /\ Held(v)' \subseteq L!Sinks
      BY <1>11, <2>3 DEF Held
    <3>2. IsFiniteSet(Held(v)) /\ Cardinality(Held(v)) \in Nat /\ Cardinality(Held(v)') < CountRange
      BY <3>1, HeldFinite
    <3>3. Cardinality(Held(v)') = count[v] + 1
      <4>1. Cardinality(Held(v) \cup {s}) =
                IF s \in Held(v) THEN Cardinality(Held(v)) ELSE Cardinality(Held(v)) + 1
        BY <3>2, FS_AddElement, Zenon
      <4>2. QED
        BY <2>1, <3>1, <4>1
    <3>4. count'[v] = (count[v] + 1) % CountRange /\ count[v] \in 0 .. CountRange - 1
      BY <1>3, <1>7, <2>3
    <3>5. count'[v] = Cardinality(Held(v)')
      BY <3>2, <3>3, <3>4, CountsOn
    <3>6. pairs'[v] = Append(pairs[v], PairOfSink(s)) /\ pairs[v] \in Seq(T!Pairs)
      BY <1>3, <1>7, <2>3
    <3>7. /\ Len(pairs[v]) \in Nat /\ Len(pairs'[v]) = Len(pairs[v]) + 1
          /\ \A k \in 1 .. Len(pairs[v]) : pairs'[v][k] = pairs[v][k]
          /\ pairs'[v][Len(pairs[v]) + 1] = PairOfSink(s)
      BY <1>8, <3>6
    <3>8. ASSUME NEW t \in Held(v)'
          PROVE  \E k \in 1 .. Len(pairs'[v]) : pairs'[v][k] = PairOfSink(t)
      <4>1. CASE t = s
        <5>1. Len(pairs[v]) + 1 \in 1 .. Len(pairs'[v])
          BY <3>7
        <5>2. QED
          BY <3>7, <4>1, <5>1
      <4>2. CASE t # s
        <5>1. PICK k \in 1 .. Len(pairs[v]) : pairs[v][k] = PairOfSink(t)
          BY <2>1, <3>1, <3>8, <4>2
        <5>2. k \in 1 .. Len(pairs'[v])
          BY <3>7
        <5>3. QED
          BY <3>7, <5>1, <5>2
      <4>3. QED
        BY <4>1, <4>2
    <3>9. QED
      BY <3>5, <3>8
  <2>4. QED
    BY <2>2, <2>3
<1>13. QED
  BY <1>1, <1>3, <1>4, <1>6, <1>9, <1>12, TalkerStepKeeps DEF TxTypes, TxCommandTypes, TxResponseTypes

\* where the list ends in a freed record the talker's thread is lost instead, and
\* the frame with it, and the list and the count are not claimed any more;
LEMMA TalkerLostKeeps ==
    ASSUME CarefulNetwork, NetInv, NEW m \in net, TalkerReceives(m),
           m.message_type = "CONNECT_TX_COMMAND", monitor' # monitor
    PROVE  NetInv'
<1>1. /\ T!Receive(m) /\ net' = (net \ {m}) \cup talkerTx'
      /\ UNCHANGED <<listenerVars, controllerVars>>
  BY DEF TalkerReceives
<1>2. /\ monitor' = "undefined" /\ talkerTx' = {}
      /\ UNCHANGED <<pairs, dangling, count>>
  BY <1>1, TalkerConnects
<1>3. /\ request' = request /\ sequence' = sequence /\ connections' = connections
      /\ infos' = infos /\ inflight' = inflight /\ net' = net \ {m}
  BY <1>1, <1>2 DEF listenerVars, controllerVars
<1>4. NetTypeOK'
  BY <1>2, <1>3 DEF NetInv, NetTypeOK
<1>5. RequestsOwn' /\ OneStream' /\ SlotsOwn' /\ FramesStand' /\ OneFrame'
  BY <1>3 DEF NetInv, RequestsOwn, OneStream, SlotsOwn, FramesStand, FrameOf, OneFrame
<1>6. ArmedStand'
  <2>1. \A i, d : ArmedFor(i, d)' <=> ArmedFor(i, d)
    BY <1>3 DEF ArmedFor, L!Armed
  <2>2. QED
    BY <1>3, <2>1 DEF NetInv, ArmedStand, CommandOf
<1>7. \A v, t : /\ InTransit("DISCONNECT_RX_RESPONSE", t)' <=> InTransit("DISCONNECT_RX_RESPONSE", t)
                /\ InTransitFor("CONNECT_RX_RESPONSE", v, t)' <=> InTransitFor("CONNECT_RX_RESPONSE", v, t)
                /\ Bound(v, t)' <=> Bound(v, t)
  BY <1>3 DEF InTransit, InTransitFor, Bound
<1>8. BoundIsKnown'
  BY <1>3, <1>7 DEF NetInv, BoundIsKnown
<1>9. HeldIsListed'
  BY <1>2 DEF HeldIsListed
<1>10. QED
  BY <1>4, <1>5, <1>6, <1>8, <1>9 DEF NetInv

\* a disconnection takes one record of its own sink, and its count.
LEMMA TalkerDisconnectKeeps ==
    ASSUME CarefulNetwork, NetInv, NEW m \in net, TalkerReceives(m),
           m.message_type = "DISCONNECT_TX_COMMAND"
    PROVE  NetInv'
<1> DEFINE u == m.talker_unique_id
           s == m.listener_unique_id
<1>1. /\ T!Receive(m) /\ net' = (net \ {m}) \cup talkerTx'
      /\ UNCHANGED <<listenerVars, controllerVars>>
  BY DEF TalkerReceives
<1>2. monitor = "running"
  BY <1>1 DEF T!Receive
<1>3. /\ \E k \in 1 .. Len(pairs[u]) :
            /\ pairs[u][k] = PairOfSink(s)
            /\ pairs' = [pairs EXCEPT ![u] = T!Unlinked(u, k)]
            /\ dangling' = [dangling EXCEPT ![u] = T!DanglingAfter(u, k)]
      /\ count' = [count EXCEPT ![u] = (@ + CountRange - 1) % CountRange]
      /\ UNCHANGED monitor
      /\ s \in Held(u)
      /\ \E r : /\ talkerTx' = {r}
                /\ SameCommand(r, m)
                /\ r.message_type = "DISCONNECT_TX_RESPONSE"
                /\ r.status = "SUCCESS"
  BY <1>1, TalkerDisconnects
<1>4. PICK r : /\ talkerTx' = {r}
               /\ SameCommand(r, m)
               /\ r.message_type = "DISCONNECT_TX_RESPONSE"
               /\ r.status = "SUCCESS"
  BY <1>3
<1>5. PICK k \in 1 .. Len(pairs[u]) :
            /\ pairs[u][k] = PairOfSink(s)
            /\ pairs' = [pairs EXCEPT ![u] = T!Unlinked(u, k)]
            /\ dangling' = [dangling EXCEPT ![u] = T!DanglingAfter(u, k)]
  BY <1>3
<1>6. u \in T!Sources /\ s \in L!Sinks
  BY FrameFacts DEF FrameOf, TxTypes, TxCommandTypes
<1>7. Passes(m, r)
  BY <1>1, <1>4, <1>6, PassesOn DEF DisconnectTypes, TxTypes, TxCommandTypes, TxResponseTypes,
        RxResponseTypes
<1>8. /\ pairs \in [T!Sources -> Seq(T!Pairs)] /\ dangling \in [T!Sources -> BOOLEAN]
      /\ count \in [T!Sources -> 0 .. CountRange - 1]
  BY DEF NetInv, NetTypeOK
<1>9. /\ T!Unlinked(u, k) \in Seq(T!Pairs)
      /\ \A j \in 1 .. Len(pairs[u]) : j # k =>
            \E i \in 1 .. Len(T!Unlinked(u, k)) : T!Unlinked(u, k)[i] = pairs[u][j]
  <2>1. pairs[u] \in Seq(T!Pairs)
    BY <1>6, <1>8
  <2>2. CASE k = 1
    BY <2>1, <2>2 DEF T!Unlinked
  <2>3. CASE k # 1
    <3>1. T!Unlinked(u, k) = T!RemoveAt(pairs[u], k)
      BY <2>3 DEF T!Unlinked
    <3>2. QED
      BY <2>1, <3>1, RemoveAtKeeps
  <2>4. QED
    BY <2>2, <2>3
<1>10. /\ pairs' \in [T!Sources -> Seq(T!Pairs)] /\ dangling' \in [T!Sources -> BOOLEAN]
       /\ count' \in [T!Sources -> 0 .. CountRange - 1]
  <2>1. (count[u] + CountRange - 1) % CountRange \in 0 .. CountRange - 1
    BY <1>6, <1>8, CountsOn
  <2>2. T!DanglingAfter(u, k) \in BOOLEAN
    BY <1>6, <1>8 DEF T!DanglingAfter
  <2>3. QED
    BY <1>3, <1>5, <1>8, <1>9, <2>1, <2>2
<1>11. infos' = infos /\ r.talker_unique_id = u
  BY <1>1, <1>4 DEF listenerVars, SameCommand
<1>12. ASSUME NEW v \in T!Sources
       PROVE  Held(v)' = Held(v) \ {s} /\ (v # u => s \notin Held(v))
  <2>1. /\ \A t \in L!Sinks : t # s => (t \in Held(v)' <=> t \in Held(v))
        /\ s \in Held(v) <=> HeldFor(v, m.message_type, m.talker_unique_id, Bound(v, s))
        /\ s \in Held(v)' <=> HeldFor(v, r.message_type, r.talker_unique_id, Bound(v, s)')
    BY <1>6, <1>7, <1>11, PassedHeld
  <2>2. infos[s].talker_unique_id = u
    BY <1>6, BoundOfFrame DEF DisconnectTypes, RxResponseTypes
  <2>3. s \notin Held(v)' /\ (v # u => s \notin Held(v))
    BY <1>4, <2>1, <2>2 DEF HeldFor, Bound
  <2>4. Held(v) \subseteq L!Sinks /\ Held(v)' \subseteq L!Sinks
    BY DEF Held
  <2>5. ASSUME NEW t PROVE t \in Held(v)' <=> t \in Held(v) \ {s}
    BY <2>1, <2>3, <2>4
  <2>6. Held(v)' = Held(v) \ {s}
    BY <2>5
  <2>7. QED
    BY <2>3, <2>6
<1>13. HeldIsListed'
  <2> SUFFICES ASSUME NEW v \in T!Sources
               PROVE  /\ count'[v] = Cardinality(Held(v)')
                      /\ \A t \in Held(v)' :
                            \E i \in 1 .. Len(pairs'[v]) : pairs'[v][i] = PairOfSink(t)
    BY DEF HeldIsListed, PairOfSink
  <2>1. /\ count[v] = Cardinality(Held(v))
        /\ \A t \in Held(v) : \E i \in 1 .. Len(pairs[v]) : pairs[v][i] = PairOfSink(t)
    BY <1>2 DEF NetInv, HeldIsListed
  <2>2. CASE v # u
    <3>1. Held(v)' = Held(v)
      BY <1>12, <2>2
    <3>2. QED
      BY <1>3, <1>5, <1>8, <2>1, <2>2, <3>1
  <2>3. CASE v = u
    <3>1. Held(v)' = Held(v) \ {s} /\ s \in Held(v) /\ Held(v) \subseteq L!Sinks
      BY <1>3, <1>12, <2>3 DEF Held
    <3>2. IsFiniteSet(Held(v)) /\ Cardinality(Held(v)) \in Nat
      BY <3>1, HeldFinite
    <3>3. Cardinality(Held(v)') = count[v] - 1 /\ count[v] > 0
      <4>1. /\ Cardinality(Held(v) \ {s}) =
                  IF s \in Held(v) THEN Cardinality(Held(v)) - 1 ELSE Cardinality(Held(v))
            /\ IsFiniteSet(Held(v) \ {s})
        BY <3>2, FS_RemoveElement, Zenon
      <4>2. Cardinality(Held(v) \ {s}) \in Nat
        BY <4>1, FS_CardinalityType, Zenon
      <4>3. Cardinality(Held(v) \ {s}) = count[v] - 1
        BY <2>1, <3>1, <4>1
      <4>4. QED
        BY <2>1, <3>1, <3>2, <4>2, <4>3
    <3>4. count'[v] = (count[v] + CountRange - 1) % CountRange /\ count[v] \in 0 .. CountRange - 1
      BY <1>3, <1>8, <2>3
    <3>5. count'[v] = Cardinality(Held(v)')
      BY <3>3, <3>4, CountsOn
    <3>6. pairs'[v] = T!Unlinked(u, k)
      BY <1>5, <1>8, <2>3
    <3>7. ASSUME NEW t \in Held(v)'
          PROVE  \E i \in 1 .. Len(pairs'[v]) : pairs'[v][i] = PairOfSink(t)
      <4>1. t # s /\ t \in Held(v)
        BY <3>1, <3>7
      <4>2. PICK j \in 1 .. Len(pairs[v]) : pairs[v][j] = PairOfSink(t)
        BY <2>1, <4>1
      <4>3. j # k
        BY <1>5, <2>3, <4>1, <4>2 DEF PairOfSink
      <4>4. QED
        BY <1>9, <2>3, <3>6, <4>2, <4>3
    <3>8. QED
      BY <3>5, <3>7
  <2>4. QED
    BY <2>2, <2>3
<1>14. QED
  BY <1>1, <1>3, <1>4, <1>7, <1>10, <1>13, TalkerStepKeeps DEF TxTypes, TxCommandTypes, TxResponseTypes

-----------------------------------------------------------------------------
(* The invariant.                                                          *)

\* At the start nothing is bound, listed, armed or on its way.
LEMMA InitNetInv == CarefulNetwork /\ Init => NetInv
<1> SUFFICES ASSUME CarefulNetwork, Init PROVE NetInv
  OBVIOUS
<1>1. /\ infos = [s \in L!Sinks |-> L!Unconnected(s)]
      /\ inflight = [i \in L!TableSlots |-> NoCommand]
      /\ pairs = [u \in T!Sources |-> <<>>]
      /\ dangling = [u \in T!Sources |-> FALSE]
      /\ count = [u \in T!Sources |-> 0]
      /\ monitor = "running"
      /\ net = {} /\ connections = {}
      /\ request = [c \in Controllers |-> NoRequest]
      /\ sequence = FirstId
  BY DEF Init, L!Init, T!Init
<1>2. \A s \in L!Sinks : ~infos[s].connected /\ infos[s].listener_unique_id = s
  BY <1>1 DEF L!Unconnected
<1>3. \A i \in L!TableSlots : ~L!Armed(i)
  BY <1>1 DEF L!Armed
<1>4. NetTypeOK
  <2>1. ASSUME NEW s \in L!Sinks PROVE L!Unconnected(s) \in L!StreamInfos
    BY StationsAssumption DEF L!Unconnected, L!StreamInfos
  <2>2. infos \in [L!Sinks -> L!StreamInfos]
    BY <1>1, <2>1
  <2>3. <<>> \in Seq(T!Pairs) /\ 0 \in 0 .. CountRange - 1
    BY StationsAssumption
  <2>4. /\ pairs \in [T!Sources -> Seq(T!Pairs)] /\ dangling \in [T!Sources -> BOOLEAN]
        /\ count \in [T!Sources -> 0 .. CountRange - 1]
    BY <1>1, <2>3
  <2>5. sequence \in [Controllers -> Nat] /\ \A c \in Controllers : FirstId[c] <= sequence[c]
    BY <1>1, NetworkAssumption
  <2>6. QED
    BY <1>1, <2>2, <2>4, <2>5 DEF NetTypeOK
<1>5. RequestsOwn /\ FramesStand /\ OneFrame /\ OneStream
  BY <1>1 DEF RequestsOwn, FramesStand, OneFrame, OneStream
<1>6. ArmedStand
  BY <1>1, <1>3 DEF ArmedStand, ArmedFor
<1>7. \A u, s, type : ~InTransit(type, s) /\ ~InTransitFor(type, u, s)
  BY <1>1 DEF InTransit, InTransitFor
<1>8. \A u, s : s \in L!Sinks => ~Bound(u, s)
  BY <1>2 DEF Bound
<1>9. BoundIsKnown
  BY <1>1, <1>7, <1>8 DEF BoundIsKnown
<1>10. SlotsOwn
  BY <1>2 DEF SlotsOwn
<1>11. HeldIsListed
  <2>1. \A u : Held(u) = {}
    BY <1>7, <1>8 DEF Held
  <2>2. \A u : Cardinality(Held(u)) = 0
    BY <2>1, FS_EmptySet
  <2>3. QED
    BY <1>1, <2>1, <2>2 DEF HeldIsListed
<1>12. QED
  BY <1>4, <1>5, <1>6, <1>9, <1>10, <1>11 DEF NetInv

\* Whatever frame the listener takes,
LEMMA ListenerReceivesKeeps ==
    ASSUME CarefulNetwork, NetInv, NEW m \in net, ListenerReceives(m)
    PROVE  NetInv'
<1>1. m.message_type \in ConnectTypes \cup DisconnectTypes
  BY FrameFacts DEF FrameOf
<1>2. m.message_type \in {"CONNECT_RX_COMMAND", "DISCONNECT_RX_COMMAND",
                          "CONNECT_TX_RESPONSE", "DISCONNECT_TX_RESPONSE"}
  BY <1>1 DEF ConnectTypes, DisconnectTypes, ListenerReceives, L!Receive, L!ConnectRxCommand,
     L!ConnectTxResponse, L!GetRxState, L!DisconnectRxCommand, L!DisconnectTxResponse
<1>3. QED
  BY <1>2, ListenerCommandKeeps, ListenerConnectKeeps, ListenerDisconnectKeeps

\* and whatever frame the talker takes,
LEMMA TalkerReceivesKeeps ==
    ASSUME CarefulNetwork, NetInv, NEW m \in net, TalkerReceives(m)
    PROVE  NetInv'
<1>1. m.message_type \in ConnectTypes \cup DisconnectTypes
  BY FrameFacts DEF FrameOf
<1>2. m.message_type \in TxCommandTypes
  BY <1>1 DEF ConnectTypes, DisconnectTypes, TxCommandTypes, TalkerReceives, T!Receive,
     T!ConnectTxCommand, T!DisconnectTxCommand, T!GetTxState, T!GetTxConnection
<1>3. QED
  BY <1>2, TalkerConnectKeeps, TalkerLostKeeps, TalkerDisconnectKeeps DEF TxCommandTypes

\* every step of the network keeps the invariant.
LEMMA NextNetInv == CarefulNetwork /\ NetInv /\ [Next]_vars => NetInv'
<1> SUFFICES ASSUME CarefulNetwork, NetInv, [Next]_vars PROVE NetInv'
  OBVIOUS
<1>1. ASSUME NEW c \in Controllers, NEW u \in TalkerUids, NEW s \in SinksOf[c],
             ControllerConnects(c, u, s)
      PROVE  NetInv'
  BY <1>1, IssueKeeps DEF ControllerConnects, CarefulNetwork
<1>2. ASSUME NEW c \in Controllers, NEW u \in TalkerUids, NEW s \in SinksOf[c],
             ControllerDisconnects(c, u, s)
      PROVE  NetInv'
  BY <1>2, IssueKeeps DEF ControllerDisconnects
<1>3. ASSUME NEW m \in net, ControllerReceives(m) \/ ListenerReceives(m) \/ TalkerReceives(m)
      PROVE  NetInv'
  BY <1>3, ControllerReceivesKeeps, ListenerReceivesKeeps, TalkerReceivesKeeps
<1>4. ~ListenerTimesOut /\ \A m : ~Lose(m)
  BY DEF ListenerTimesOut, Lose, CarefulNetwork
<1>5. CASE UNCHANGED vars
  <2>1. /\ UNCHANGED <<infos, inflight, pairs, dangling, count, monitor, net>>
        /\ UNCHANGED <<request, sequence, connections>>
    BY <1>5 DEF vars, listenerVars, talkerVars, controllerVars
  <2>2. NetTypeOK' /\ RequestsOwn' /\ OneStream' /\ SlotsOwn' /\ FramesStand' /\ OneFrame'
    BY <2>1 DEF NetInv, NetTypeOK, RequestsOwn, OneStream, SlotsOwn, FramesStand, FrameOf, OneFrame
  <2>3. ArmedStand'
    BY <2>1 DEF NetInv, ArmedStand, ArmedFor, CommandOf, L!Armed
  <2>4. BoundIsKnown'
    <3>1. \A v, t : /\ InTransit("DISCONNECT_RX_RESPONSE", t)' <=> InTransit("DISCONNECT_RX_RESPONSE", t)
                    /\ InTransitFor("CONNECT_RX_RESPONSE", v, t)' <=> InTransitFor("CONNECT_RX_RESPONSE", v, t)
                    /\ Bound(v, t)' <=> Bound(v, t)
      BY <2>1 DEF InTransit, InTransitFor, Bound
    <3>2. QED
      BY <2>1, <3>1 DEF NetInv, BoundIsKnown
  <2>5. \A u : Held(u)' = Held(u)
    BY <2>1 DEF Held, Bound, InTransit, InTransitFor
  <2>6. HeldIsListed'
    BY <2>1, <2>5, HeldStays
  <2>7. QED
    BY <2>2, <2>3, <2>4, <2>6 DEF NetInv
<1>6. QED
  BY <1>1, <1>2, <1>3, <1>4, <1>5 DEF Next
-----------------------------------------------------------------------------
(* The theorems.                                                           *)

\* The stages of the outstanding commands, the listener's table and bindings and
\* the talker's lists and counts hang together at every moment, for every number
\* of controllers, sinks and sources.
THEOREM NetInvariance == ASSUME CarefulNetwork PROVE Spec => []NetInv
<1>1. Init => NetInv
  BY InitNetInv
<1>2. NetInv /\ [Next]_vars => NetInv'
  BY NextNetInv
<1>3. QED
  BY <1>1, <1>2, PTL DEF Spec

\* In a quiet network the talker's list and count are the listener's bindings.
LEMMA QuietAgreement ==
    ASSUME CarefulNetwork, NetInv
    PROVE  StationsAgree /\ BoundIsListed
<1> SUFFICES ASSUME Quiet PROVE StationsAgree /\ BoundIsListed
  BY DEF StationsAgree, BoundIsListed
<1>1. net = {} /\ monitor = "running"
  BY DEF Quiet
<1>2. \A type, s, u : ~InTransit(type, s) /\ ~InTransitFor(type, u, s)
  BY <1>1 DEF InTransit, InTransitFor
<1>3. \A u \in T!Sources : Held(u) = SinksBoundTo(u)
  BY <1>2 DEF Held, SinksBoundTo, Bound
<1>4. \A u \in T!Sources, s \in L!Sinks : Bound(u, s) <=> <<u, s>> \in connections
  BY <1>2 DEF NetInv, BoundIsKnown
<1>5. /\ connections \subseteq T!Sources \X L!Sinks
      /\ L!Sinks \subseteq ListenerUids
  BY StationsAssumption DEF NetInv, NetTypeOK
<1>6. \A u \in T!Sources : SinksBoundTo(u) = {s \in ListenerUids : <<u, s>> \in connections}
  BY <1>4, <1>5 DEF SinksBoundTo, Bound
<1>7. StationsAgree
  BY <1>1, <1>3, <1>6 DEF StationsAgree, NetInv, HeldIsListed
<1>8. BoundIsListed
  <2> SUFFICES ASSUME NEW s \in L!Sinks, infos[s].connected
               PROVE  \E k \in DOMAIN pairs[infos[s].talker_unique_id] :
                        pairs[infos[s].talker_unique_id][k].listener_unique_id = s
    BY DEF BoundIsListed
  <2> DEFINE u == infos[s].talker_unique_id
  <2>1. u \in T!Sources
    BY DEF NetInv, NetTypeOK, L!StreamInfos, CarefulNetwork
  <2>2. s \in Held(u)
    BY <1>2 DEF Held, Bound
  <2>3. PICK k \in 1 .. Len(pairs[u]) : pairs[u][k] = PairOfSink(s)
    BY <1>1, <2>1, <2>2 DEF NetInv, HeldIsListed
  <2>4. pairs[u] \in Seq(T!Pairs)
    BY <2>1 DEF NetInv, NetTypeOK
  <2>5. k \in DOMAIN pairs[u] /\ pairs[u][k].listener_unique_id = s
    BY <2>3, <2>4 DEF PairOfSink
  <2>6. QED
    BY <2>5
<1>9. QED
  BY <1>7, <1>8

\* handle_connect_rx_command ... handle_disconnect_tx_response between careful
\* stations: whenever the network is quiet the sinks the listener has bound are
\* those the controllers connected, and the talker's connection_count is their
\* number.
THEOREM StationsStayAgreed == ASSUME CarefulNetwork PROVE Spec => []StationsAgree
<1>1. NetInv => StationsAgree
  BY QuietAgreement
<1>2. QED
  BY <1>1, NetInvariance, PTL

\* Whenever the network is quiet, a bound sink is in the list of its talker: no
\* other sink's removal by acmp_remove_talker_stream_info took it along.
THEOREM BoundStaysListed == ASSUME CarefulNetwork PROVE Spec => []BoundIsListed
<1>1. NetInv => BoundIsListed
  BY QuietAgreement
<1>2. QED
  BY <1>1, NetInvariance, PTL

=============================================================================
