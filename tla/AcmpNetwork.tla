---------------------------- MODULE AcmpNetwork ----------------------------
(***************************************************************************)
(* Controllers, one listener and one talker of lib/avdecc on a common       *)
(* network: the composition of AcmpListener and AcmpTalker.                *)
(*                                                                         *)
(* Every ACMP frame is multicast and a frame in transit is kept until the  *)
(* one state machine that reads it takes it or, in a lossy network, until  *)
(* it is lost.  Frames arrive in any order.  Equal frames in transit are   *)
(* one element of net: that the network holds the second copy back until   *)
(* the first is read is one of its delays.                                 *)
(*                                                                         *)
(* The controllers are external.  Each has one command outstanding at a    *)
(* time, waits for the listener's answer, keeps to sinks of its own,       *)
(* connects only those it has not connected and disconnects only streams   *)
(* it has.  If AsksFirst it also asks GET_RX_STATE for a sink before it    *)
(* connects it, and leaves one alone that is answered                      *)
(* LISTENER_MISBEHAVING: the most careful clients acmp.c can hope for.     *)
(***************************************************************************)
EXTENDS Naturals, FiniteSets

CONSTANTS
    Controllers, Talker, Listener,  \* the entity ids
    NoEntity,
    TalkerUids, ListenerUids,       \* unique ids that occur in frames
    FirstId, LastId,    \* per controller: the sequence ids of its commands
    SinksOf,            \* per controller: the unique ids of the sinks it manages
    NumSinks, NumSources,
    MaxInflight, NoCommand, MaxPairs, CountRange,
    Lossy,                          \* TX frames may get lost or come too late
    AsksFirst,                      \* the controller connects only sinks with a slot
    NoRequest

VARIABLES
    infos, inflight, listenerTx,                \* the listener
    pairs, dangling, count, monitor, talkerTx,  \* the talker
    net,            \* the frames in transit
    request,        \* per controller: its outstanding command, or NoRequest
    sequence,       \* per controller: the sequence id of its next command
    connections     \* the <<source, sink>> pairs the controllers have connected

SequenceIds == UNION {FirstId[c] .. LastId[c] : c \in Controllers}

L == INSTANCE AcmpListener WITH
    Talkers <- {Talker}, Listeners <- {Listener},
    Me <- Listener, Inputs <- {}, tx <- listenerTx

T == INSTANCE AcmpTalker WITH
    Talkers <- {Talker}, Listeners <- {Listener},
    Me <- Talker, Inputs <- {}, tx <- talkerTx, Allocations <- {TRUE}

\* The assumptions of AcmpTypes, AcmpListener and AcmpTalker on the constants
\* they are given here.
ASSUME StationsAssumption ==
    /\ TalkerUids \subseteq Nat
    /\ ListenerUids \subseteq Nat
    /\ NoEntity # Talker
    /\ NumSinks \in Nat
    /\ NumSources \in Nat
    /\ L!Sinks \subseteq ListenerUids
    /\ T!Sources \subseteq TalkerUids
    /\ 0 \in ListenerUids
    /\ 0 \in TalkerUids
    /\ MaxInflight \in Nat
    /\ NoCommand \notin L!InflightCommands
    /\ MaxPairs \in Nat
    /\ CountRange \in Nat /\ 3 <= CountRange /\ CountRange <= 65536

ASSUME NetworkAssumption ==
    /\ FirstId \in [Controllers -> Nat]
    /\ LastId \in [Controllers -> Nat]
    /\ SinksOf \in [Controllers -> SUBSET ListenerUids]
    /\ \A c, d \in Controllers : c # d => SinksOf[c] \cap SinksOf[d] = {}
    /\ Lossy \in BOOLEAN
    /\ AsksFirst \in BOOLEAN
    /\ NoRequest \notin L!Messages

\* What the agreement of the stations rests on.  No frame is lost; the controllers
\* ask for the slot first and number their commands apart; they name only sources
\* the talker has, since the answer TALKER_UNKNOWN_ID leaves the command in the
\* listener's table until a timeout, which this network lacks; the table has room
\* for a command of each controller, and the talker's count for all sinks.
CarefulNetwork ==
    /\ ~Lossy
    /\ AsksFirst
    /\ \A c, d \in Controllers :
          c # d => (FirstId[c] .. LastId[c]) \cap (FirstId[d] .. LastId[d]) = {}
    /\ TalkerUids = T!Sources
    /\ IsFiniteSet(Controllers)
    /\ Cardinality(Controllers) <= MaxInflight
    /\ NumSinks < CountRange

listenerVars == <<infos, inflight, listenerTx>>
talkerVars == <<pairs, dangling, count, monitor, talkerTx>>
controllerVars == <<request, sequence, connections>>
vars == <<listenerVars, talkerVars, net, controllerVars>>

Init ==
    /\ L!Init
    /\ T!Init
    /\ net = {}
    /\ request = [c \in Controllers |-> NoRequest]
    /\ sequence = FirstId
    /\ connections = {}

-----------------------------------------------------------------------------
(* The controllers.                                                        *)

Command(c, type, source, sink) ==
    [message_type |-> type, status |-> "SUCCESS", controller |-> c,
     talker |-> Talker, talker_unique_id |-> source,
     listener |-> Listener, listener_unique_id |-> sink,
     connection_count |-> 0, sequence_id |-> sequence[c]]

Issue(c, command) ==
    /\ request[c] = NoRequest
    /\ sequence[c] <= LastId[c]
    /\ request' = [request EXCEPT ![c] = command]
    /\ net' = net \cup {command}
    /\ sequence' = [sequence EXCEPT ![c] = @ + 1]
    /\ UNCHANGED <<listenerVars, talkerVars, connections>>

ControllerConnects(c, source, sink) ==
    /\ \A stream \in connections : stream[2] # sink
    /\ AsksFirst => L!Found(sink)
    /\ Issue(c, Command(c, "CONNECT_RX_COMMAND", source, sink))

ControllerDisconnects(c, source, sink) ==
    /\ <<source, sink>> \in connections
    /\ Issue(c, Command(c, "DISCONNECT_RX_COMMAND", source, sink))

IsAnswer(r, command) ==
    /\ r.sequence_id = command.sequence_id
    /\ \/ /\ command.message_type = "CONNECT_RX_COMMAND"
          /\ r.message_type = "CONNECT_RX_RESPONSE"
       \/ /\ command.message_type = "DISCONNECT_RX_COMMAND"
          /\ r.message_type = "DISCONNECT_RX_RESPONSE"

\* The connections a controller believes in after an answer.
Believed(r) ==
    LET stream == <<r.talker_unique_id, r.listener_unique_id>>
    IN  IF r.status # "SUCCESS" THEN connections
        ELSE IF r.message_type = "CONNECT_RX_RESPONSE" THEN connections \cup {stream}
        ELSE connections \ {stream}

\* A controller reads a frame to it: the answer it waits for, or a late one.
ControllerReceives(r) ==
    LET c == r.controller IN
    /\ r.message_type \in {"CONNECT_RX_RESPONSE", "DISCONNECT_RX_RESPONSE"}
    /\ net' = net \ {r}
    /\ IF request[c] # NoRequest /\ IsAnswer(r, request[c])
       THEN /\ request' = [request EXCEPT ![c] = NoRequest]
            /\ connections' = Believed(r)
       ELSE UNCHANGED <<request, connections>>
    /\ UNCHANGED <<listenerVars, talkerVars, sequence>>

-----------------------------------------------------------------------------
(* The listener and the talker.                                            *)

ListenerReceives(m) ==
    /\ L!Receive(m)
    /\ net' = (net \ {m}) \cup listenerTx'
    /\ UNCHANGED <<talkerVars, controllerVars>>

TalkerReceives(m) ==
    /\ T!Receive(m)
    /\ net' = (net \ {m}) \cup talkerTx'
    /\ UNCHANGED <<listenerVars, controllerVars>>

\* The timeouts expire: in a network that loses nothing no answer takes so long.
ListenerTimesOut ==
    /\ Lossy
    /\ L!StatePass
    /\ net' = net \cup listenerTx'
    /\ UNCHANGED <<talkerVars, controllerVars>>

\* The frames between the listener and the talker may get lost.
Lose(m) ==
    /\ Lossy
    /\ m.message_type \in {"CONNECT_TX_COMMAND", "DISCONNECT_TX_COMMAND",
                           "CONNECT_TX_RESPONSE", "DISCONNECT_TX_RESPONSE"}
    /\ net' = net \ {m}
    /\ UNCHANGED <<listenerVars, talkerVars, controllerVars>>

Next ==
    \/ \E c \in Controllers, source \in TalkerUids : \E sink \in SinksOf[c] :
            ControllerConnects(c, source, sink) \/ ControllerDisconnects(c, source, sink)
    \/ \E m \in net : ControllerReceives(m) \/ ListenerReceives(m) \/ TalkerReceives(m) \/ Lose(m)
    \/ ListenerTimesOut

\* The stations read their sockets, and the listener's clock runs: frames to
\* the listener and the controller are read in the end, timeouts expire.
Fairness ==
    /\ WF_vars(\E m \in net : ControllerReceives(m))
    /\ WF_vars(\E m \in net : ListenerReceives(m) /\ m.message_type \in
                   {"CONNECT_RX_COMMAND", "DISCONNECT_RX_COMMAND"})
    /\ WF_vars(ListenerTimesOut)

Spec == Init /\ [][Next]_vars
FairSpec == Spec /\ Fairness

-----------------------------------------------------------------------------
(* Properties.                                                             *)

\* Nobody owes anybody a frame, and the talker is still there.
Quiet == (\A c \in Controllers : request[c] = NoRequest) /\ net = {} /\ monitor = "running"

SinksBoundTo(u) ==
    {s \in L!Sinks : infos[s].connected /\ infos[s].talker_unique_id = u}

\* Where no frame is lost and the controllers are careful, all stations
\* agree whenever the network is quiet: the sinks the listener has bound are
\* those the controller connected, and the talker's connection_count, on which
\* the talker application starts and stops streaming, is their number.
StationsAgree ==
    Quiet =>
        \A u \in T!Sources :
            /\ SinksBoundTo(u) = {s \in ListenerUids : <<u, s>> \in connections}
            /\ count[u] = Cardinality(SinksBoundTo(u))

\* Whenever the network is quiet, a sink is bound only to a stream whose talker
\* has this very sink in its list: the answer that bound it was never made up,
\* stale or another sink's, and no other sink's removal took it along.
BoundIsListed ==
    \A s \in L!Sinks :
        infos[s].connected /\ Quiet =>
            \E k \in DOMAIN pairs[infos[s].talker_unique_id] :
                pairs[infos[s].talker_unique_id][k].listener_unique_id = s

\* A command that reaches a listener whose table has room is answered, whatever
\* becomes of the frames between the listener and the talker, and even when
\* reading them has cost the talker its thread.
RequestAnswered ==
    \A c \in Controllers :
        (request[c] \in net /\ L!FreeSlots # {}) ~> request[c] = NoRequest

\* acmp_ctx_init: "allocate listener stream info and fill unique_id": the slot
\* allocated for a sink goes on answering to its unique id.
SlotsKeepTheirIds == \A s \in L!Sinks : L!Found(s)

=============================================================================
