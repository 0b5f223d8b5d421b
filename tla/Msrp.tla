-------------------------------- MODULE Msrp --------------------------------
(***************************************************************************)
(* The MSRP client library lib/msrp: one context, its monitor thread and   *)
(* the mrpd daemon it talks to.                                            *)
(*                                                                         *)
(* mrpd is external.  It notifies its clients of the declarations of the   *)
(* stations on the network, one datagram each, and answers a query with    *)
(* the declarations it knows, in a datagram each or all in one.  The       *)
(* datagrams to a client arrive in order; those that find its socket       *)
(* buffer full are lost.                                                   *)
(*                                                                         *)
(* The monitor thread handles one datagram in one step: the application    *)
(* reads only one word of what a datagram changes, listeners or            *)
(* talker_found, which no step writes twice.                               *)
(***************************************************************************)
EXTENDS Integers, Sequences, FiniteSets, Functions, LinearSearch

CONSTANTS
    Registrars,     \* the MAC addresses of the stations that declare listeners
    NoDevice,       \* content of an entry of devices that is not attached
    Mine, Other,    \* ctx->prop->streamid, and any other stream id
    MaxStreams,     \* MSRP_MAX_STREAMS
    SocketBuffer,   \* the datagrams the client's socket can hold
    Declared        \* what a station may declare, of Declarations

\* enum mrpdhelper_listener_declaration_type, and those above asking_failed
Declarations == {"ignore", "asking_failed", "ready", "ready_failed"}
Ready == {"ready", "ready_failed"}

ASSUME MsrpAssumption ==
    /\ IsFiniteSet(Registrars)
    /\ NoDevice \notin Registrars
    /\ Mine # Other
    /\ MaxStreams \in Nat
    /\ SocketBuffer \in Nat
    /\ Declared \subseteq Declarations

Slots == 1 .. MaxStreams

\* struct mrpdhelper_notify, read from the first declaration of a datagram:
\* notify is "null" in the answers to a query.  `more` says that another
\* declaration follows in the datagram.
ListenerNotes == [attrib : {"listener"}, notify : {"null", "new", "join", "leave"},
                  id : {Mine, Other}, registrar : Registrars, substate : Declarations,
                  more : BOOLEAN]

TalkerNotes == [attrib : {"talker"}, notify : {"null", "new", "join", "leave"},
                id : {Mine, Other}, more : BOOLEAN]

VARIABLES
    devices,        \* the table of listeners
    listeners,      \* their number, which the application polls
    talker_found,   \* polled by a listener application
    halt_flag,      \* set by msrp_ctx_destroy
    thread,         \* the monitor thread: "running", "halted" on halt_flag, or
                    \* "failed" on an error of recv or calloc
    inbox,          \* the datagrams in the client's socket
    known,          \* mrpd knows the client: it has sent a first message
    queried,        \* an S?? has not been answered yet
    declared,       \* per registrar: its declaration for stream Mine, or "none"
    talker,         \* a talker is declared for stream Mine
    heard,          \* the stations whose last notification about stream Mine
                    \* reached the socket
    complete,       \* the last answer to a query was not lost, nor anything after
    dropped         \* some datagram has been lost

clientVars == <<devices, listeners, talker_found>>
threadVars == <<halt_flag, thread>>
linkVars == <<inbox, known, queried, complete, dropped>>
stationVars == <<declared, talker, heard>>
vars == <<clientVars, threadVars, linkVars, stationVars>>

Init ==
    /\ devices = [i \in Slots |-> NoDevice]
    /\ listeners = 0
    /\ talker_found = FALSE
    /\ halt_flag = FALSE
    /\ thread = "running"
    /\ inbox = <<>>
    /\ known = FALSE
    /\ queried = FALSE
    /\ declared \in [Registrars -> Declared \cup {"none"}]
    /\ talker \in BOOLEAN
    /\ heard = {}
    /\ complete = FALSE
    /\ dropped = FALSE

-----------------------------------------------------------------------------
(* The monitor thread.                                                     *)

SlotsOf(r) == {i \in Slots : devices[i] = r}

FreeSlots == {i \in Slots : devices[i] = NoDevice}

AddableTwice(n) == n.id = Mine /\ FreeSlots # {}

AddableOfAnyStream(n) == SlotsOf(n.registrar) = {} /\ FreeSlots # {}

\* monitor_listener_add accepts a listener of the context's stream that is not
\* in the table yet, while there is room.
Addable(n) ==
    /\ n.id = Mine
    /\ SlotsOf(n.registrar) = {}
    /\ FreeSlots # {}

RemovableOfOtherStream(n) == SlotsOf(n.registrar) # {}

Removable(n) == n.id = Mine /\ SlotsOf(n.registrar) # {}

Add(n) ==
    /\ devices' = [devices EXCEPT ![First(FreeSlots)] = n.registrar]
    /\ listeners' = listeners + 1

RemoveKeepingEntry(n) ==
    /\ UNCHANGED devices
    /\ listeners' = listeners - 1

Remove(n) ==
    /\ devices' = [devices EXCEPT ![First(SlotsOf(n.registrar))] = NoDevice]
    /\ listeners' = listeners - 1

\* parse_msrp_query looks for the state of a declaration behind the next "R=",
\* which is that of a second declaration: msg_process drops an answer that has
\* but one.
Parsed(n) == n.notify # "null" \/ n.more

\* A listener whose declaration falls to asking_failed stays in the table.
ListenerAttribute(n) ==
    /\ n.attrib = "listener"
    /\ \/ /\ n.notify = "leave"
          /\ Removable(n)
          /\ Remove(n)
       \/ /\ n.notify = "leave"
          /\ ~Removable(n)
          /\ UNCHANGED <<devices, listeners>>
       \/ /\ n.notify # "leave"
          /\ n.substate \in Ready
          /\ Addable(n)
          /\ Add(n)
       \/ /\ n.notify # "leave"
          /\ n.substate \notin Ready \/ ~Addable(n)
          /\ UNCHANGED <<devices, listeners>>
    /\ UNCHANGED talker_found

\* talker_found is never reset, and the answer to a query does not set it.
TalkerAttribute(n) ==
    /\ n.attrib = "talker"
    /\ talker_found' = (talker_found \/ (n.notify \in {"new", "join"} /\ n.id = Mine))
    /\ UNCHANGED <<devices, listeners>>

\* The loop of msrp_monitor_thread looks at halt_flag after each recv ...
AfterRecv == thread' = IF halt_flag THEN "halted" ELSE "running"

Receive ==
    /\ thread = "running"
    /\ inbox # <<>>
    /\ \/ ~Parsed(Head(inbox)) /\ UNCHANGED clientVars
       \/ Parsed(Head(inbox)) /\ ListenerAttribute(Head(inbox))
       \/ Parsed(Head(inbox)) /\ TalkerAttribute(Head(inbox))
    /\ inbox' = Tail(inbox)
    /\ AfterRecv
    /\ UNCHANGED <<halt_flag, known, queried, complete, dropped, stationVars>>

\* ... which gives up after its timeout when no datagram comes.
RecvTimeout ==
    /\ thread = "running"
    /\ inbox = <<>>
    /\ halt_flag
    /\ AfterRecv
    /\ UNCHANGED <<halt_flag, clientVars, linkVars, stationVars>>

RecvFails ==
    /\ thread = "running"
    /\ thread' = "failed"
    /\ UNCHANGED <<halt_flag, clientVars, linkVars, stationVars>>

-----------------------------------------------------------------------------
(* The calls of the application.                                           *)

\* Any message but a query: advertise, ready, leave, join a VLAN, ...
Send ==
    /\ known' = TRUE
    /\ UNCHANGED <<clientVars, threadVars, inbox, queried, complete, dropped, stationVars>>

\* msrp_query_database
Query ==
    /\ known' = TRUE
    /\ queried' = TRUE
    /\ UNCHANGED <<clientVars, threadVars, inbox, complete, dropped, stationVars>>

\* msrp_ctx_destroy, up to the pthread_join
Halt ==
    /\ halt_flag' = TRUE
    /\ UNCHANGED <<clientVars, thread, linkVars, stationVars>>

-----------------------------------------------------------------------------
(* mrpd and the stations.                                                  *)

Fits(notes) == Len(inbox) + Len(notes) <= SocketBuffer

\* mrpd sends datagrams: those that do not fit are lost.
Deliver(notes) ==
    IF Fits(notes)
    THEN inbox' = inbox \o notes /\ UNCHANGED dropped
    ELSE inbox' = SubSeq(inbox \o notes, 1, SocketBuffer) /\ dropped' = TRUE

Notify(note) ==
    IF known
    THEN Deliver(<<note>>) /\ complete' = (complete /\ Fits(<<note>>))
    ELSE UNCHANGED <<inbox, complete, dropped>>

ListenerNote(notify, id, r, d) ==
    [attrib |-> "listener", notify |-> notify, id |-> id, registrar |-> r, substate |-> d,
     more |-> FALSE]

TalkerNote(notify) == [attrib |-> "talker", notify |-> notify, id |-> Mine, more |-> FALSE]

\* The history of what reached the socket about r.
Hear(r, note) == heard' = IF known /\ Fits(<<note>>) THEN heard \cup {r} ELSE heard \ {r}

\* A station declares a listener, changes its declaration or repeats it.
ListenerDeclares(r, d) ==
    /\ declared' = [declared EXCEPT ![r] = d]
    /\ LET note == ListenerNote(IF declared[r] = "none" THEN "new" ELSE "join", Mine, r, d)
       IN  Notify(note) /\ Hear(r, note)
    /\ UNCHANGED <<clientVars, threadVars, known, queried, talker>>

ListenerLeaves(r) ==
    /\ declared[r] # "none"
    /\ declared' = [declared EXCEPT ![r] = "none"]
    /\ LET note == ListenerNote("leave", Mine, r, declared[r])
       IN  Notify(note) /\ Hear(r, note)
    /\ UNCHANGED <<clientVars, threadVars, known, queried, talker>>

\* The same happens for other streams of the same stations.
OtherStream(r, notify) ==
    /\ Notify(ListenerNote(notify, Other, r, "ready"))
    /\ UNCHANGED <<clientVars, threadVars, known, queried, stationVars>>

TalkerDeclares ==
    /\ talker' = TRUE
    /\ Notify(TalkerNote(IF talker THEN "join" ELSE "new"))
    /\ UNCHANGED <<clientVars, threadVars, known, queried, declared, heard>>

TalkerLeaves ==
    /\ talker
    /\ talker' = FALSE
    /\ Notify(TalkerNote("leave"))
    /\ UNCHANGED <<clientVars, threadVars, known, queried, declared, heard>>

\* The answers to a query.
Answers ==
    {ListenerNote("null", Mine, r, declared[r]) : r \in {s \in Registrars : declared[s] # "none"}}
        \cup (IF talker THEN {TalkerNote("null")} ELSE {})

Orders(S) == {s \in [1 .. Cardinality(S) -> S] : Range(s) = S}

\* The answers in any order, or one datagram that opens with any of them.
AnswerDatagrams == Orders(Answers) \cup {<<[a EXCEPT !.more = TRUE]>> : a \in Answers}

MrpdAnswers ==
    /\ queried
    /\ queried' = FALSE
    /\ \E notes \in AnswerDatagrams : Deliver(notes) /\ complete' = Fits(notes)
    /\ UNCHANGED <<clientVars, threadVars, known, stationVars>>

Stations ==
    \/ \E r \in Registrars :
          \/ \E d \in Declared : ListenerDeclares(r, d)
          \/ ListenerLeaves(r)
          \/ \E notify \in {"join", "leave"} : OtherStream(r, notify)
    \/ TalkerDeclares
    \/ TalkerLeaves

Next ==
    \/ Receive
    \/ RecvTimeout
    \/ RecvFails
    \/ Send
    \/ Query
    \/ Halt
    \/ MrpdAnswers
    \/ Stations

Spec == Init /\ [][Next]_vars

-----------------------------------------------------------------------------
(* Properties.                                                             *)

\* Type correctness of the context and of the datagrams.
TypeOK ==
    /\ devices \in [Slots -> Registrars \cup {NoDevice}]
    /\ listeners \in 0 .. MaxStreams
    /\ talker_found \in BOOLEAN
    /\ halt_flag \in BOOLEAN
    /\ thread \in {"running", "halted", "failed"}
    /\ inbox \in Seq(ListenerNotes \cup TalkerNotes)
    /\ Len(inbox) <= SocketBuffer
    /\ known \in BOOLEAN
    /\ queried \in BOOLEAN
    /\ declared \in [Registrars -> Declared \cup {"none"}]
    /\ talker \in BOOLEAN
    /\ heard \subseteq Registrars
    /\ complete \in BOOLEAN
    /\ dropped \in BOOLEAN

\* The counter that starts and stops the stream is the number of stations in
\* the table, none of them twice, whatever is repeated, lost or of another
\* stream.
CountsStations ==
    /\ \A i, j \in Slots : devices[i] = devices[j] /\ devices[i] # NoDevice => i = j
    /\ listeners = Cardinality({r \in Registrars : SlotsOf(r) # {}})

\* No station is kept for ever: if no datagram was ever lost, a station in the
\* table is still declared or its leave is on the way.
NobodyKept ==
    ~dropped =>
        \A r \in Registrars :
            SlotsOf(r) # {} /\ inbox = <<>> => declared[r] # "none"

\* No listener is missed while MSRP_MAX_STREAMS suffices for all stations: a
\* station whose last notification reached the socket is in the table once the
\* socket is read, if it is ready, whatever was lost before and whatever else
\* mrpd sends: repetitions, answers to queries, notifications about other
\* streams and other stations.
NobodyMissed ==
    /\ inbox = <<>>
    /\ Cardinality(Registrars) <= MaxStreams
    => \A r \in heard : declared[r] \in Ready => SlotsOf(r) # {}

\* talker_attribute_process, "[MRP] talker new/join/query": once a query has
\* been answered and the socket read, a declared talker is found.  (It is not:
\* the parser drops the answer, or hands it on as neither new nor join.)
QueryFindsTalker ==
    complete /\ inbox = <<>> /\ thread = "running" /\ talker => talker_found

=============================================================================
