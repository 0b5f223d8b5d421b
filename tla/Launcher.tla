------------------------------ MODULE Launcher ------------------------------
(***************************************************************************)
(* avblauncher, avblauncher/avblauncher.c: main reads one context for each *)
(* stream, reserves the destination addresses, joins the VLAN and the SRP  *)
(* domains with mrpdummy, runs one streaming_thread for each context,      *)
(* joins the threads and takes everything back.                            *)
(*                                                                         *)
(* A streaming thread starts AVDECC, waits for gPTP and for a connection,  *)
(* has mrpdummy reserve the stream and runs the application.  SIGINT from  *)
(* the terminal reaches the launcher and all its children: in the launcher *)
(* one thread takes it, and the call that thread is in returns EINTR.      *)
(***************************************************************************)
EXTENDS MrpDummy, Integers, Sequences, FiniteSetsExt, SequencesExt

CONSTANTS
    Setups,     \* the contexts the configuration files may describe
    RetryNum,   \* MAAP_DAEMON_RESERVE_RETRY_NUM
    MaapIds     \* the ids maap_daemon gives its reservations

\* A context is waited for by AVDECC only with the clock of gPTP at hand, whose
\* shared memory it reads without a check.
LauncherAssumption ==
    /\ Context = 1..Cardinality(Context) /\ IsFiniteSet(Context)
    /\ Setups \subseteq [Context ->
            [mode : {"talker", "listener"}, use_gptp : BOOLEAN, use_srp : BOOLEAN,
             use_avdecc : BOOLEAN, use_maap : BOOLEAN, srclass : Nat,
             srpriority : Nat, vid : Nat, complete : BOOLEAN]]
    /\ \A s \in Setups, c \in Context : s[c].use_avdecc => s[c].use_gptp
    /\ RetryNum \in Nat \ {0}
    /\ MaapIds \subseteq Nat
ASSUME LauncherAssumption

VARIABLES
    setup,      \* the contexts
    err,        \* err_flag of each
    sigint,
    main,       \* where main is
    maap_socket,
    maap,       \* the reservation maap_daemon has
    maap_id,
    tries,      \* the answers waited for
    c_info,     \* the orders that join the VLAN and the domains
    orders,     \* those main has still to run
    joined,     \* what mrpd may have joined
    refused,    \* the orders to leave that failed
    pc,         \* where each streaming thread is
    app,        \* the application of each
    deaf,       \* history: SIGINT came before it was executed
    avdecc      \* the AVDECC context of each

maapVars == <<maap_socket, maap, maap_id, tries>>
networkVars == <<c_info, orders, joined, refused>>
mainVars == <<main, maapVars, networkVars, err>>
threadVars == <<pc, app, deaf, avdecc>>
vars == <<setup, sigint, mainVars, threadVars, dummyVars>>

Mode(c) == setup[c].mode

Init ==
    /\ setup \in Setups
    /\ err = [c \in Context |-> FALSE]
    /\ sigint = FALSE
    /\ main = "starting"
    /\ maap_socket = FALSE /\ maap = "none" /\ maap_id = 0 /\ tries = 0
    /\ c_info = <<>> /\ orders = <<>> /\ joined = {} /\ refused = {}
    /\ pc = [c \in Context |-> "none"]
    /\ app = [c \in Context |-> "none"]
    /\ deaf = [c \in Context |-> FALSE]
    /\ avdecc = [c \in Context |-> "none"]
    /\ DummyInit

-----------------------------------------------------------------------------
(* main until the threads run *)

\* The daemons are found or started, one that does not open its shared memory or its
\* socket ends the launcher, and the contexts are checked against what is there.
StartUp ==
    /\ main = "starting"
    /\ \/ \E gptp, srp, socket \in BOOLEAN :
            /\ maap_socket' = socket
            /\ err' = [c \in Context |->
                        \/ setup[c].use_gptp /\ ~ gptp
                        \/ setup[c].use_srp /\ ~ srp
                        \/ setup[c].use_maap /\ Mode(c) = "talker" /\ ~ socket
                        \/ ~ setup[c].complete]
            /\ main' = IF \E c \in Context : setup[c].use_maap
                       THEN "asking" ELSE "connecting"
       \/ main' = "failed" /\ UNCHANGED <<maap_socket, err>>
    /\ UNCHANGED <<setup, sigint, maap, maap_id, tries, networkVars, threadVars, dummyVars>>

\* MAAP_CMD_RESERVE and its first answer, which is to be MAAP_NOTIFY_ACQUIRING.
\* Without maap_daemon the command goes to descriptor 0, and fails.
MaapAsks ==
    /\ main = "asking"
    /\ \/ ~ maap_socket /\ main' = "failed" /\ UNCHANGED <<maap, maap_id>>
       \/ /\ maap_socket /\ main' = "failed"
          /\ maap' \in {"none", "asked"} /\ UNCHANGED maap_id
       \/ /\ maap_socket /\ main' = "reserving"
          /\ maap' = "asked" /\ maap_id' \in MaapIds
    /\ UNCHANGED <<setup, sigint, maap_socket, tries, err, networkVars, threadVars, dummyVars>>

\* MAAP_CMD_RELEASE may fail to be sent or be refused, which is not looked at.
Released == {"none", "kept"}

\* Mutant: one answer too many is waited for.
MaapAnswersOnce ==
    /\ main = "reserving"
    /\ \/ maap' = "held" /\ main' = "connecting" /\ UNCHANGED tries
       \/ maap' \in Released /\ main' = "failed" /\ UNCHANGED tries
       \/ /\ tries' = tries + 1
          /\ IF tries' <= RetryNum THEN UNCHANGED <<main, maap>>
             ELSE maap' \in Released /\ main' = "failed"
    /\ UNCHANGED <<setup, sigint, maap_socket, maap_id, err, networkVars, threadVars, dummyVars>>

\* The next answer: acquired; acquired with an error, or of another kind, which ends
\* the wait; still acquiring, or none because recv failed, which is waited out
\* RetryNum times.  What is not acquired is released.
MaapAnswers ==
    /\ main = "reserving"
    /\ \/ maap' = "held" /\ main' = "connecting" /\ UNCHANGED tries
       \/ maap' \in Released /\ main' = "failed" /\ UNCHANGED tries
       \/ /\ tries' = tries + 1
          /\ IF tries' < RetryNum THEN UNCHANGED <<main, maap>>
             ELSE maap' \in Released /\ main' = "failed"
    /\ UNCHANGED <<setup, sigint, maap_socket, maap_id, err, networkVars, threadVars, dummyVars>>

\* The commands to mrpdummy that join, for the contexts without an error that use
\* SRP: the VLAN of the first, its domain, and the domains of those of another class.
\* One of the class of the first with another priority is an error, and ends the list.
JoinVlan(c) == [kind |-> "vlan", value |-> <<setup[c].vid>>]
JoinDomain(c) ==
    [kind |-> "domain", value |-> Registered(setup[c].srclass, setup[c].srpriority)]

\* Contexts in the order of the configuration files.
InOrder(C) ==
    [i \in 1..Cardinality(C) |-> CHOOSE c \in C : Cardinality({d \in C : d < c}) = i - 1]

Connect ==
    LET uses == {c \in Context : ~ err[c] /\ setup[c].use_srp}
        head == Min(uses)
        alike(c) == setup[c].srclass = setup[head].srclass
        wrong == {c \in uses : alike(c) /\ setup[c].srpriority # setup[head].srpriority}
        listed == {c \in uses : ~ alike(c) /\ \A w \in wrong : c < w}
        domains == InOrder({head} \cup listed)
    IN  /\ main = "connecting"
        /\ c_info' = IF uses = {} THEN <<>>
                     ELSE <<JoinVlan(head)>> \o [i \in DOMAIN domains |-> JoinDomain(domains[i])]
        /\ err' = [c \in Context |-> err[c] \/ (uses # {} /\ wrong # {} /\ c = Min(wrong))]
        /\ orders' = c_info'
        /\ main' = "joining"
        /\ UNCHANGED <<setup, sigint, maapVars, joined, refused, threadVars, dummyVars>>

\* One command.  Whether it fails is not looked at.
Join ==
    /\ main = "joining" /\ orders # <<>>
    /\ orders' = Tail(orders)
    /\ joined' = joined \cup {Head(orders)}
    /\ UNCHANGED <<setup, sigint, main, maapVars, c_info, refused, err, threadVars, dummyVars>>
-----------------------------------------------------------------------------
(* streaming_thread *)

Stages == <<"created", "avdecc", "gptp", "manage", "listener_app", "reserve",
            "talker_app", "wait_app", "release", "terminate", "done">>

HasStage(c, s) ==
    CASE s \in {"avdecc", "manage", "terminate"} -> setup[c].use_avdecc
      [] s = "gptp" -> setup[c].use_gptp
      [] s = "listener_app" -> Mode(c) = "listener"
      [] s = "talker_app" -> Mode(c) = "talker"
      [] s \in {"reserve", "release"} -> setup[c].use_srp
      [] OTHER -> TRUE

\* The next stage of the thread of a context; "bailed" is its exit by the label end.
After(c, s) ==
    LET n == CHOOSE i \in DOMAIN Stages : Stages[i] = s
    IN  Stages[Min({i \in (n + 1)..Len(Stages) : HasStage(c, Stages[i])})]

Goes(c, s) == pc' = [pc EXCEPT ![c] = s]

Spawn ==
    /\ main = "joining" /\ orders = <<>>
    /\ main' = "streaming"
    /\ pc' = [c \in Context |-> IF err[c] THEN "none" ELSE After(c, "created")]
    /\ UNCHANGED <<setup, sigint, maapVars, networkVars, err, app, deaf, avdecc, dummyVars>>

StartAvdecc(c) ==
    /\ pc[c] = "avdecc"
    /\ \/ Goes(c, After(c, "avdecc")) /\ avdecc' = [avdecc EXCEPT ![c] = "monitoring"]
       \/ Goes(c, "bailed") /\ UNCHANGED avdecc
    /\ UNCHANGED <<setup, sigint, mainVars, app, deaf, dummyVars>>

\* wait_ascapable.
Capable(c) ==
    /\ pc[c] = "gptp" /\ ~ sigint
    /\ Goes(c, After(c, "gptp")) \/ Goes(c, "bailed")
    /\ UNCHANGED <<setup, sigint, mainVars, app, deaf, avdecc, dummyVars>>

GptpGivesUp(c) ==
    /\ pc[c] = "gptp" /\ sigint
    /\ Goes(c, "bailed")
    /\ UNCHANGED <<setup, sigint, mainVars, app, deaf, avdecc, dummyVars>>

\* avdecc_set_talker_stream_info, which keeps data_lock when it fails, and
\* avdecc_acmp_process_start.  Both wait for data_lock, for ever when the monitor
\* thread has ended with it.
Manage(c) ==
    /\ pc[c] = "manage" /\ avdecc[c] = "monitoring"
    /\ \/ Goes(c, "unconnected") /\ UNCHANGED avdecc
       \/ /\ Mode(c) = "talker"
          /\ Goes(c, "terminate") /\ avdecc' = [avdecc EXCEPT ![c] = "locked"]
    /\ UNCHANGED <<setup, sigint, mainVars, app, deaf, dummyVars>>

\* wait_avdecc_connection: a connection, or an error of a getter; SIGINT is looked at
\* after them.
Connected(c) ==
    /\ pc[c] = "unconnected"
    /\ Goes(c, After(c, "manage")) \/ Goes(c, "terminate")
    /\ UNCHANGED <<setup, sigint, mainVars, app, deaf, avdecc, dummyVars>>

\* Mutant: the wait for a connection does not look at SIGINT.
ConnectionWaits(c) == pc[c] = "unconnected" /\ sigint /\ UNCHANGED vars

ConnectionGivesUp(c) ==
    /\ pc[c] = "unconnected" /\ sigint
    /\ Goes(c, "terminate")
    /\ UNCHANGED <<setup, sigint, mainVars, app, deaf, avdecc, dummyVars>>

\* start_application: for a listener a failure ends the thread, for a talker there is
\* nothing to wait for.
StartApp(c) ==
    /\ pc[c] \in {"listener_app", "talker_app"}
    /\ \/ /\ Goes(c, After(c, pc[c]))
          /\ app' = [app EXCEPT ![c] = "forked"]
          /\ deaf' = [deaf EXCEPT ![c] = sigint]
       \/ /\ Goes(c, IF Mode(c) = "listener" THEN "bailed" ELSE After(c, "wait_app"))
          /\ UNCHANGED <<app, deaf>>
    /\ UNCHANGED <<setup, sigint, mainVars, avdecc, dummyVars>>

\* start_stream_reservation: mrpdummy is forked, and its output read until SIGINT.
Reserve(c) ==
    /\ pc[c] = "reserve"
    /\ \/ /\ Goes(c, IF sigint THEN "cancel" ELSE "reading")
          /\ dummy' = [dummy EXCEPT ![c] = "forked"]
       \/ Goes(c, "bailed") /\ UNCHANGED dummy
    /\ UNCHANGED <<setup, sigint, mainVars, app, deaf, avdecc, sent, stdout, pipe, declared, made>>

\* The line is read; a line that two calls of read cut is not found.
ReadsLine(c) ==
    /\ pc[c] = "reading" /\ pipe[c]
    /\ pipe' = [pipe EXCEPT ![c] = FALSE]
    /\ Goes(c, After(c, "reserve")) \/ Goes(c, IF sigint THEN "cancel" ELSE "reading")
    /\ UNCHANGED <<setup, sigint, mainVars, app, deaf, avdecc, dummy, sent, stdout, declared, made>>

\* Mutant: the end of the file is taken for the line.
ReadsEndAsLine(c) ==
    /\ pc[c] = "reading" /\ ~ pipe[c] /\ (dummy[c] = "ended" \/ sigint)
    /\ Goes(c, IF dummy[c] = "ended" THEN After(c, "reserve") ELSE "cancel")
    /\ UNCHANGED <<setup, sigint, mainVars, app, deaf, avdecc, dummyVars>>

\* read returns, with other text or at once at the end of the file: the loop goes on
\* unless there was SIGINT.
ReadsText(c) ==
    /\ pc[c] = "reading" /\ ~ pipe[c] /\ sigint
    /\ Goes(c, "cancel")
    /\ UNCHANGED <<setup, sigint, mainVars, app, deaf, avdecc, dummyVars>>

\* Mutant: the mrpdummy of the reservation is not told to end.
WaitsForDummy(c) ==
    /\ pc[c] \in {"cancel", "release"}
    /\ Goes(c, IF pc[c] = "cancel" THEN "cancel_wait" ELSE "release_wait")
    /\ UNCHANGED <<setup, sigint, mainVars, app, deaf, avdecc, dummyVars>>

\* The end of start_stream_reservation on SIGINT, and stop_stream_reservation: SIGINT
\* is sent to mrpdummy,
KillDummy(c) ==
    /\ pc[c] \in {"cancel", "release"}
    /\ Goes(c, IF pc[c] = "cancel" THEN "cancel_wait" ELSE "release_wait")
    /\ Signal({c})
    /\ UNCHANGED <<setup, sigint, mainVars, app, deaf, avdecc>>

\* and its end waited for.
DummyWaited(c) ==
    /\ pc[c] \in {"cancel_wait", "release_wait"} /\ dummy[c] = "ended"
    /\ Goes(c, IF pc[c] = "cancel_wait" THEN "bailed" ELSE After(c, "release"))
    /\ UNCHANGED <<setup, sigint, mainVars, app, deaf, avdecc, dummyVars>>

\* Mutant: the reservation is kept when the application has ended.
AppWaitedOnly(c) ==
    /\ pc[c] = "wait_app" /\ app[c] = "ended"
    /\ Goes(c, After(c, "release"))
    /\ UNCHANGED <<setup, sigint, mainVars, app, deaf, avdecc, dummyVars>>

AppWaited(c) ==
    /\ pc[c] = "wait_app" /\ app[c] = "ended"
    /\ Goes(c, After(c, "wait_app"))
    /\ UNCHANGED <<setup, sigint, mainVars, app, deaf, avdecc, dummyVars>>

\* avdecc_terminate joins the monitor thread without data_lock.  The thread has ended
\* or will, unless it waits for data_lock or is in the loop of a
\* GET_TX_CONNECTION_COMMAND.
Terminate(c) ==
    /\ pc[c] = "terminate" /\ avdecc[c] \in {"monitoring", "stopped"}
    /\ Goes(c, "done") /\ avdecc' = [avdecc EXCEPT ![c] = "terminated"]
    /\ UNCHANGED <<setup, sigint, mainVars, app, deaf, dummyVars>>

-----------------------------------------------------------------------------
(* What happens around the threads *)

\* An error in protocol_process ends the monitor thread with data_lock held.
MonitorStops(c) ==
    /\ avdecc[c] = "monitoring"
    /\ avdecc' = [avdecc EXCEPT ![c] = "stopped"]
    /\ UNCHANGED <<setup, sigint, mainVars, pc, app, deaf, dummyVars>>

MonitorLoops(c) ==
    /\ Mode(c) = "talker" /\ avdecc[c] = "monitoring"
    /\ pc[c] \notin {"none", "avdecc", "gptp", "manage", "bailed", "done"}
    /\ avdecc' = [avdecc EXCEPT ![c] = "locked"]
    /\ UNCHANGED <<setup, sigint, mainVars, pc, app, deaf, dummyVars>>

AppExecs(c) ==
    /\ app[c] = "forked"
    /\ app' = [app EXCEPT ![c] = "running"]
    /\ UNCHANGED <<setup, sigint, mainVars, pc, deaf, avdecc, dummyVars>>

AppEnds(c) ==
    /\ app[c] \in {"running", "told"}
    /\ app' = [app EXCEPT ![c] = "ended"]
    /\ UNCHANGED <<setup, sigint, mainVars, pc, deaf, avdecc, dummyVars>>

\* A step of the mrpdummy of a context, and what it hears from mrpd.
DummySteps(c) ==
    /\ DummyRuns(c, Mode(c))
    /\ UNCHANGED <<setup, sigint, mainVars, threadVars>>

DummyTold(c) ==
    /\ DummyHears(c, Mode(c))
    /\ UNCHANGED <<setup, sigint, mainVars, threadVars>>

\* SIGINT from the terminal, that main or the thread of t takes.  read and waitpid of
\* that thread return EINTR; a child between fork and exec loses the signal.
Interrupted(t) ==
    CASE pc[t] = "reading" -> "cancel"
      [] pc[t] = "wait_app" -> After(t, "wait_app")
      [] pc[t] = "cancel_wait" -> "bailed"
      [] pc[t] = "release_wait" -> After(t, "release")
      [] OTHER -> pc[t]

Interrupt(t) ==
    /\ main \notin {"failed", "returned"}
    /\ sigint' = TRUE
    /\ IF t = 0 THEN UNCHANGED pc
       ELSE pc[t] \notin {"none", "bailed", "done"} /\ Goes(t, Interrupted(t))
    /\ app' = [c \in Context |-> IF app[c] = "running" THEN "told" ELSE app[c]]
    /\ deaf' = [c \in Context |-> deaf[c] \/ app[c] = "forked"]
    /\ Signal(Context)
    /\ UNCHANGED <<setup, mainVars, avdecc>>

-----------------------------------------------------------------------------
(* main after the threads *)

Finished(c) == pc[c] \in {"none", "bailed", "done"}

\* Mutant: only the domain of the first context is left.
JoinThreadsHead ==
    /\ main = "streaming" /\ \A c \in Context : Finished(c)
    /\ main' = "releasing"
    /\ orders' = IF c_info = <<>> THEN <<>> ELSE <<c_info[2], c_info[1]>>
    /\ UNCHANGED <<setup, sigint, maapVars, c_info, joined, refused, err, threadVars, dummyVars>>

\* pthread_join of all, then what disconnect_avb_network runs: the domains first.
JoinThreads ==
    /\ main = "streaming" /\ \A c \in Context : Finished(c)
    /\ main' = "releasing"
    /\ orders' = IF c_info = <<>> THEN <<>> ELSE Append(Tail(c_info), Head(c_info))
    /\ UNCHANGED <<setup, sigint, maapVars, c_info, joined, refused, err, threadVars, dummyVars>>

\* maap_daemon_cmd_release, unless the id of the reservation is 0.
MaapReleases ==
    /\ main = "releasing"
    /\ main' = "leaving"
    /\ IF maap_socket /\ maap_id # 0 THEN maap' \in Released ELSE UNCHANGED maap
    /\ UNCHANGED <<setup, sigint, maap_socket, maap_id, tries, networkVars, err, threadVars, dummyVars>>

Leave ==
    /\ main = "leaving" /\ orders # <<>>
    /\ orders' = Tail(orders)
    /\ \/ joined' = joined \ {Head(orders)} /\ UNCHANGED refused
       \/ refused' = refused \cup {Head(orders)} /\ UNCHANGED joined
    /\ UNCHANGED <<setup, sigint, main, maapVars, c_info, err, threadVars, dummyVars>>

Return ==
    /\ main = "leaving" /\ orders = <<>>
    /\ main' = "returned"
    /\ UNCHANGED <<setup, sigint, maapVars, networkVars, err, threadVars, dummyVars>>

-----------------------------------------------------------------------------
Over == main \in {"failed", "returned"}

MainRuns ==
    \/ StartUp \/ MaapAsks \/ MaapAnswers \/ Connect \/ Join \/ Spawn
    \/ JoinThreads \/ MaapReleases \/ Leave \/ Return

\* The steps that a thread takes once it can: read at the end of the file is one.
ThreadRuns(c) ==
    \/ StartAvdecc(c) \/ GptpGivesUp(c) \/ Manage(c) \/ ConnectionGivesUp(c)
    \/ StartApp(c) \/ Reserve(c) \/ ReadsLine(c) \/ (dummy[c] = "ended" /\ ReadsText(c))
    \/ KillDummy(c) \/ DummyWaited(c) \/ AppWaited(c) \/ Terminate(c)

\* What others decide.
Happens(c) ==
    \/ Capable(c) \/ Connected(c) \/ ReadsText(c) \/ MonitorStops(c) \/ MonitorLoops(c)
    \/ DummyTold(c) \/ AppExecs(c) \/ AppEnds(c) \/ Interrupt(c)

Ended == Over /\ (\A c \in Context : dummy[c] \in {"none", "ended"}) /\ UNCHANGED vars

Next ==
    \/ MainRuns \/ Interrupt(0)
    \/ \E c \in Context : ThreadRuns(c) \/ DummySteps(c) \/ Happens(c)
    \/ Ended

Fairness ==
    /\ WF_vars(MainRuns)
    /\ \A c \in Context :
        /\ WF_vars(ThreadRuns(c))
        /\ WF_vars(DummySteps(c))
        /\ WF_vars(AppExecs(c))
        /\ WF_vars(app[c] = "told" /\ AppEnds(c))

Spec == Init /\ [][Next]_vars /\ Fairness
-----------------------------------------------------------------------------
TypeOK ==
    /\ setup \in Setups
    /\ err \in [Context -> BOOLEAN]
    /\ sigint \in BOOLEAN
    /\ main \in {"starting", "asking", "reserving", "connecting", "joining", "streaming",
                "releasing", "leaving", "returned", "failed"}
    /\ maap_socket \in BOOLEAN
    /\ maap \in {"none", "asked", "held", "kept"}
    /\ maap_id \in MaapIds \cup {0}
    /\ tries \in 0..RetryNum
    /\ joined \subseteq Range(c_info) /\ refused \subseteq Range(c_info)
    /\ Range(orders) \subseteq Range(c_info)
    /\ pc \in [Context -> Range(Stages) \cup
                {"none", "unconnected", "reading", "cancel", "cancel_wait",
                 "release_wait", "bailed"}]
    /\ app \in [Context -> {"none", "forked", "running", "told", "ended"}]
    /\ deaf \in [Context -> BOOLEAN]
    /\ avdecc \in [Context -> {"none", "monitoring", "stopped", "locked", "terminated"}]
    /\ DummyTypeOK

\* The application of a talker is started, and that of a listener waited for, only
\* after its mrpdummy has made the reservation, which may be gone again by then.
ReservedBeforeStreaming ==
    \A c \in Context :
        setup[c].use_srp =>
            /\ Mode(c) = "talker" /\ app[c] # "none" => made[c]
            /\ pc[c] \in {"talker_app", "wait_app", "release", "release_wait"} => made[c]

\* When the launcher takes the reservations and the domains back, no mrpdummy runs
\* that was not told to end in the course of a SIGINT (it may have lost the signal),
\* and every application has ended or was told to, but one that was not executed yet
\* when a SIGINT came, and that of a listener whose mrpdummy could not be started.
StreamsBeforeDomains ==
    main \in {"releasing", "leaving", "returned"} =>
        \A c \in Context :
            /\ dummy[c] \notin {"none", "ended"} => sigint /\ sent[c] # "no"
            /\ declared[c] => sigint /\ sent[c] # "no"
            /\ app[c] \in {"forked", "running"} =>
                \/ deaf[c]
                \/ /\ Mode(c) = "listener" /\ setup[c].use_srp
                   /\ pc[c] = "bailed" /\ dummy[c] = "none"

\* What is left in mrpd when the launcher returns is what mrpdummy could not leave, and
\* what maap_daemon then holds is a reservation it did not release when told to, or the
\* one with the id 0.  A launcher that gives up has told it to release what it was asked
\* to reserve, if it got its first answer.
TakenBack ==
    /\ main = "returned" => joined \subseteq refused /\ (maap \in Released \/ maap_id = 0)
    /\ main = "failed" => maap # "held" /\ (maap = "asked" => tries = 0)

\* SIGINT pressed for as long as it takes ends the launcher, unless the monitor thread
\* of a context does not end, or has ended with data_lock and a streaming thread that
\* is about to manage the connection waits for it.
PressingEnds ==
    WF_vars(Interrupt(0)) =>
        <>(Over \/ \E c \in Context :
                    avdecc[c] = "locked" \/ (avdecc[c] = "stopped" /\ pc[c] = "manage"))

\* The end of the application takes the reservation back.
EndedAppReleases ==
    \A c \in Context :
        pc[c] = "wait_app" /\ app[c] = "ended"
            ~> (pc[c] = "done" /\ ~ declared[c]) \/ avdecc[c] = "locked"
=============================================================================
