------------------------------- MODULE Avdecc -------------------------------
(***************************************************************************)
(* An AVDECC context, lib/avdecc/avdecc.c: the monitor thread, the thread  *)
(* of the application, and data_lock between them, over the discovery      *)
(* protocol of Adp.                                                        *)
(*                                                                         *)
(* Of the connection protocol (AcmpListener, AcmpTalker) there is here     *)
(* what the two threads share: its messages read the stream information    *)
(* the application sets, and one of them never returns.                    *)
(*                                                                         *)
(* One application thread calls the functions of avdecc.h, in any order.   *)
(***************************************************************************)
EXTENDS Adp, Integers

CONSTANTS
    Grandmasters,   \* the ids the application may set
    Version,        \* what tells apart the values of calls that set a stream's
                    \* information, the value from the entity file included
    NoValue         \* the argument of no call

ASSUME AvdeccAssumption ==
    /\ Grandmasters \subseteq GrandmasterIds
    /\ NoValue \notin Version

\* The fields of a stream's information, and the order they are written in.
Field == {"stream_id", "stream_dest_mac", "stream_vlan_id"}
Order == [stream_id |-> 1, stream_dest_mac |-> 2, stream_vlan_id |-> 3]

\* What select and recv may give the monitor thread.  "none" is a timeout, an
\* error of recv and every frame that changes nothing below.
Frame == {"none", "discover", "get_tx_connection"}

VARIABLES
    data_lock,      \* "free", or the thread that holds it
    monitor,        \* where the monitor thread is
    frame,          \* what it received and has not handled
    halt_flag,
    acmp_started,
    stream_info,    \* of one talker stream: per field, the call that set it
    app,            \* where the application is
    todo,           \* what the application's call has still to write
    value           \* and from which argument

avdeccVars == <<data_lock, monitor, frame, halt_flag, acmp_started, stream_info,
                app, todo, value>>
vars == <<adpVars, avdeccVars>>

MonitorAt == {"select", "lock", "receive", "halt_flag", "check", "copy", "available",
              "return", "looping", "failed", "ended"}
AppAt == {"idle", "grandmaster", "info_lock", "info", "start_lock", "stop_lock",
          "join", "freed"}

\* The types, with the places a thread may be at.
TypeOK ==
    /\ AdpTypeOK
    /\ data_lock \in {"free", "monitor", "app"}
    /\ monitor \in MonitorAt
    /\ frame \in Frame
    /\ halt_flag \in BOOLEAN
    /\ acmp_started \in BOOLEAN
    /\ stream_info \in [Field -> Version]
    /\ app \in AppAt
    /\ todo \in SUBSET (Part \cup Field)
    /\ value \in Grandmasters \cup Version \cup {NoValue}

\* avdecc_init has returned a context.
Init ==
    /\ AdpInit
    /\ data_lock = "free"
    /\ monitor = "select"
    /\ frame = "none"
    /\ halt_flag = FALSE
    /\ acmp_started = FALSE
    /\ \E v \in Version : stream_info = [f \in Field |-> v]
    /\ app = "idle"
    /\ todo = {}
    /\ value = NoValue

-----------------------------------------------------------------------------
(* The monitor thread.                                                      *)

MonitorGoes(from, to) ==
    /\ monitor = from
    /\ monitor' = to

MonitorKeeps == UNCHANGED <<halt_flag, acmp_started, stream_info, app, todo, value>>

\* The select loop of avdecc_monitor_thread.
Select(f) ==
    /\ MonitorGoes("select", "lock")
    /\ frame' = f
    /\ UNCHANGED <<adpVars, data_lock>>
    /\ MonitorKeeps

\* An error of select ends the thread.
SelectFails ==
    /\ MonitorGoes("select", "failed")
    /\ UNCHANGED <<adpVars, data_lock, frame>>
    /\ MonitorKeeps

\* protocol_process
Lock ==
    /\ MonitorGoes("lock", "receive")
    /\ data_lock = "free"
    /\ data_lock' = "monitor"
    /\ UNCHANGED <<adpVars, frame>>
    /\ MonitorKeeps

\* A GET_TX_CONNECTION_COMMAND for any connection but the first of a source that
\* has a listener keeps the thread in its handler (AcmpTalker!NeverLoops).
Receive ==
    /\ \/ MonitorGoes("receive", "halt_flag")
       \/ /\ frame = "get_tx_connection" /\ acmp_started
          /\ MonitorGoes("receive", "looping")
    /\ IF frame = "discover" THEN AdpDiscovered ELSE UNCHANGED adpVars
    /\ frame' = "none"
    /\ UNCHANGED data_lock
    /\ MonitorKeeps

\* Mutant: a halt is looked at once only, at the end of the pass.
ReadHaltFlagNever ==
    /\ MonitorGoes("halt_flag", "check")
    /\ UNCHANGED <<adpVars, data_lock, frame>>
    /\ MonitorKeeps

ReadHaltFlag ==
    /\ MonitorGoes("halt_flag", "check")
    /\ IF halt_flag THEN AdpChangeDeparting ELSE UNCHANGED adpVars
    /\ UNCHANGED <<data_lock, frame>>
    /\ MonitorKeeps

Check ==
    /\ MonitorGoes("check", IF GrandmasterChanged THEN "copy" ELSE "available")
    /\ AdpCheck
    /\ UNCHANGED <<data_lock, frame>>
    /\ MonitorKeeps

\* An error of is_interface_linkup ends the thread, which keeps data_lock.
CheckFails ==
    /\ MonitorGoes("check", "failed")
    /\ do_advertise' = (do_advertise \/ due)
    /\ UNCHANGED <<do_terminate, last_link_is_up, gptp_grandmaster_id,
                   advertised_grandmaster_id, due, link, heard, departed>>
    /\ UNCHANGED <<data_lock, frame>>
    /\ MonitorKeeps

CopyGrandmaster ==
    /\ MonitorGoes("copy", "available")
    /\ AdpCopyGrandmaster
    /\ UNCHANGED <<data_lock, frame>>
    /\ MonitorKeeps

SendAvailable ==
    /\ MonitorGoes("available", "return")
    /\ AdpAvailable
    /\ UNCHANGED <<data_lock, frame>>
    /\ MonitorKeeps

\* Mutant: a halt is looked at once only, at the beginning of the pass.
ReturnOnly ==
    /\ MonitorGoes("return", "select")
    /\ AdpDeparting
    /\ data_lock' = "free"
    /\ UNCHANGED frame
    /\ MonitorKeeps

\* Mutant: data_lock is kept after every pass.
ReturnLocked ==
    /\ MonitorGoes("return", IF halt_flag THEN "ended" ELSE "select")
    /\ AdpDeparting
    /\ UNCHANGED <<data_lock, frame>>
    /\ MonitorKeeps

\* The end of adp_state_process and the second reading of halt_flag.  The thread
\* that sees it set returns with data_lock held.
Return ==
    /\ MonitorGoes("return", IF halt_flag THEN "ended" ELSE "select")
    /\ AdpDeparting
    /\ data_lock' = IF halt_flag THEN data_lock ELSE "free"
    /\ UNCHANGED frame
    /\ MonitorKeeps

Monitor ==
    \/ \E f \in Frame : Select(f)
    \/ SelectFails
    \/ Lock
    \/ Receive
    \/ ReadHaltFlag
    \/ Check
    \/ CheckFails
    \/ CopyGrandmaster
    \/ SendAvailable
    \/ Return

-----------------------------------------------------------------------------
(* The application.                                                         *)

AppGoes(from, to) ==
    /\ app = from
    /\ app' = to

AppKeeps == UNCHANGED <<monitor, frame>>

\* avdecc_set_grandmaster_id, without data_lock.
SetGrandmaster(id) ==
    /\ AppGoes("idle", "grandmaster")
    /\ todo' = Part
    /\ value' = id
    /\ UNCHANGED <<adpVars, data_lock, halt_flag, acmp_started, stream_info>>
    /\ AppKeeps

WriteGrandmaster(p) ==
    /\ app = "grandmaster" /\ p \in todo
    /\ AdpWriteGrandmaster(p, value)
    /\ todo' = todo \ {p}
    /\ IF todo' = {}
       THEN app' = "idle" /\ value' = NoValue
       ELSE UNCHANGED <<app, value>>
    /\ UNCHANGED <<data_lock, halt_flag, acmp_started, stream_info>>
    /\ AppKeeps

\* avdecc_set_talker_stream_info
SetStreamInfo(v) ==
    /\ AppGoes("idle", "info_lock")
    /\ todo' = Field
    /\ value' = v
    /\ UNCHANGED <<adpVars, data_lock, halt_flag, acmp_started, stream_info>>
    /\ AppKeeps

\* Mutants: the stream is changed without data_lock; the argument is lost.
LockInfoNot ==
    /\ AppGoes("info_lock", "info")
    /\ UNCHANGED <<adpVars, data_lock, halt_flag, acmp_started, stream_info, todo, value>>
    /\ AppKeeps

LockInfoLosingArgument ==
    /\ AppGoes("info_lock", "info")
    /\ data_lock = "free"
    /\ data_lock' = "app"
    /\ value' = NoValue
    /\ UNCHANGED <<adpVars, halt_flag, acmp_started, stream_info, todo>>
    /\ AppKeeps

LockInfo ==
    /\ AppGoes("info_lock", "info")
    /\ data_lock = "free"
    /\ data_lock' = "app"
    /\ UNCHANGED <<adpVars, halt_flag, acmp_started, stream_info, todo, value>>
    /\ AppKeeps

\* The setters of acmp.c look up the same stream: the first fails or none.  The
\* function returns with data_lock held.
SetterFails ==
    /\ AppGoes("info", "idle") /\ todo = Field
    /\ todo' = {}
    /\ value' = NoValue
    /\ UNCHANGED <<adpVars, data_lock, halt_flag, acmp_started, stream_info>>
    /\ AppKeeps

WriteInfo ==
    /\ app = "info"
    /\ \E f \in todo :
        /\ \A g \in todo : Order[f] <= Order[g]
        /\ stream_info' = [stream_info EXCEPT ![f] = value]
        /\ todo' = todo \ {f}
    /\ UNCHANGED <<adpVars, data_lock, halt_flag, acmp_started, app, value>>
    /\ AppKeeps

UnlockInfo ==
    /\ AppGoes("info", "idle") /\ todo = {}
    /\ data_lock' = "free"
    /\ value' = NoValue
    /\ UNCHANGED <<adpVars, halt_flag, acmp_started, stream_info, todo>>
    /\ AppKeeps

\* avdecc_acmp_process_start and _stop
CallStart ==
    /\ AppGoes("idle", "start_lock")
    /\ UNCHANGED <<adpVars, data_lock, halt_flag, acmp_started, stream_info, todo, value>>
    /\ AppKeeps

CallStop ==
    /\ AppGoes("idle", "stop_lock")
    /\ UNCHANGED <<adpVars, data_lock, halt_flag, acmp_started, stream_info, todo, value>>
    /\ AppKeeps

\* lock, assignment and unlock: no one reads acmp_started without the lock.
StartStop ==
    /\ data_lock = "free"
    /\ \/ AppGoes("start_lock", "idle") /\ acmp_started' = TRUE
       \/ AppGoes("stop_lock", "idle") /\ acmp_started' = FALSE
    /\ UNCHANGED <<adpVars, data_lock, halt_flag, stream_info, todo, value>>
    /\ AppKeeps

\* avdecc_terminate: halt, then wait for the thread, then free the context.
Terminate ==
    /\ AppGoes("idle", "join")
    /\ halt_flag' = TRUE
    /\ UNCHANGED <<adpVars, data_lock, acmp_started, stream_info, todo, value>>
    /\ AppKeeps

\* Mutant: the context is freed at once.
JoinNot ==
    /\ AppGoes("join", "freed")
    /\ UNCHANGED <<adpVars, data_lock, halt_flag, acmp_started, stream_info, todo, value>>
    /\ AppKeeps

Join ==
    /\ AppGoes("join", "freed")
    /\ monitor \in {"failed", "ended"}
    /\ UNCHANGED <<adpVars, data_lock, halt_flag, acmp_started, stream_info, todo, value>>
    /\ AppKeeps

\* The steps of a call that has been made.
AppReturns ==
    \/ \E p \in Part : WriteGrandmaster(p)
    \/ LockInfo \/ SetterFails \/ WriteInfo \/ UnlockInfo
    \/ StartStop
    \/ Join

AppCalls ==
    \/ \E id \in Grandmasters : SetGrandmaster(id)
    \/ \E v \in Version : SetStreamInfo(v)
    \/ CallStart \/ CallStop
    \/ Terminate

Environment ==
    /\ TimerExpires \/ LinkChanges
    /\ UNCHANGED avdeccVars

Next == Monitor \/ AppCalls \/ AppReturns \/ Environment

Spec == Init /\ [][Next]_vars

-----------------------------------------------------------------------------
(* Fairness.  A thread that can run runs; the mutex starves no one, as the   *)
(* threads hold it for a moment and sleep between; time passes.  No error    *)
(* need occur, no call need be made, the link need not change.               *)

MonitorRuns ==
    \/ \E f \in Frame : Select(f)
    \/ Receive \/ ReadHaltFlag \/ Check
    \/ CopyGrandmaster \/ SendAvailable \/ Return

AppRuns ==
    \/ \E p \in Part : WriteGrandmaster(p)
    \/ WriteInfo \/ UnlockInfo
    \/ Join

Fairness ==
    /\ WF_vars(MonitorRuns)
    /\ WF_vars(AppRuns)
    /\ SF_vars(Lock)
    /\ SF_vars(LockInfo)
    /\ SF_vars(StartStop)
    /\ WF_vars(TimerExpires /\ UNCHANGED avdeccVars)

FairSpec == Spec /\ Fairness

-----------------------------------------------------------------------------
(* Safety.                                                                   *)

\* Whoever holds data_lock finds the three values of a stream from one call of
\* avdecc_set_talker_stream_info: a CONNECT_TX_RESPONSE never names the stream of
\* one call with the address or the VLAN of another.
StreamInfoWhole ==
    data_lock = "monitor" =>
        \A f, g \in Field : stream_info[f] = stream_info[g]

\* avdecc_terminate frees the context only when its thread uses it no more, on
\* whichever of its paths it ended.
FreedUnused == app = "freed" => monitor \in {"failed", "ended"}

\* After ENTITY_DEPARTING the network hears of no ENTITY_AVAILABLE again, though
\* the pass that sends the one may have sent the other just before.
NothingAfterDeparting == [][departed => heard' = heard]_vars

-----------------------------------------------------------------------------
(* Liveness.                                                                 *)

\* A function has returned with data_lock held: avdecc_set_talker_stream_info that
\* failed, or a handler or the link check in the monitor thread.
AppKeptLock == data_lock = "app" /\ app # "info"
MonitorKeptLock == data_lock = "monitor" /\ monitor \in {"looping", "failed"}

\* A call of the application that waits for data_lock returns, unless a function
\* has kept the lock.
CallsReturn ==
    app \in {"info_lock", "start_lock", "stop_lock"}
        ~> (app = "idle" \/ AppKeptLock \/ MonitorKeptLock)

\* avdecc_terminate returns, unless the thread it waits for waits for a lock the
\* application has kept or is in the endless loop of a handler.
TerminateReturns ==
    app = "join" ~> (app = "freed" \/ AppKeptLock \/ monitor = "looping")

\* A halt that the thread finds when it comes back from select is announced with an
\* ENTITY_DEPARTING, unless the thread fails or never comes to it.
HaltIsAnnounced ==
    (halt_flag /\ monitor = "select")
        ~> (departed \/ AppKeptLock \/ monitor \in {"looping", "failed"})

\* The grandmaster the application has set becomes known to the network, if it and
\* the link stay as they are, though the thread may have read the id while it was
\* written and though announcements are lost while the link is down.
Settled(id) ==
    /\ gptp_grandmaster_id = id /\ link
    /\ ~ halt_flag /\ ~ AppKeptLock /\ monitor \notin {"looping", "failed"}

GrandmasterAnnounced ==
    \A id \in Grandmasters :
        <>[]Settled(id) => <>[](heard = id)

=============================================================================
