------------------------------ MODULE MrpDummy ------------------------------
(***************************************************************************)
(* mrpdummy, mrpdummy/mrpdummy.c, as the child that reserves a stream for  *)
(* avblauncher: one process for each context of the launcher.              *)
(*                                                                         *)
(* The parent learns of the reservation by the line "reservation           *)
(* completion" on a pipe.  To a pipe stdio writes when the process ends,   *)
(* or when the monitor thread of lib/msrp has handled a notification and   *)
(* calls fflush: the line waits in the process until then.                 *)
(***************************************************************************)

CONSTANT Context

VARIABLES
    dummy,      \* per context, where its mrpdummy is
    sent,       \* whether SIGINT was sent to it, and was lost
    stdout,     \* the line is in the process
    pipe,       \* the line is in the pipe
    declared,   \* its stream is declared to mrpd
    made        \* history: it has made the reservation

dummyVars == <<dummy, sent, stdout, pipe, declared, made>>

DummyTypeOK ==
    /\ dummy \in [Context -> {"none", "forked", "starting", "waiting", "reserved", "ended"}]
    /\ sent \in [Context -> {"no", "lost", "yes"}]
    /\ stdout \in [Context -> BOOLEAN]
    /\ pipe \in [Context -> BOOLEAN]
    /\ declared \in [Context -> BOOLEAN]
    /\ made \in [Context -> BOOLEAN]

DummyInit ==
    /\ dummy = [c \in Context |-> "none"]
    /\ sent = [c \in Context |-> "no"]
    /\ stdout = [c \in Context |-> FALSE]
    /\ pipe = [c \in Context |-> FALSE]
    /\ declared = [c \in Context |-> FALSE]
    /\ made = [c \in Context |-> FALSE]

DummyGoes(c, from, to) ==
    /\ dummy[c] = from
    /\ dummy' = [dummy EXCEPT ![c] = to]

Flush(c) ==
    /\ pipe' = [pipe EXCEPT ![c] = @ \/ stdout[c]]
    /\ stdout' = [stdout EXCEPT ![c] = FALSE]

\* exec resets the handler the child has from its parent.
DummyExecs(c) ==
    /\ DummyGoes(c, "forked", "starting")
    /\ UNCHANGED <<sent, stdout, pipe, declared, made>>

\* The options are read, the handler is installed, the context initialised, and a
\* talker advertises its stream.
DummyInitialises(c, mode) ==
    /\ DummyGoes(c, "starting", "waiting")
    /\ declared' = [declared EXCEPT ![c] = mode = "talker"]
    /\ UNCHANGED <<sent, stdout, pipe, made>>

DummyFails(c) ==
    /\ DummyGoes(c, "starting", "ended")
    /\ UNCHANGED <<sent, stdout, pipe, declared, made>>

\* The first loop of process_talker and process_listener has found the other side;
\* msrp_listener_ready may fail.
DummyReserves(c, mode) ==
    /\ sent[c] # "yes"
    /\ \/ /\ DummyGoes(c, "waiting", "reserved")
          /\ declared' = [declared EXCEPT ![c] = TRUE]
          /\ stdout' = [stdout EXCEPT ![c] = TRUE]
          /\ made' = [made EXCEPT ![c] = TRUE]
       \/ /\ mode = "listener"
          /\ DummyGoes(c, "waiting", "ended") /\ UNCHANGED <<declared, stdout, made>>
    /\ UNCHANGED <<sent, pipe>>

\* What is declared is withdrawn (a message that cannot be sent is not told apart),
\* and exit writes the line.
Withdraw(c) ==
    /\ dummy' = [dummy EXCEPT ![c] = "ended"]
    /\ declared' = [declared EXCEPT ![c] = FALSE]
    /\ Flush(c)
    /\ UNCHANGED <<sent, made>>

\* The loops end with a signal,
DummyStops(c) ==
    /\ dummy[c] \in {"waiting", "reserved"} /\ sent[c] = "yes"
    /\ Withdraw(c)

\* that of a reserved talker also when the last listener leaves.
ListenerLeaves(c, mode) ==
    /\ mode = "talker" /\ dummy[c] = "reserved"
    /\ Withdraw(c)

\* mrpd notifies the process of something, and the monitor thread flushes.
DummyNotified(c) ==
    /\ dummy[c] \in {"waiting", "reserved"}
    /\ Flush(c)
    /\ UNCHANGED <<dummy, sent, declared, made>>

\* SIGINT for the processes of C.  The handler of the parent ignores it until exec; the
\* default action ends the process until it has installed its own handler.
Signal(C) ==
    /\ \E killed \in SUBSET {c \in C : dummy[c] = "starting"} :
        dummy' = [c \in Context |-> IF c \in killed THEN "ended" ELSE dummy[c]]
    /\ sent' = [c \in Context |->
                  CASE c \notin C \/ dummy[c] \in {"none", "ended"} -> sent[c]
                    [] c \in C /\ dummy[c] = "forked" -> "lost"
                    [] OTHER -> "yes"]
    /\ UNCHANGED <<stdout, pipe, declared, made>>

\* The domain that the options -c and -p give: class A is 6 with priority 3, class B
\* is 5 with priority 2, and the second option may change the class of the first.
Registered(class, priority) ==
    CASE class = 6 /\ priority = 2 -> <<5, 2>>
      [] class = 5 /\ priority = 3 -> <<6, 3>>
      [] OTHER -> <<class, priority>>

\* The steps the process takes by itself.
DummyRuns(c, mode) ==
    \/ DummyExecs(c)
    \/ DummyInitialises(c, mode) \/ DummyFails(c)
    \/ DummyStops(c)

\* What mrpd decides.
DummyHears(c, mode) ==
    \/ DummyReserves(c, mode) \/ ListenerLeaves(c, mode) \/ DummyNotified(c)

=============================================================================
