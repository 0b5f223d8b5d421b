------------------------------ MODULE AcmpSink ------------------------------
(***************************************************************************)
(* What an application (avblauncher) sees of the ACMP listener: the state  *)
(* of each stream sink.  A sink is idle, bound to one talker stream, or    *)
(* lost.  Only a bound sink is released, never rebound; sink 0 becomes     *)
(* idle again, every other sink is lost for the life of the process, as    *)
(* acmp_remove_listener_stream_info clears the slot's unique id with it.   *)
(***************************************************************************)
EXTENDS Naturals

CONSTANTS Sinks, Streams, Idle, Lost

VARIABLE sink

Init == sink = [s \in Sinks |-> Idle]

Bind(s, stream) ==
    /\ sink[s] = Idle
    /\ sink' = [sink EXCEPT ![s] = stream]

Release(s) ==
    /\ sink[s] \in Streams
    /\ sink' = [sink EXCEPT ![s] = IF s = 0 THEN Idle ELSE Lost]

Next == \E s \in Sinks : Release(s) \/ \E stream \in Streams : Bind(s, stream)

Spec == Init /\ [][Next]_sink

=============================================================================
