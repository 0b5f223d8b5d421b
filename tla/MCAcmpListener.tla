--------------------------- MODULE MCAcmpListener ---------------------------
(* Bounds of the AcmpListener runs: every message two talkers and one       *)
(* controller can send to a listener with two sinks.                        *)
EXTENDS AcmpListener, TLC

Input(type, status, c, t, tu, u, count, q) ==
    [message_type |-> type, status |-> status, controller |-> c, talker |-> t,
     talker_unique_id |-> tu, listener |-> Me, listener_unique_id |-> u,
     connection_count |-> count, sequence_id |-> q]

MCInputs ==
    {Input(type, "SUCCESS", c, t, tu, u, 0, q) :
        type \in {"CONNECT_RX_COMMAND", "DISCONNECT_RX_COMMAND", "GET_RX_STATE_COMMAND"},
        c \in Controllers, t \in Talkers, tu \in TalkerUids, u \in ListenerUids,
        q \in SequenceIds}
    \cup
    {Input(type, status, c, t, tu, u, 1, q) :
        type \in {"CONNECT_TX_RESPONSE", "DISCONNECT_TX_RESPONSE"},
        status \in {"SUCCESS", "TALKER_MISBEHAVING"},
        c \in Controllers, t \in Talkers, tu \in TalkerUids, u \in ListenerUids,
        q \in SequenceIds}

\* tx is an output nothing reads back: states that differ only in it have the
\* same successors, and the action properties read tx' alone.
View == <<infos, inflight>>

TalkerSymmetry == Permutations(Talkers)

=============================================================================
