---------------------------- MODULE MCAcmpTalker ----------------------------
(* Bounds of the AcmpTalker runs: every command of one controller and two   *)
(* listeners, for the talker's sources and one unique id it does not have.  *)
EXTENDS AcmpTalker, TLC

MCInputs ==
    {[message_type |-> type, status |-> "SUCCESS", controller |-> c, talker |-> Me,
      talker_unique_id |-> tu, listener |-> l, listener_unique_id |-> u,
      connection_count |-> n, sequence_id |-> q] :
        type \in {"CONNECT_TX_COMMAND", "DISCONNECT_TX_COMMAND",
                  "GET_TX_STATE_COMMAND", "GET_TX_CONNECTION_COMMAND"},
        c \in Controllers, tu \in TalkerUids, l \in Listeners, u \in ListenerUids,
        n \in 0 .. 1, q \in SequenceIds}

\* tx is an output nothing reads back.
View == talkerVars

ListenerSymmetry == Permutations(Listeners)

=============================================================================
