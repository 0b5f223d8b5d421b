----------------------------- MODULE MCLauncher -----------------------------
(* Two contexts of the launcher for TLC. *)
EXTENDS Launcher

Setting(mode, uses, class, priority, vid) ==
    [mode |-> mode, use_gptp |-> "gptp" \in uses, use_srp |-> "srp" \in uses,
     use_avdecc |-> "avdecc" \in uses, use_maap |-> "maap" \in uses,
     srclass |-> class, srpriority |-> priority, vid |-> vid,
     complete |-> "application" \in uses]

MCContext == {1, 2}

Pair(a, b) == <<a, b>>

\* Two reservations for different domains; one of an address, beside a configuration
\* file with an error; AVDECC on either side; one class with two priorities.
MCSetups == {
    Pair(Setting("talker", {"application", "srp"}, 6, 3, 2),
         Setting("listener", {"application", "srp"}, 5, 2, 2)),
    Pair(Setting("talker", {"application", "srp", "maap", "avdecc", "gptp"}, 6, 3, 2),
         Setting("talker", {"maap", "srp"}, 5, 3, 2)),
    Pair(Setting("listener", {"application", "srp", "avdecc", "gptp"}, 5, 2, 2),
         Setting("talker", {"application"}, 6, 3, 2)),
    Pair(Setting("talker", {"application", "srp", "gptp"}, 6, 3, 2),
         Setting("listener", {"application", "srp"}, 6, 2, 3))}

MCMaapIds == {0, 1}
=============================================================================
