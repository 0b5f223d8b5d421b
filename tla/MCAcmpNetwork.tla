--------------------------- MODULE MCAcmpNetwork ---------------------------
(* Bounds of the AcmpNetwork runs.                                          *)
EXTENDS AcmpNetwork, TLC

CONSTANTS c1, c2, Commands

\* Two controllers, a sink each, Commands commands each, distinct sequence ids.
TwoFirstId == c1 :> 1 @@ c2 :> 11
TwoLastId == c1 :> Commands @@ c2 :> 10 + Commands
TwoSinksOf == c1 :> {0} @@ c2 :> {1}

\* One controller for both sinks.
OneFirstId == c1 :> 1
OneLastId == c1 :> Commands
OneSinksOf == c1 :> {0, 1}

\* The runs without losses meet the hypothesis of the theorems.
ASSUME RunsAreCareful == ~Lossy => CarefulNetwork

=============================================================================
