------------------------------ MODULE MCAvdecc ------------------------------
(* Bounds of the Avdecc run: an id that differs from the first in each part, *)
(* as avblauncher sets one id per context.                                   *)
EXTENDS Avdecc

NewIds == {[p \in Part |-> b] : b \in Byte \ {Zero}}

=============================================================================
