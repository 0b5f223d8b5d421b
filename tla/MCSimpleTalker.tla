--------------------------- MODULE MCSimpleTalker ---------------------------
(* Bounds of the simple_talker run.                                          *)
EXTENDS SimpleTalker, TLC
=============================================================================
