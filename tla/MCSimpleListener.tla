-------------------------- MODULE MCSimpleListener --------------------------
(* Bounds of the simple_listener run.                                        *)
EXTENDS SimpleListener
=============================================================================
