------------------------------- MODULE MCMsrp -------------------------------
(* Bounds of the Msrp runs.                                                 *)
EXTENDS Msrp, TLC

\* Nothing changes for the application once the monitor thread has ended: such a
\* state is checked and not continued.
WhileRunning == thread = "running"

RegistrarSymmetry == Permutations(Registrars)

=============================================================================
