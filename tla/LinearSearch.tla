---------------------------- MODULE LinearSearch ----------------------------
(***************************************************************************)
(* The table searches of the libraries: a loop from the first index up     *)
(* that stops at the first entry of interest.  S is the set of indices     *)
(* whose entries are of interest.                                          *)
(***************************************************************************)
EXTENDS Naturals

First(S) == CHOOSE i \in S : \A j \in S : i <= j

\* A search that does not stop early: the last match wins.
LastMatch(S) == CHOOSE i \in S : \A j \in S : i >= j

=============================================================================
