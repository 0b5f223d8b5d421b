-------------------------------- MODULE CInt --------------------------------
(* A number of a wider, unsigned type assigned to an int: the low bits, in   *)
(* two's complement, as the compilers the programs are built with do it.     *)
EXTENDS Integers

CONSTANT IntMax     \* the largest int, 2^31 - 1 in the code

ASSUME IntAssumption == IntMax \in Nat \ {0}

IntRange == - (IntMax + 1) .. IntMax

ToInt(n) == ((n + IntMax + 1) % (2 * IntMax + 2)) - (IntMax + 1)
=============================================================================
