------------------------------- MODULE MCBuffer -------------------------------
(* Buffer with two bytes, for TLC. *)
EXTENDS Buffer, TLC

CONSTANTS b1, b2

Bytes == {b1, b2}
Symmetry == Permutations(Bytes)
=============================================================================
