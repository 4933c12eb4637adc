------------------------------ MODULE MCSlice ------------------------------
(* Two slices for TLC; an element holds a value or is not yet written. *)
EXTENDS Slice, TLC

CONSTANTS x1, x2, v1, a1, a2, a3

Symmetry == Permutations(Names) \cup Permutations(Arrays)
=============================================================================
