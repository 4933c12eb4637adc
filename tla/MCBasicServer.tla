--------------------------- MODULE MCBasicServer ---------------------------
(***************************************************************************)
(* Instances of BasicServer for TLC: one or two application threads, one   *)
(* thread name per run(), two or three socket names.                       *)
(***************************************************************************)
EXTENDS BasicServer, TLC

CONSTANTS c1, c2, a1, a2, k1, k2, k3

Symmetry == Permutations(Callers) \cup Permutations(Acceptors) \cup Permutations(Sockets)
=============================================================================
