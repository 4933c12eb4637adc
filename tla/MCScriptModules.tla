-------------------------- MODULE MCScriptModules --------------------------
(***************************************************************************)
(* An instance of ScriptModules for TLC: two js loaders and a c one; a is  *)
(* in both directories of the js path and as a library; b has no file.     *)
(***************************************************************************)
EXTENDS ScriptModules, TLC

CONSTANTS j1, j2, c1, a, b

MCTypeOf == [l \in {j1, j2, c1} |-> IF l \in {j1, j2} THEN "js" ELSE "c"]
MCPathLen == [t \in {"js", "c"} |-> IF t = "js" THEN 2 ELSE 1]
MCFiles == {<<"js", 1, a>>, <<"js", 2, a>>, <<"c", 1, a>>}

Symmetry == Permutations({j1, j2})
=============================================================================
