------------------------------ MODULE MCK3xsx ------------------------------
(* Constants of the run of K3xsx: 0xFF and 0x25 as bases, salts whose sums   *)
(* with them pass 255 and shift by 0 and by 7, texts of a bit at either end. *)
EXTENDS K3xsx

MCKeys == {0 .. 7, {0, 2, 5}}
MCSalts == {[j \in 0 .. 2 |-> CASE j = 0 -> {0, 7} [] j = 1 -> {0, 3, 6} [] OTHER -> {1}],
            [j \in 0 .. 2 |-> CASE j = 0 -> (0 .. 7) \ {0} [] j = 1 -> {1} [] OTHER -> {}]}
MCMemories == {[c \in 0 .. (Size - 1) |-> CASE c % 3 = 0 -> {7} [] c % 3 = 1 -> {0, 1, 4} [] OTHER -> {}]}
=============================================================================
