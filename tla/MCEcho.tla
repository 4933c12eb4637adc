------------------------------- MODULE MCEcho -------------------------------
(***************************************************************************)
(* Instances of Echo for TLC: a header of two bytes, the first of which is *)
(* the size of the message; 9 stands for a header the reader refuses.      *)
(***************************************************************************)
EXTENDS Echo

FirstByte(header) == IF header = <<>> THEN 2 ELSE IF header[1] = 9 THEN -1 ELSE header[1]

Bytes   == {0, 2, 3}
Short   == <<2, 0>>
Long    == <<3, 0, 2>>
Sent    == {Short, Long}
Refused == {<<0, 2>>}
Zero    == {0}
=============================================================================
