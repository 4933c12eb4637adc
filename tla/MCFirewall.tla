----------------------------- MODULE MCFirewall -----------------------------
(***************************************************************************)
(* Instances of Firewall for TLC: two users, one program, TCP port 80 and   *)
(* two ports that have the numbers of protocols.                            *)
(***************************************************************************)
EXTENDS Firewall, TLC

CONSTANTS u1, u2, p1

Tcp == 6
AnyProtocol == 256
Ports == {<<80, Tcp>>, <<Tcp, AnyProtocol>>}

Symmetry == Permutations(Users)
=============================================================================
