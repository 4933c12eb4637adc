----------------------------- MODULE Callbacks -----------------------------
(***************************************************************************)
(* What basic_server_t promises the application about its callbacks        *)
(* (src/include/kg/net/basic_server.hpp:510-556): for every connection     *)
(* connected, then readed any number of times, then closed, one at a time; *)
(* closed exactly once and also when connected refuses; and none of them   *)
(* once the server has been destroyed.                                     *)
(***************************************************************************)
CONSTANT Sockets

VARIABLES
  phase,  \* the callback a connection is in, "waiting" between two, "none" outside
  gone    \* the server has been destroyed

vars == <<phase, gone>>

Phases == {"none", "connected", "waiting", "readed", "closed"}

Init == phase = [k \in Sockets |-> "none"] /\ gone = FALSE

\* A callback of k begins, or k goes back to waiting or leaves.
Move(k, from, to) ==
  /\ ~gone
  /\ phase[k] \in from
  /\ phase' = [phase EXCEPT ![k] = to]
  /\ UNCHANGED gone

Connected(k) == Move(k, {"none"}, "connected")
Wait(k)      == Move(k, {"connected", "readed"}, "waiting")
Readed(k)    == Move(k, {"waiting"}, "readed")
Closed(k)    == Move(k, {"connected", "waiting", "readed"}, "closed")
End(k)       == Move(k, {"closed"}, "none")

Destroy ==
  /\ ~gone
  /\ phase = [k \in Sockets |-> "none"]
  /\ gone' = TRUE
  /\ UNCHANGED phase

Next ==
  \/ \E k \in Sockets : Connected(k) \/ Wait(k) \/ Readed(k) \/ Closed(k) \/ End(k)
  \/ Destroy

Spec == Init /\ [][Next]_vars
=============================================================================
