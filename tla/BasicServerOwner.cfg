\* One thread runs, stops and destroys the server; with a timeout, and fair threads for the
\* temporal properties.
SPECIFICATION FairSpec
CONSTANTS
  c1 = c1
  c2 = c2
  a1 = a1
  a2 = a2
  k1 = k1
  k2 = k2
  k3 = k3
  None = None
  Callers = {c1}
  Acceptors = {a1, a2}
  Sockets = {k1, k2}
  N = 2
  Poll = 2
  SizeMax = 3
  Timeout = TRUE
INVARIANTS AcceptChain FaultOnlyWhileStopping QuietWhenGone
PROPERTIES CallbackOrder StopReturns ClosedByStop AcceptedIsServed IdleDropped
