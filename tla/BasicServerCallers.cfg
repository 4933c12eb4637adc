\* Two application threads that call run(), stop() and join() at will.
SPECIFICATION Spec
CONSTANTS
  c1 = c1
  c2 = c2
  a1 = a1
  a2 = a2
  k1 = k1
  k2 = k2
  k3 = k3
  None = None
  Callers = {c1, c2}
  Acceptors = {a1}
  Sockets = {k1, k2, k3}
  N = 2
  Poll = 1
  SizeMax = 3
  Timeout = FALSE
SYMMETRY Symmetry
INVARIANTS TypeOK ClientsExact Registered WorkersDrained
