\* Two objects, one program, two openings.
SPECIFICATION Spec
CONSTANTS
  u1 = u1
  u2 = u2
  p1 = p1
  Users = {u1, u2}
  Apps = {p1}
  Openings <- Ports
  AnyIp <- AnyProtocol
  Power = Power
SYMMETRY Symmetry
INVARIANTS TypeOK Released UsesHeld AllOrNothing Promised
