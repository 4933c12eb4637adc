\* As Buffer.cfg, with the array of a fragment failing to be allocated.
SPECIFICATION Spec
CONSTANTS
  b1 = b1
  b2 = b2
  Null = Null
  Byte <- Bytes
  Capacity = 2
  Skips = {0}
  Fails = {"array"}
  MaxLen = 3
  MaxSize = 4
SYMMETRY Symmetry
INVARIANT NothingLost
