\* As Buffer.cfg, with copy_to called with a skip.
SPECIFICATION Spec
CONSTANTS
  b1 = b1
  b2 = b2
  Null = Null
  Byte <- Bytes
  Capacity = 2
  Skips = {0, 1, 2}
  Fails = {}
  MaxLen = 3
  MaxSize = 4
PROPERTY CopySkips
