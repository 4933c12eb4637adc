\* Fragments of at least 2 bytes, up to 5 bytes in the stream; the fragment object and
\* the list node may fail to be allocated.
SPECIFICATION Spec
CONSTANTS
  b1 = b1
  b2 = b2
  Null = Null
  Byte <- Bytes
  Capacity = 2
  Skips = {0}
  Fails = {"object", "node"}
  MaxLen = 3
  MaxSize = 5
INVARIANTS TypeOK Packed Fifo
PROPERTY StreamSpec
