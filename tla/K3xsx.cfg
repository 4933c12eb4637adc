SPECIFICATION Spec
CONSTANTS
  Size = 6
  SizeMax = 15
  Longest = 2
  Calls = 2
  Keys <- MCKeys
  Salts <- MCSalts
  Memories <- MCMemories
INVARIANTS TypeOK Recoverable RoundTrip
PROPERTY StaysInside
CHECK_DEADLOCK FALSE
