\* A header of two bytes, read in pieces of one to three.
SPECIFICATION FairSpec
CONSTANTS
  HeaderSize = 2
  Reader <- FirstByte
  ReadSize = 3
  Byte <- Bytes
  Junk <- Zero
  Messages <- Sent
  Garbage <- Refused
  MaxSent = 2
  MaxConnects = 2
  Window = 2
INVARIANTS TypeOK ServerFraming StallsOnlyOnKept ClientFraming BlocksForBytes
PROPERTY Answered
