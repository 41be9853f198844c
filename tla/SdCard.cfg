CONSTANTS
  BlockSize = 2
  NumBlocks = 3
  RespPolls = 3
  BusyPolls = 3
  DataPolls = 2
  Reads <- MCReads
  RawReads <- MCRawReads
  Writes <- MCWrites
  BufLen = 7
  Faults = {"die", "corrupt", "reject", "wrong"}
  NoBusy = FALSE
SPECIFICATION FairSpec
INVARIANTS ReadCorrect BufferFenced WriteCorrect Released
PROPERTY CallsReturn
\* A boot that failed makes no further call.
CHECK_DEADLOCK FALSE
