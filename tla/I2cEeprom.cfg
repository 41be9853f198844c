SPECIFICATION FairSpec
CONSTANTS
  Depth = 8
  ByteMod = 4
  MaxCalls = 2
  Accesses <- MCAccesses
INVARIANTS
  ReadCorrect
  BufferFenced
  FifosSound
PROPERTY CallsReturn
