CONSTANTS
  NumSectors = 3
  Sector = 4
  Block = 2
  Subs = 1
  Align = 3
  SectorBytes = 1000
  Images = {3, 4, 7, 12}
  Copies = {0, 2}
  Reads <- MCReads
  Chunk = 2
  SpiFreqs = {0, 40, 60, 120, 250}
  CoreFreq = 200
  MaxFaults = 1
  MaxCalls = 2
SPECIFICATION FairSpec
INVARIANTS ImageStored OthersKept CommandsTake ReadCorrect
PROPERTY CallsReturn
\* The number of calls is bounded.
CHECK_DEADLOCK FALSE
