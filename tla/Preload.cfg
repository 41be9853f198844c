CONSTANTS
  Word = 2
  Burst = 4
  MemTop = 16
  Files <- MCFiles
  Hosts = {"jtag", "uart", "slink"}
  MaxPreloads = 2
SPECIFICATION PreloadSpec
INVARIANTS ImageLoaded Footprint StopsOnlyFor
\* A simulation ends, or makes no further preload.
CHECK_DEADLOCK FALSE
