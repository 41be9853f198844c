SPECIFICATION FairSpec
CONSTANTS
  LowMod = 4
  Ratio = 9
  NumTicks = 2
  LastCall = 40
  MaxCycle = 110
  Latencies <- MCLatencies
  Delays <- MCDelays
  Targets <- MCTargets
INVARIANTS
  SpinWaits
  FreqAccurate
PROPERTY CallsReturn
