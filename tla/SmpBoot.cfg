CONSTANTS
  NumHarts = 3
  Half = {h1, h2}
  NoEntry = NoEntry
  MaxIpis = 2
SPECIFICATION FairSpec
INVARIANTS TypeOK BarrierSafe EntryAgreed
PROPERTIES NoIpiSwallowed RefinesBarrier AllLaunch
\* The next stage may run for ever without interrupts.
CHECK_DEADLOCK FALSE
