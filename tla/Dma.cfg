CONSTANTS
  Harts = {h1, h2}
  JobFifoDepth = 1
  IdMod = 3
  MaxCalls = 4
SPECIFICATION FairSpec
INVARIANTS TypeOK LaunchedAsAsked
PROPERTIES RefinesService BlockingReturns
\* A hart may wait for ever, and makes a bounded number of calls.
CHECK_DEADLOCK FALSE
