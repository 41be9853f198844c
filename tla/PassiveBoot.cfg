CONSTANTS
  Hosts = {"slink", "jtag", "uart", "early", "term"}
  Jobs <- MCJobs
  Image <- MCImage
  Entry <- MCEntry
  Rets = {0, 1, 2, 3, 4, 5, 6, 7}
  RegWidth = 3
  TypedBytes = {"char", "ACK"}
  MaxTyped = 3
  PrintBytes = {"char", "ACK"}
  MaxPrint = 2
SPECIFICATION FairSpec
INVARIANTS LaunchSound ProtocolInStep ExitReported
PROPERTIES HostDone
\* A program that returned leaves hart 0 in a loop.
CHECK_DEADLOCK FALSE
