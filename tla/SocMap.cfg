SPECIFICATION MapSpec
CONSTANTS
  PortMod = 64
  TableSize = 32
  Cfgs <- MCCfgs
  Addrs <- MCAddrs
INVARIANTS
  Delivered
  Answered
  AttributesSound
