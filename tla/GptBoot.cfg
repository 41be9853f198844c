CONSTANTS
  LbaMod = 16
  MaxLbas <- MCMaxLbas
  Disks <- MCDisks
SPECIFICATION Spec
INVARIANTS BootChoice FirmwareComplete GpDiscipline
\* A boot ends.
CHECK_DEADLOCK FALSE
