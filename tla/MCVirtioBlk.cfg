SPECIFICATION Spec
CONSTANTS
  MaxDevices = 2
  BlkId = 1
  W = 8
  Pattern = 1
  Bytes = {2}
  Machines <- MCMachines
INVARIANTS TypeOK RingIntact ReadsBack
PROPERTIES CommandReturns
CHECK_DEADLOCK FALSE
