SPECIFICATION Spec
CONSTANTS
  MaxWorkers = 3
  MaxPages = 13
  PageUnits = 2
  BootPages = 3
  HeapPages = 2
  Room = 16
  LapicPage = 9
  LapicFrame = 50
  Preset = {"pdp", "pd", "hpdp"}
  Sizes = {1, 3}
  Runs = {2}
  MaxHeld = 1
  Machines <- MCMachines
  Path <- MCPath
  Device <- MCDevice
INVARIANTS TypeOK FramesExact NoStaleTranslation
PROPERTIES FreeReturns
CHECK_DEADLOCK FALSE
