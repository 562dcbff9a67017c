SPECIFICATION Spec
CONSTANTS
  NTenants = 2
  NWorkers = 3
  MaxHandlers = 2
  MaxModules = 2
  Threshold = 2
  TaskTypes = {0, 2}
  MaxFails = 2
  MaxResets = 2
  ModLists <- MCModLists
INVARIANTS TypeOK CleanExit WorkersCovered PoisonNotMissed
PROPERTIES CallsReturn
CHECK_DEADLOCK FALSE
