SPECIFICATION Spec
CONSTANTS
  Pushers = {p}
  Yielders = {p}
  Consumer = c
  Cap = 4
  W = 8
  Start = 6
  MaxPush = 9
  None = None
INVARIANTS TypeOK NoTaskLost
PROPERTIES YieldReserveKept ImplementsQueue
