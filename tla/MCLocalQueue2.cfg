SPECIFICATION Spec
CONSTANTS
  Pushers = {e}
  Yielders = {c}
  Consumer = c
  Cap = 4
  W = 8
  Start = 0
  MaxPush = 2
  None = None
INVARIANTS NoTaskLost
