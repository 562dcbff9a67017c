SPECIFICATION Spec
CONSTANTS
  a = a
  b = b
  c = c
  Workers = {0, 1}
  Prios <- MCOnePrio
  Weight <- MCOneWeight
  Prio <- MCSamePrio
  Submitted = {a, b}
  Timers = {c}
  Retriers = {a}
  Yielders = {b}
  RqCap = 1
  LqCap = 1
  LqMark = 1
  OvfCap = 1
  DrainLimit = 1
  MaxYields = 1
  None = None
INVARIANTS TypeOK OnePlace BreakerHolds
