SPECIFICATION Spec
CONSTANTS
  Cap = 5
  Ticks = {0, 1}
  Prios = {0, 1, 3}
  PrioShift = 2
  TickShift = 4
  MaxPush = 6
INVARIANTS TypeOK Conserved DueFirst
