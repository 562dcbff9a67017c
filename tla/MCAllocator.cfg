SPECIFICATION Spec
CONSTANTS
  Threads = {t1, t2}
  ArenaSizes = {4096}
  Sizes = {48, 300, 70000}
  BumpSizes = {500, 65530}
  SpareTasks = 2
  SpareObjs = 1
  MaxHeld = 2
  MaxBumps = 2
  W = 3
  Word = 65536
  None = None
INVARIANTS TypeOK TicketsInOrder MemoryIntact 
PROPERTIES LockGranted
