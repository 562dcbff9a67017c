SPECIFICATION FairSpec
CONSTANTS
  Threads = {t1, t2, t3}
  Running = {t1}
  Values = {a, b}
  None = None
  Cap = 2
  W = 32
  Window = 13
  Start = 31
  MaxPush = 2
INVARIANTS TypeOK FullRefused SlotInv CellExclusive
PROPERTIES NoABA ImplementsQueue NonBlocking
