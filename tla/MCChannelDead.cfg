SPECIFICATION Spec
CONSTANTS
  Msgs = {m1, m2}
  Critical = {m1}
  Drainers = {d}
  Chans = {p, f, dead}
  Dead = dead
  P2P = {p}
  Lossless = {f}
  MaxSubs = 2
  RingCap = 1
  Reserve = 0
  QueueCap = 1
  W = 8
  None = None
INVARIANT PayloadAlive
