CONSTANTS
  r1 = r1
  r2 = r2
  r3 = r3
  Requests = {r1, r2}
  QueueSize = 1
  BatchSize = 2
  MaxFaults = 0
SPECIFICATION Spec
INVARIANTS StopFlushesAll
CHECK_DEADLOCK FALSE
