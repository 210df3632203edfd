CONSTANTS
  r1 = r1
  r2 = r2
  r3 = r3
  Requests = {r1, r2}
  QueueSize = 1
  BatchSize = 2
  MaxFaults = 1
SPECIFICATION FairSpec
INVARIANTS TypeOK OnePlace StopDrains
PROPERTIES UpdateFindsRow EntriesLand StopEnds
CHECK_DEADLOCK FALSE
