CONSTANTS
  c1 = c1
  c2 = c2
  Commits = {c1}
  NumFiles = 2
  KeepBackups = 2
  NoFile = NoFile
  Unrecorded = Unrecorded
  Original = Original
  Older = Older
  Edited = Edited
  MaxEdits = 2
  MaxFaults = 1
  MaxCrashes = 1
SPECIFICATION Spec
INVARIANTS ConflictSideEffectFree
