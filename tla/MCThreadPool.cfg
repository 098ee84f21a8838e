CONSTANTS
  M = 16
  Parallelism = 2
  Shapes = {0, 1, 3}
  SpawnMayFail = TRUE
  Lo = 8
SPECIFICATION Spec
INVARIANTS
  TypeOK
  NoIndexTwice
  NothingUsedAfterFree
  NoTaskSleeps
  ActiveIsExact
PROPERTIES
  BulkIsRun
  PoolEnds
