SPECIFICATION Spec
CONSTANTS
  Files <- BlobAndTree
  Corrupt <- OneTree
  TooLarge <- NoFiles
  Keyed <- BothComputers
  Cap = 1
  Fires = {f1}
  Operators = {o1}
  Faults = {"listing", "keyset", "backend", "death"}
  NoCursor = NoCursor
INVARIANTS TypeOK SweepCovers FailuresReported Accounted
CHECK_DEADLOCK FALSE
