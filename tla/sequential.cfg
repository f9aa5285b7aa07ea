SPECIFICATION Spec
CONSTANTS
  Folders = {A}
  Contents = {a, b, c}
  Large = {}
  Allowed = {"listError"}
  Writers = {w1}
  NFiles = 3
  MaxPack = 2
  MaxRuns = 2
  MaxTime = 2
  Policies <- KeepOne
  Kinds <- NoKinds
  MaxRetentions = 1
INVARIANTS TypeOK RecordsRestorable RunsBacked NothingLeftBehind
PROPERTY NewestKept
SYMMETRY Alike
CHECK_DEADLOCK FALSE
