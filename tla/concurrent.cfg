SPECIFICATION Spec
CONSTANTS
  Folders = {A}
  Contents = {a, b}
  Large = {b}
  Allowed = {}
  Writers = {w1, w2}
  NFiles = 1
  MaxPack = 2
  MaxRuns = 2
  MaxTime = 2
  Policies <- KeepOne
  Kinds <- NoKinds
  MaxRetentions = 1
INVARIANT Consistent
PROPERTY ImplementsStore
CHECK_DEADLOCK FALSE
