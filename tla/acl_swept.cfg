SPECIFICATION Spec
CONSTANTS
  Folders = {A}
  Contents = {a, b}
  Large = {}
  Allowed = {"rootAcl"}
  Writers = {w1}
  NFiles = 1
  MaxPack = 1
  MaxRuns = 2
  MaxTime = 2
  Policies <- KeepOne
  Kinds <- NoKinds
  MaxRetentions = 1
PROPERTY SweepSparesReferenced
CHECK_DEADLOCK FALSE
