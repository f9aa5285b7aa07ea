SPECIFICATION FairSpec
CONSTANTS
  Folders = {A}
  Contents = {}
  Large = {}
  Allowed = {"overlap"}
  Writers = {w1}
  NFiles = 1
  MaxPack = 1
  MaxRuns = 3
  MaxTime = 4
  Policies <- ThreePolicies
  Kinds <- TwoLong
  MaxRetentions = 1
PROPERTIES PolicyHonoured CancelEndsRun EverythingEnds
CHECK_DEADLOCK FALSE
