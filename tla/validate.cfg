SPECIFICATION FairSpec
CONSTANTS
  Walk <- TwoComputers
  Records <- TwoFolders
  Root <- Roots
  Children <- Trees
  Large <- OneLarge
  Commands <- AllTiers
  MaxBytes = 3
  Troubles = {"read", "keyset", "folder"}
  MaxRuns = 2
  MaxHarm = 1
INVARIANTS TypeOK LedgerHonest CleanMeansChecked
PROPERTY RunsFinish
CHECK_DEADLOCK FALSE
