SPECIFICATION Spec
CONSTANTS
  Options <- FourOptions
  Touched <- SomeKeys
  FolderSeq <- TwoFolders
  Blobs <- TheirBlobs
  KindOf <- Kinds
  Files <- TheirFiles
  SampleCap = 3
  StrictCap = 3
  MaxHarm = 1
  MaxFaults = 1
INVARIANTS NoFalseAlarm PassedMeansSound MatchTells
CHECK_DEADLOCK FALSE
