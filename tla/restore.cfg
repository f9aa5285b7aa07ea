SPECIFICATION Spec
CONSTANTS
  Records <- TwoSnapshots
  Newest = {"r2"}
  Packed = {"p"}
  Dests = {"X"}
  Filters <- AllOrSome
  Before <- Starts
  Forms = {"arq7", "arq5"}
  Policies = {"overwrite", "skip", "rename"}
  RestoredNs <- Tried
  MaxRuns = 2
  MaxFaults = 2
INVARIANTS TypeOK SaidIsRestored OriginalsStay
CHECK_DEADLOCK FALSE
