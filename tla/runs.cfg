SPECIFICATION FairSpec
CONSTANTS
  p1 = p1
  p2 = p2
  f1 = f1
  Producers = {p1, p2}
  Launches <- ScreenOrCron
  RunIds = {f1}
  FileOf <- OneFile
  TailMax = 2
  FlushCount = 2
  PipeCap = 1
  NEvents <- FewEvents
  MaxKeys = 2
  Faults = {"kill", "disk", "interrupt", "reuse", "quit"}
INVARIANTS TypeOK ForwardedInOrder FinishedMeansAll StaleNamesTheDead
PROPERTIES DesertedIsMarked ScreenLearnsTheEnd
CHECK_DEADLOCK FALSE
