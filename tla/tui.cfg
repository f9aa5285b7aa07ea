SPECIFICATION FairSpec
CONSTANTS
  Tuis = {t1, t2, t3}
  Watched = t1
  PlanIds = {p, q}
  Gc = gc
  Budgets <- EachAlone
  Troubles = {}
  MaxDests = 2
  Sources = 2
  Checks = 2
  Failing = {"destination", "walk"}
INVARIANTS QuietMeansWhole CrontabKept RunToldTrue CancelLeavesNothing
PROPERTY CancelEndsWorker
CHECK_DEADLOCK FALSE
