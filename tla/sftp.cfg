SPECIFICATION FairSpec
CONSTANTS
  Threads = {a, b}
  Paths = {p}
  MaxAttempts = 2
  Threshold = 2
  Shell = FALSE
  Passwords = {TRUE, FALSE}
  MaxCalls = 2
  MaxFaults = 3
INVARIANTS TypeOK TornNever
PROPERTIES SaidIsDone CallsReturn
CHECK_DEADLOCK FALSE
