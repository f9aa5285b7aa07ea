SPECIFICATION FairSpec
CONSTANTS
  Files <- TwoComputers
  Corrupt <- NoFiles
  TooLarge <- NoFiles
  Keyed <- FirstComputer
  Cap = 1
  Fires = {f1}
  Operators = {}
  Faults = {}
  NoCursor = NoCursor
PROPERTY SweepsComplete
CHECK_DEADLOCK FALSE
