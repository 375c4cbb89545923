SPECIFICATION Spec
CONSTANTS
  None = None
  w1 = w1
  w2 = w2
  MaxCells = 5
  MaxNSEC = 1
  NumShards = 2
  Key <- Keys
  Name <- Names
  ZoneName <- Zone
  Exists <- Existing
  HasType <- Typed
  Worker <- TwoWorkers
  Scenarios <- All
SYMMETRY Symmetry
INVARIANTS LifetimeBounded DenialsTrue
PROPERTIES BehavesAsLRU
CHECK_DEADLOCK FALSE
