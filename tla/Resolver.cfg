SPECIFICATION Spec
CONSTANTS
  Client <- MCClient
  Scenarios <- MCScenarios
  MaxDepth = 5
  MaxCNAMEDepth = 2
  maxNSRecursion = 1
  ShuffleModulus = 2
INVARIANTS
  AnswersRight
  CacheTrue
  Reaches
PROPERTY EveryCallerReturns
CHECK_DEADLOCK FALSE
