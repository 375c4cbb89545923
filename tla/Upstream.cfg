SPECIFICATION Spec
CONSTANTS
  Scenarios <- MCScenarios
  failLimit = 3
  successLimit = 2
  failureLimit = 2
INVARIANTS
  PoolAccounts
  AnswersOwnQuery
PROPERTY
  HealthFollows
CHECK_DEADLOCK FALSE
