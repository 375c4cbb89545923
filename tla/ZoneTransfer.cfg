SPECIFICATION FairSpec
CONSTANTS
  SerialHalfRange = 4
  d1 = d1
  d2 = d2
  Bad = Bad
  None = None
  MaxClients = 2
  MaxXfers = 2
  Data <- TwoData
  Scenarios <- All
INVARIANTS HoldsVersionUnlessSlip ConsumedSurvives
PROPERTIES SerialNeverFalls TransferEnds
CHECK_DEADLOCK FALSE
