SPECIFICATION FairSpec
CONSTANTS
  n1 = n1
  n2 = n2
  n3 = n3
  Node = {n1, n2, n3}
  None = None
  Scenarios <- Steady
CHECK_DEADLOCK FALSE
PROPERTIES
  Converges
