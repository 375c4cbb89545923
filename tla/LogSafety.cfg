SPECIFICATION Spec
CONSTANTS
  n1 = n1
  n2 = n2
  n3 = n3
  Node = {n1, n2, n3}
  None = None
  Scenarios <- Replication
VIEW LiveState
SYMMETRY NodeSymmetry
CHECK_DEADLOCK FALSE
INVARIANTS
  LogMatching
  LeaderCompleteness
  CommittedIsDurable
  AckedIsHeld
  StateMachineSafety

  
