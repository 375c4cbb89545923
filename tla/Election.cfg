SPECIFICATION Spec
CONSTANTS
  n1 = n1
  n2 = n2
  n3 = n3
  Node = {n1, n2, n3}
  None = None
  Scenarios <- Elections
VIEW LiveState
SYMMETRY NodeSymmetry
INVARIANTS
  ElectionSafetyUnlessRace
  VoteOnceUnlessOverwritten
  DurableBeforeVisible
CHECK_DEADLOCK FALSE
