SPECIFICATION Spec
CONSTANTS
  n1 = n1
  n2 = n2
  n3 = n3
  Node = {n1, n2, n3}
  None = None
  Scenarios <- Races
SYMMETRY NodeSymmetry
INVARIANT ElectionSafety
CHECK_DEADLOCK FALSE
