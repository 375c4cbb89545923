SPECIFICATION Spec
CONSTANTS
  p1 = p1  p2 = p2  b1 = b1  b2 = b2  k1 = k1  c1 = c1  v1 = v1  v2 = v2
  None = None
  Proc <- TwoProcs
  Bucket <- TwoBuckets
  Key <- OneKey
  Child <- OneChild
  Val <- OneVal
  MaxTx = 3
  MaxCrash = 1
SYMMETRY Symmetric
INVARIANTS
  RestIsFile
  AckedSurvives
