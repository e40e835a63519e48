CONSTANTS
  Iterations = 3
  Key = {a, b}
  MaxReq = 3
  a = a
  b = b
SYMMETRY KeySymmetry
SPECIFICATION Spec
INVARIANTS TypeOK WindowNonNegative WindowsDisjoint OwnWindow TotalCoversCalls DeltasChain
