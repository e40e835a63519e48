CONSTANTS
  Iterations = 2
  Key = {a, b}
  MaxReq = 0
  a = a
  b = b
SYMMETRY KeySymmetry
SPECIFICATION Spec
INVARIANTS DeltaPerIteration
