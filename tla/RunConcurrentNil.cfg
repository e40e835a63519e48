CONSTANTS
  N = 3
  Concurrency = 2
SPECIFICATION Spec
INVARIANTS NilMeansAllRan
