CONSTANTS
  MaxRv = 2
  MaxRuns = 2
SPECIFICATION Spec
INVARIANTS SkippedIsReady
