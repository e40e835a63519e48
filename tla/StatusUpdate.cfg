CONSTANTS
  MaxRv = 4
  MaxRuns = 2
SPECIFICATION LiveSpec
INVARIANTS TypeOK SuccessMeansReady StaleRequestsRejected
PROPERTIES CancelEnds Converges
