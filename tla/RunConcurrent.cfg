CONSTANTS
  N = 4
  Concurrency = 2
SPECIFICATION LiveSpec
INVARIANTS TypeOK Accounting BoundedParallelism Quiescent FaithfulResult
PROPERTIES BarNeverOverruns ImplementsFanOut EventuallyReturns
