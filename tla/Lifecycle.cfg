CONSTANT WaitAttempts = 3
SPECIFICATION LiveSpec
INVARIANTS TypeOK SetupPrepared ReportSound CleanupDone
PROPERTIES DeletesOnlyOwn EventuallyEnds
