CONSTANT Histories <- AllHistories
SPECIFICATION LiveSpec
INVARIANTS TypeOK NoDangling CompleteOnSuccess NeverRejected 
PROPERTY Recovers
