CONSTANT WaitAttempts = 2
SPECIFICATION Spec
INVARIANT PreservedOnError
