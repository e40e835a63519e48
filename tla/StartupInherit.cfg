CONSTANTS
  CommandLines <- NoArguments
  Disks <- AllDisks
SPECIFICATION Spec
INVARIANT OnlyDeclaredRuns
