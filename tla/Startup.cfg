CONSTANTS
  CommandLines <- AllCommandLines
  Disks <- AllDisks
SPECIFICATION Spec
INVARIANTS TypeOK SelectedOne Precedence SharesFit PanicOnlyIfWritten
