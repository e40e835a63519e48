CONSTANTS
  Inputs <- AllInputs
  Families <- Wanted
SPECIFICATION Spec
INVARIANTS TotalsExact MergedMeans Percentiles DeltasTelescope
