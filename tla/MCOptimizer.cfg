SPECIFICATION Spec
CONSTANTS
  Fuel = 8
  Jobs <- MCJobs
  Inputs <- MCInputs
INVARIANTS PassesTotal StaysVerified MeaningKept
CHECK_DEADLOCK FALSE
