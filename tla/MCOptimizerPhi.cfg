SPECIFICATION Spec
CONSTANTS
  Fuel = 8
  Jobs <- DelayedJobs
  Inputs <- MCInputs
INVARIANT PassesTotal
CHECK_DEADLOCK FALSE
