SPECIFICATION Spec
CONSTANTS
  ArgTypes <- MCArgTypes
  Profiles <- MCShifts
INVARIANTS
  SimulatesExactly
CHECK_DEADLOCK FALSE
