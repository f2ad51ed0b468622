SPECIFICATION Spec
CONSTANTS
  ArgTypes <- MCArgTypes
  Profiles <- MCArithmetics
INVARIANTS
  FoldsExactly
CHECK_DEADLOCK FALSE
