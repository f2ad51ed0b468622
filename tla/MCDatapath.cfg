SPECIFICATION Spec
CONSTANTS
  ArgTypes <- MCArgTypes
  Profiles <- MCProfiles
INVARIANTS
  FoldKeepsMeaning
  FoldKeepsVerified
  SimulatesMeaning
  DrivesExact
  AcceptedRuns
CHECK_DEADLOCK FALSE
