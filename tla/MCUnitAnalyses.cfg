SPECIFICATION FairSpec
CONSTANTS
  N = 4
  Units <- MCUnits
INVARIANTS
  DominatorsRight
  PanicsOnOrphans
  RegionsRooted
  SingleHeadDominates
PROPERTIES
  SingleHeadEnds
CHECK_DEADLOCK FALSE
