SPECIFICATION FairSpec
CONSTANTS
  N = 8
  Units <- TwoWaits
PROPERTIES
  TreeEnds
CHECK_DEADLOCK FALSE
