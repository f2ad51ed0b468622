SPECIFICATION Spec
CONSTANTS
  MaxInst = 2
  MaxValue = 3
  MaxBlock = 2
  MaxNames = 1
  NumArgs = 2
  Shapes <- UnitShapes
INVARIANTS
  TypeOK
  UsesComplete
  NoDanglingOperand
  ResultsMatch
  JumpsLive
  PhisPaired
PROPERTIES
  WaysSurvive
  ReplaceUseIsTotal
CHECK_DEADLOCK FALSE
