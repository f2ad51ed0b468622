SPECIFICATION MCSpec
CONSTANTS
  Sigs <- MCSigs
  Lanes <- MCLanes
  Regs <- MCRegs
  N = 3
  Designs <- QuietDesigns
  UntilStep = 12
  NoLimit = NoLimit
  Parallelize = TRUE
PROPERTIES
  ImplementsMeaning
  WakeJustified
  HaltIsFinal
  TimedWaitEnds
  DrivesApplied
  StepsEnd
INVARIANTS
  ShowsEndOfTime
