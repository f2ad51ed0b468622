SPECIFICATION Spec
CONSTANTS
  Sigs <- MCSigs
  Lanes <- MCLanes
  Regs <- MCRegs
  N = 2
  Designs <- MixedDesigns
  UntilStep = 7
  NoLimit = NoLimit
  Parallelize = TRUE
INVARIANTS
NeverStarved
