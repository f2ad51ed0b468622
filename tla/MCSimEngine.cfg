SPECIFICATION Spec
CONSTANTS
  Sigs <- MCSigs
  Lanes <- MCLanes
  Regs <- MCRegs
  N = 3
  Designs <- AllDesigns
  UntilStep = 5
  NoLimit = NoLimit
  Parallelize = TRUE
INVARIANTS
  TypeOK
  QueuesAhead
  TimersQueued
  ReadyCollected
  QuiescentAtEnd
  OneValuePerSlot
PROPERTIES
  TimeMonotone
