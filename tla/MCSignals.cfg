SPECIFICATION Spec
CONSTANTS
  Programs <- AllPrograms
  LineLengths = {2}
  MaxSignals = 3
  MaxReads = 2
  MaxTicks = 1
INVARIANTS
  NeverSilent
  ExitNeedsTwo
  ShownCountsAreTrue
PROPERTIES
  SleeperIsWoken
CHECK_DEADLOCK FALSE
