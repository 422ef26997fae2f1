SPECIFICATION Spec
CONSTANTS
  BufSize = 1
  PipeSize = 1
  MaxRuns <- Restarts
  MaxTyped = 2
INVARIANTS
  StreamKept
PROPERTIES
  ReasonsAreTrue
  Rendezvous
  DepartureIsNoticed
  OnlyBothBlock
CHECK_DEADLOCK FALSE
