SPECIFICATION Spec
CONSTANTS
  Programs = {"5_20"}
  LineLengths = {2}
  MaxSignals = 2
  MaxReads = 1
  MaxTicks = 1
PROPERTIES
  QuitsOnCtrlC
CHECK_DEADLOCK FALSE
