SPECIFICATION ScreensSpec
CONSTANTS
  ItemCounts = {2, 3, 4, 5, 6, 7}
  Rows = {1, 2, 3, 4, 5, 8}
  AreaSize = 4
  Sizes = {5, 6, 7, 9}
  Delay <- Delays
INVARIANTS
  SelectedIsShown
  WindowIsFull
  StaysOnPerimeter
PROPERTIES
  SpaceTurnsBack
  WalksRound
CHECK_DEADLOCK FALSE
