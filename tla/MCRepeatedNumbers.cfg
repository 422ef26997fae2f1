SPECIFICATION Spec
CONSTANTS
  Numbers = {7, 8, 9}
  MaxRead = 7
INVARIANTS
  PrintedMoreThanThree
CHECK_DEADLOCK FALSE
