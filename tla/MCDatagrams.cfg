SPECIFICATION Spec
CONSTANTS
  Clients = {c1, c2}
  Server = S
  Host <- MCHost
  Texts <- MCTexts
  PortTexts <- MCPorts
  Messages <- MCMessages
  DgramSize = 3
  MaxInt = 262143
  StdioRoom = 2
  MaxTurns = 4
  MaxTimeouts = 2
  MaxLost = 1
  MaxCopies = 1
INVARIANTS
  AnswersAreExact
  Printed
PROPERTIES
  EveryoneIsServed
CHECK_DEADLOCK FALSE
