SPECIFICATION FairSpec
CONSTANTS
  Clients = {c1, c2}
  Fds = {4, 5}
  InBufSize = 4
  SendRoom = 1
  Programs = {"counter"}
  Chunks <- ByLine
  MaxSent <- Even
  Scarce = FALSE
  Paced = TRUE
  NoClient = NoClient
  NoSession = NoSession
  NoWrite = NoWrite
INVARIANTS
  OutlivesPoliteClients
PROPERTIES
  ImplementsAtomicCounter
CHECK_DEADLOCK FALSE
