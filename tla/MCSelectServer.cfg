SPECIFICATION FairSpec
CONSTANTS
  Clients = {c1, c2}
  Fds = {4, 5}
  InBufSize = 2
  SendRoom = 1
  Programs = {"ack", "counter"}
  Chunks <- ByToken
  MaxSent <- Uneven
  Scarce = TRUE
  Paced = FALSE
  NoClient = NoClient
  NoSession = NoSession
  NoWrite = NoWrite
INVARIANTS
  SlotsMatchDescriptors
  ReadsMakeSense
  NothingLost
  TooLongIsTrue
PROPERTIES
  CounterStepsAreAsked
  EverySessionIsServed
CHECK_DEADLOCK FALSE
