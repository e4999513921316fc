CONSTANTS
  Node <- MCPair
  MaxEph = 2
  GuardDropped = TRUE
  Faults <- Crashes
SPECIFICATION FairSpec
PROPERTIES
  EstablishedEventually
  DeadPeerRemoved
CHECK_DEADLOCK FALSE
