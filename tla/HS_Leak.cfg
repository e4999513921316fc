CONSTANTS
  Node <- MCPair
  MaxEph = 2
  GuardDropped = FALSE
  Faults <- Crashes
SPECIFICATION FairSpec
PROPERTIES
  DeadSessionReclaimed
CHECK_DEADLOCK FALSE
