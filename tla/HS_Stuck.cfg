CONSTANTS
  Node <- MCPair
  MaxEph = 2
  GuardDropped = FALSE
  Faults <- Copies
SPECIFICATION FairSpec
PROPERTIES
  TransitioningIsTemporary
