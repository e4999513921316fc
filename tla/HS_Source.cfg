CONSTANTS
  Node <- MCPair
  MaxEph = 2
  GuardDropped = FALSE
  Faults <- AllFaults
SPECIFICATION Spec
INVARIANTS
  NeverMutual
  PeerHasSession
CHECK_DEADLOCK FALSE
