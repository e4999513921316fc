CONSTANTS
  Node <- MCPair
  MaxEph = 2
  GuardDropped = FALSE
  Faults <- NoFaults
SPECIFICATION FairSpec
PROPERTIES
  EstablishedEventually
