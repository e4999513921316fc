CONSTANTS
  Node <- MCPair
  MaxEph = 2
  GuardDropped = FALSE
  Faults <- Quiet
SPECIFICATION Spec
PROPERTIES
  OnlyStaleRemoved
