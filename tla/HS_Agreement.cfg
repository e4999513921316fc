CONSTANTS
  Node <- MCPair
  MaxEph = 2
  GuardDropped = TRUE
  Faults <- CopiesAndQuiet
SPECIFICATION Spec
INVARIANTS
  TypeOK
  SessionAgreement
  AgreementInv
PROPERTIES
  TransportUntilRemoved
  PeerTableSpec
