CONSTANTS
  a = a
  b = b
  Id <- MCIds
  Ttl = 2
  Period = 2
  Beat = 1
  Lag = 1
  Hang = 0
  MaxTime = 6
SPECIFICATION Spec
SYMMETRY Symmetry
INVARIANTS
  TypeOK
  NothingLingers
  PurgeOnlyShrinks
PROPERTIES
  DroppedAfterMisses
  TableSpec
CHECK_DEADLOCK FALSE
