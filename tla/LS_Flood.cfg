CONSTANTS
  Node <- MCNode
  Origin <- MCOrigin
  Hears <- MCHears
  Skew <- MCSkew
  StaleAge = 1
  Calm = 1
  MaxClock = 3
  MaxEvents = 3
SPECIFICATION FairSpec
INVARIANTS
  TypeOK
  UniqueLsa
  SequenceOrdersLists
  Converges
PROPERTIES
  ViewSpec
  FloodsEnd
  DepartedForgotten
CHECK_DEADLOCK FALSE
