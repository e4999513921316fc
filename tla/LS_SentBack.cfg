CONSTANTS
  Node <- MCNode
  Origin <- MCOrigin
  Hears <- MCHears
  Skew <- MCSkew
  StaleAge = 1
  Calm = 1
  MaxClock = 3
  MaxEvents = 3
SPECIFICATION Spec
PROPERTIES
  NotSentBack
CHECK_DEADLOCK FALSE
