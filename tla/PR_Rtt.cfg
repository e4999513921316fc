CONSTANTS
  Peer = {a}
  Interval = 2
  Timeout = 3
  Lag = 1
  MaxNow = 8
SPECIFICATION Spec
INVARIANTS
  TypeOK
  RttBounds
  SampledOnce
  PingDbBounded
  OnRecord
PROPERTIES
  HandledWhenEstablished
CHECK_DEADLOCK FALSE
