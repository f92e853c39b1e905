CONSTANTS
  NODE_MAX = 1
  STEP_MAX = 2
  TIMESTAMP_MAX = 6
  SPINS = 2
  DEADLINE = 1
  MaxClock = 8
SPECIFICATION Spec
INVARIANTS
  TypeOK
  IdRoundTrip
PROPERTIES
  IdsIncrease
  WaitEnds
CHECK_DEADLOCK FALSE
