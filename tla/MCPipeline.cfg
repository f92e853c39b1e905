CONSTANTS
  RiskShards = {0, 1}
  Routers = {0, 1}
  BUFFER_SIZE = 3
  MaxSeq = 7
SPECIFICATION Spec
INVARIANTS
  TypeOK
  BarrierOrder
  StageExclusive
  NoOverwrite
PROPERTY
  EveryCommandServed
CHECK_DEADLOCK FALSE
