CONSTANTS
  RiskShards = {0}
  Routers = {0}
  BUFFER_SIZE = 2
  MaxSeq = 8
  FRAMESIZE = 3
  TERM_LENGTH = 5
  MaxCommands = 2
  MaxBoots = 2
SPECIFICATION Spec
PROPERTY
  ReplayEnds
CHECK_DEADLOCK FALSE
