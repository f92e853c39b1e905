CONSTANTS
  RiskShards = {0}
  Routers = {0}
  BUFFER_SIZE = 2
  MaxSeq = 12
  FRAMESIZE = 3
  TERM_LENGTH = 11
  MaxCommands = 2
  MaxBoots = 3
SPECIFICATION Spec
INVARIANTS
  AnsweredSurvive
  RecordedOnceIfDrained
CHECK_DEADLOCK FALSE
