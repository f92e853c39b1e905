SPECIFICATION Spec
CONSTANTS
  Gateways = {g1, g2}
  Ports = {p1, p2, p3, p4}
  Sessions = {s1, s2}
  MaxAttempts = 2
  MaxChannels = 2
  MaxFlaps = 1
  None = None
INVARIANTS
  TypeOK
  SessionPortsExclusive
  CapacityCountExact
  ResponsesGoToTheSlot
  NoOrphanChannel
  HandlersOutliveCallbacks
  LiveSessionKept
  LostSessionQueued
SYMMETRY Symmetry
