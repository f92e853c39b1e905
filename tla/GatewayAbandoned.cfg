SPECIFICATION Spec
CONSTANTS
  Gateways = {g1}
  Ports = {p1, p2}
  Sessions = {s1}
  MaxAttempts = 1
  MaxChannels = 1
  MaxFlaps = 1
  None = None
PROPERTY
  AbandonedSessionFreed
