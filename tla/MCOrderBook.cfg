CONSTANTS
  u1 = u1
  u2 = u2
  Users = {u1, u2}
  Prices = {1, 2}
  MarketPrices = {0, 3}
  Sizes = {1, 2}
  MaxOrders = 4
  L2SIZE = 1
  U64MAX = 9
SPECIFICATION Spec
SYMMETRY UserSymmetry
INVARIANTS
  TypeOK
  NoCrossBetweenUsers
  PriceTimePriority
  QueuesSortedById
  IndexSound
  RestingBidsIndexed
  VolumeIsSum
  FokAllOrNothing
  EventsMatchBook
  ViewsAgree
PROPERTY
  CancelOnlyRemovesTarget
