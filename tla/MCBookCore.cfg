SPECIFICATION Spec
CONSTANTS
  Clients = {c1, c2}
  ClientOrderIds = {o1, o2}
  TickCount = 3
  BasePrice = 100
  TickSize = 5
  MaxQuantity = 2
  MaxOrders = 4
  ReuseLiveIds = FALSE
SYMMETRY ClientSymmetry
INVARIANTS
  NeverCrossed
  IndexExact
  ClientsToldTruth
  UpdatesRebuildBook
PROPERTIES
  PriceTimePriority
