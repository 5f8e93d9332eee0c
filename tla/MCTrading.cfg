\* The threads: room for one response and for two of everything else, and more
\* of it arrives, so that every queue can be full.
\* The position: up to three, in fills of one to four: opened, increased,
\* reduced, closed and turned round in one fill, and again.
\* The pool: four slots, so that links can be lost at both ends of the list.
SPECIFICATION MCSpec
CONSTANTS
  RequestCapacity = 2
  ResponseCapacity = 1
  UpdateCapacity = 2
  StrategyRequests = 2
  MaxResponses = 2
  MaxUpdates = 3
  Prices = {1, 2, 4}
  Quantities = {1, 2, 4}
  Unit = 15552
  MaxPosition = 3
  MaxFills = 5
  PoolCapacity = 4
  Objects = {a, b}
INVARIANTS
  RequestsOffered
  HeardBeforeStop
  ResponsesKept
  ProfitExact
  OpenAtAnAverage
  ObjectsIntact
  HighWaterExact
  AbortsOnlyWhenFull
PROPERTY StopEnds
\* The program may come to its end, a flat position after the last fill is not
\* valued again, and a pool that is asked for a slot it has not ends the process.
CHECK_DEADLOCK FALSE
