\* Two orders, so that a cycle of the snapshot can be three datagrams, and
\* three updates: one beyond a gap that a recovery starts from.
SPECIFICATION FairSpec
CONSTANTS
  Symbols = {1}
  OrderIds = {1, 2}
  MaxQuantity = 1
  MaxUpdates = 3
  UpdateTypes = {"ADD", "CANCEL"}
  MaxFaults = 2
INVARIANTS
  SynthesizerExact
  NextExpectedExact
  RecoveryIsAhead
PROPERTIES
  ImplementsFeed
  NothingQueuedForgotten
  RecoveryEnds
CHECK_DEADLOCK FALSE
