\* The kernel has room for one message; every round is short.
SPECIFICATION EntrySpec
CONSTANTS
  Clients = {c1, c2}
  Times = {1, 2}
  None = None
  kMaxPendingRequests = 2
  StableLimit = 2
  SocketBuffer = 2
  MaxConnections = 2
  MaxRequests = 2
  MaxResponses = 2
INVARIANT NothingLost
CHECK_DEADLOCK FALSE
