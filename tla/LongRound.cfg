\* More requests may be pending than the sort keeps in order, as in the code
\* (1024 and 16); the kernel has room for everything.
SPECIFICATION EntrySpec
CONSTANTS
  Clients = {c1, c2}
  Times = {1, 2}
  None = None
  kMaxPendingRequests = 2
  StableLimit = 1
  SocketBuffer = 4
  MaxConnections = 2
  MaxRequests = 2
  MaxResponses = 2
INVARIANT RequestsInOrder
CHECK_DEADLOCK FALSE
