\* Two connections: of two clients, or of one that comes back; up to three
\* requests and three answers each, five messages in all, so that one read can
\* hold one and a half, and one can follow a lost one.  The kernel has room for
\* one message, and the sort keeps the order of two requests, not of three.
SPECIFICATION MCSpec
CONSTANTS
  Clients = {c1, c2}
  Times = {1, 2}
  None = None
  kMaxPendingRequests = 3
  StableLimit = 2
  SocketBuffer = 2
  MaxConnections = 2
  MaxRequests = 3
  MaxResponses = 3
  MaxMessages = 5
SYMMETRY ClientSymmetry
INVARIANT LostOnlyBySend
PROPERTY RoundsInOrder
\* FATAL ends the exchange, the bounds end the rest, and nothing is followed
\* beyond a stream that is out of step.
CHECK_DEADLOCK FALSE
