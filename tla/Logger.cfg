\* The two threads of a random trading client, two elements each.
SPECIFICATION Spec
CONSTANTS
  Threads = {main, engine}
  Capacity = 8
  MaxElements = 2
  MaxFlushed = 8
INVARIANT ClosedComplete
CHECK_DEADLOCK FALSE
