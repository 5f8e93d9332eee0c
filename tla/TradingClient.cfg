\* Two prices, so that an order can be moved; orders of two and a limit of
\* three: the first order keeps within it, a second one of the same side passes
\* it once two are filled and just reaches it once one is; four orders, so
\* that each side is replaced at least once.
SPECIFICATION FairSpec
CONSTANTS
  Prices = {1, 2}
  NoPrice = NoPrice
  Clip = 2
  max_order_size_ = 2
  max_position_ = 3
  MaxOrders = 4
INVARIANTS
  PositionWithinLimit
  NothingForgotten
  RequestsFit
  LiveIsThere
PROPERTY Settles
