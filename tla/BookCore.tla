------------------------------ MODULE BookCore ------------------------------
(***************************************************************************)
(* exchange/matcher/book_core.h and .cc: the matching of one symbol.       *)
(*                                                                         *)
(* The two sides are used through what BookSide promises (PriceLevels      *)
(* implements it): the best tick of a side, the oldest order of a tick,    *)
(* the next priority of a tick, which restarts when the tick is emptied.   *)
(* The index gives the order of a client's order number to Cancel.         *)
(*                                                                         *)
(* Add is a loop: one step accepts the request, each turn of the inner     *)
(* loop of Match is a step, and one step rests what is left.  The messages *)
(* a step sends are applied to two histories in the order they are sent:   *)
(* told, what each client last heard of each of its order numbers, and     *)
(* mirror, the book as a reader of the market updates keeps it.            *)
(***************************************************************************)
EXTENDS Integers, FiniteSetsExt

CONSTANTS Clients,        \* client ids
          ClientOrderIds, \* client order ids
          TickCount,      \* kTickCount
          BasePrice,      \* PriceBand::base_price
          TickSize,       \* PriceBand::tick_size
          MaxQuantity,    \* bound of the model: the largest order
          MaxOrders,      \* bound of the model: how many orders are accepted
          ReuseLiveIds    \* may a client reuse the number of a resting order

\* PriceBand::IsValid, asserted by the constructor.
ASSUME BandAssumption ==
  BasePrice \in Nat /\ TickSize \in Nat \ {0} /\ TickCount \in Nat
ASSUME BoundsAssumption ==
  MaxQuantity \in Nat /\ MaxOrders \in Nat /\ ReuseLiveIds \in BOOLEAN

Ticks == 0 .. (TickCount - 1)
Sides == {"BUY", "SELL"}
Opposite(side) == IF side = "BUY" THEN "SELL" ELSE "BUY"
Quantities == 1 .. MaxQuantity
OrderIds == 1 .. MaxOrders
None == 0
NoTaker == [quantity |-> 0, side |-> "NONE"]

ToTick(price) == (price - BasePrice) \div TickSize
ToPrice(tick) == BasePrice + tick * TickSize
Prices == {ToPrice(tick) : tick \in Ticks}

VARIABLES
  book,                  \* the resting orders of both sides
  next_priority,         \* of every tick of every side
  orders_,               \* the index: the resting order of a client's number
  next_market_order_id_,
  taker,                 \* the order being matched, or NoTaker
  told,                  \* history: the last response to each client order
  mirror                 \* history: the book rebuilt from the market updates

vars == <<book, next_priority, orders_, next_market_order_id_, taker, told,
          mirror>>

ClientOrders == Clients \X ClientOrderIds
Order == [id : OrderIds, client : Clients, client_order : ClientOrderIds,
          side : Sides, tick : Ticks, quantity : Quantities, priority : Nat \ {0}]
Taker == [id : OrderIds, client : Clients, client_order : ClientOrderIds,
          side : Sides, price : Prices, limit_tick : Ticks,
          quantity : 0 .. MaxQuantity]
PublicOrder == [id : OrderIds, side : Sides, price : Prices, quantity : Quantities,
                priority : Nat \ {0}]
Told == [type : {"NONE", "ACCEPTED", "FILLED", "CANCELED", "CANCEL_REJECTED"},
         remaining : 0 .. MaxQuantity]

TypeOK ==
  /\ book \subseteq Order
  /\ next_priority \in [Sides \X Ticks -> Nat \ {0}]
  /\ orders_ \in [ClientOrders -> OrderIds \cup {None}]
  /\ next_market_order_id_ \in 1 .. (MaxOrders + 1)
  /\ taker \in Taker \cup {NoTaker}
  /\ told \in [ClientOrders -> Told]
  /\ mirror \subseteq PublicOrder

Init ==
  /\ book = {}
  /\ next_priority = [level \in Sides \X Ticks |-> 1]
  /\ orders_ = [key \in ClientOrders |-> None]
  /\ next_market_order_id_ = 1
  /\ taker = NoTaker
  /\ told = [key \in ClientOrders |-> [type |-> "NONE", remaining |-> 0]]
  /\ mirror = {}

-----------------------------------------------------------------------------
\* One side of the book.

Key(order) == <<order.client, order.client_order>>
LevelOf(order) == <<order.side, order.tick>>
LevelAt(side, tick) == {o \in book : o.side = side /\ o.tick = tick}
OccupiedTicks(side) == {o.tick : o \in {p \in book : p.side = side}}

\* BestTick() of a side that is not empty.
BestTick(side) == IF side = "BUY" THEN Max(OccupiedTicks(side))
                                  ELSE Min(OccupiedTicks(side))

\* Is o the head of the queue at its tick?
IsFirst(o) == \A p \in LevelAt(o.side, o.tick) : o.priority <= p.priority

\* Mutant: the numbering restarts at every removal.
PrioritiesWithoutAlways(o) == [next_priority EXCEPT ![LevelOf(o)] = 1]

\* RemoveOrder(): the numbering of a tick restarts when it is emptied.
PrioritiesWithout(o) ==
  IF LevelAt(o.side, o.tick) = {o}
  THEN [next_priority EXCEPT ![LevelOf(o)] = 1] ELSE next_priority

\* Mutant: the entry of the order that is gone stays.
UnindexOrderNever(o) == orders_

UnindexOrder(o) == [orders_ EXCEPT ![Key(o)] = None]

-----------------------------------------------------------------------------
\* The messages.

\* The last response to an order number.
Respond(heard, key, type, remaining) ==
  [heard EXCEPT ![key] = [type |-> type, remaining |-> remaining]]

\* A reader of the market updates follows them, by order number.
Public(o, price) == [id |-> o.id, side |-> o.side, price |-> price,
                     quantity |-> o.quantity, priority |-> o.priority]
AfterAdd(seen, o, price) == seen \cup {Public(o, price)}
AfterModify(seen, id, price, quantity) ==
  {IF p.id = id THEN [p EXCEPT !.price = price, !.quantity = quantity] ELSE p : p \in seen}
AfterCancel(seen, id) == {p \in seen : p.id # id}

-----------------------------------------------------------------------------
\* Add(), its entry: the order is numbered and accepted whatever the book
\* holds.  The price is in the band and on a tick, as book_core.h 47-55
\* demands of the caller.
Add(client, client_order, side, price, quantity) ==
  /\ taker = NoTaker
  /\ next_market_order_id_ <= MaxOrders
  /\ ReuseLiveIds \/ \A o \in book : Key(o) # <<client, client_order>>
  /\ taker' = [id |-> next_market_order_id_, client |-> client,
               client_order |-> client_order, side |-> side, price |-> price,
               limit_tick |-> ToTick(price), quantity |-> quantity]
  /\ next_market_order_id_' = next_market_order_id_ + 1
  /\ told' = Respond(told, <<client, client_order>>, "ACCEPTED", quantity)
  /\ UNCHANGED <<book, next_priority, orders_, mirror>>

\* Mutant: an order at the limit itself does not cross.
CrossesStrictly ==
  LET side == Opposite(taker.side) IN
  /\ OccupiedTicks(side) # {}
  /\ IF taker.side = "BUY" THEN BestTick(side) < taker.limit_tick
                           ELSE BestTick(side) > taker.limit_tick

\* Does the taker reach the best order of the other side?
Crosses ==
  LET side == Opposite(taker.side) IN
  /\ OccupiedTicks(side) # {}
  /\ IF taker.side = "BUY" THEN BestTick(side) <= taker.limit_tick
                           ELSE BestTick(side) >= taker.limit_tick

\* The order filled next: the head of the best tick of the other side.
IsMaker(o) ==
  /\ o.side = Opposite(taker.side)
  /\ o.tick = BestTick(o.side)
  /\ IsFirst(o)

Executed(maker) == Min({taker.quantity, maker.quantity})

\* Mutant: the maker hears the size of the fill, not what it has left.
TellFillSize(maker) ==
  Respond(Respond(told, Key(taker), "FILLED", taker.quantity - Executed(maker)),
          Key(maker), "FILLED", Executed(maker))

\* The responses of one fill, the taker's and then the maker's.
TellFill(maker) ==
  Respond(Respond(told, Key(taker), "FILLED", taker.quantity - Executed(maker)),
          Key(maker), "FILLED", maker.quantity - Executed(maker))

\* Mutant: the quantity from before the fill is published.
PublishFillStale(maker) ==
  IF Executed(maker) = maker.quantity THEN AfterCancel(mirror, maker.id)
  ELSE AfterModify(mirror, maker.id, ToPrice(maker.tick), maker.quantity)

\* The updates of one fill: TRADE, which leaves a reader's book alone, and
\* then CANCEL or MODIFY.
PublishFill(maker) ==
  IF Executed(maker) = maker.quantity THEN AfterCancel(mirror, maker.id)
  ELSE AfterModify(mirror, maker.id, ToPrice(maker.tick),
                   maker.quantity - Executed(maker))

\* One turn of the loops of Match().
MatchFill ==
  /\ taker.quantity > 0
  /\ Crosses
  /\ \E maker \in book :
       /\ IsMaker(maker)
       /\ taker' = [taker EXCEPT !.quantity = @ - Executed(maker)]
       /\ told' = TellFill(maker)
       /\ mirror' = PublishFill(maker)
       /\ IF Executed(maker) = maker.quantity
          THEN /\ book' = book \ {maker}
               /\ next_priority' = PrioritiesWithout(maker)
               /\ orders_' = UnindexOrder(maker)
          ELSE /\ book' = (book \ {maker}) \cup
                          {[maker EXCEPT !.quantity = @ - Executed(maker)]}
               /\ UNCHANGED <<next_priority, orders_>>
  /\ UNCHANGED next_market_order_id_

\* Add(), its end, when Match() has left nothing.
AddFilled ==
  /\ taker # NoTaker
  /\ taker.quantity = 0
  /\ taker' = NoTaker
  /\ UNCHANGED <<book, next_priority, orders_, next_market_order_id_, told, mirror>>

\* Add(), its end, when something is left: it joins the tail of its tick, is
\* indexed and becomes public.
AddRest ==
  /\ taker.quantity > 0
  /\ ~ Crosses
  /\ LET level == <<taker.side, taker.limit_tick>>
         order == [id |-> taker.id, client |-> taker.client,
                   client_order |-> taker.client_order, side |-> taker.side,
                   tick |-> taker.limit_tick, quantity |-> taker.quantity,
                   priority |-> next_priority[level]]
     IN
     /\ book' = book \cup {order}
     /\ next_priority' = [next_priority EXCEPT ![level] = @ + 1]
     /\ orders_' = [orders_ EXCEPT ![Key(order)] = order.id]
     /\ mirror' = AfterAdd(mirror, order, taker.price)
  /\ taker' = NoTaker
  /\ UNCHANGED <<next_market_order_id_, told>>

\* Cancel() of a number the index does not know.
CancelRejected(client, client_order) ==
  /\ taker = NoTaker
  /\ orders_[<<client, client_order>>] = None
  /\ told' = Respond(told, <<client, client_order>>, "CANCEL_REJECTED", 0)
  /\ UNCHANGED <<book, next_priority, orders_, next_market_order_id_, taker, mirror>>

\* Cancel() of the order the index gives.
Cancel(client, client_order) ==
  /\ taker = NoTaker
  /\ \E o \in book :
       /\ o.id = orders_[<<client, client_order>>]
       /\ told' = Respond(told, <<client, client_order>>, "CANCELED", o.quantity)
       /\ mirror' = AfterCancel(mirror, o.id)
       /\ orders_' = UnindexOrder(o)
       /\ book' = book \ {o}
       /\ next_priority' = PrioritiesWithout(o)
  /\ UNCHANGED <<next_market_order_id_, taker>>

Next ==
  \/ \E client \in Clients, client_order \in ClientOrderIds, side \in Sides,
        price \in Prices, quantity \in Quantities :
       Add(client, client_order, side, price, quantity)
  \/ MatchFill \/ AddFilled \/ AddRest
  \/ \E client \in Clients, client_order \in ClientOrderIds :
       CancelRejected(client, client_order) \/ Cancel(client, client_order)

Spec == Init /\ [][Next]_vars

-----------------------------------------------------------------------------
\* Properties.

\* The book is never crossed or locked, not even between two fills: whatever
\* a request could have traded with, it has traded with before the rest of it
\* joins the book (book_core.cc 64-69).
NeverCrossed ==
  \A bid, ask \in book :
    bid.side = "BUY" /\ ask.side = "SELL" => bid.tick < ask.tick

\* Price-time priority, by the order in which the exchange accepted: an order
\* is filled only when no order on its side has a better price or, at its
\* price, was accepted earlier, and never beyond the taker's limit.  Match()
\* compares neither prices nor times: it goes by the best tick and the head
\* of a queue whose numbering restarts (book_core.cc 135-152).
GoesBefore(o, p) ==
  \/ IF o.side = "BUY" THEN o.tick > p.tick ELSE o.tick < p.tick
  \/ o.tick = p.tick /\ o.id <= p.id

PriceTimePriority ==
  [][\A o \in book :
       taker # NoTaker /\ o \notin book' =>
         /\ \A p \in book : p.side = o.side => GoesBefore(o, p)
         /\ o.side # taker.side
         /\ IF o.side = "BUY" THEN o.tick >= taker.limit_tick
                              ELSE o.tick <= taker.limit_tick]_vars

\* The index finds every resting order by its client's number, and nothing
\* that has left the book: no Cancel misses its order or follows a pointer
\* to a node that went back to the pool (book_core.cc 71, 117, 203).
IndexExact ==
  /\ \A o \in book : orders_[Key(o)] = o.id
  /\ \A key \in ClientOrders :
       orders_[key] # None => \E o \in book : Key(o) = key /\ o.id = orders_[key]

\* What a client last heard of an order number is the truth: it has exactly
\* the quantity open that ACCEPTED or FILLED reported, and none after
\* CANCELED or CANCEL_REJECTED.
OpenQuantities(key) ==
  {o.quantity : o \in {p \in book : Key(p) = key}} \cup
  (IF taker # NoTaker /\ Key(taker) = key THEN {taker.quantity} ELSE {})

ClientsToldTruth ==
  \A key \in ClientOrders :
    LET open == IF told[key].type \in {"ACCEPTED", "FILLED"}
                THEN told[key].remaining ELSE 0
    IN  OpenQuantities(key) \ {0} = {open} \ {0}

\* A reader that applies the market updates as they come, as the
\* SnapshotSynthesizer does (snapshot_synthesizer.cc 66-103), has the book:
\* the same orders, prices, open quantities and ranks.
UpdatesRebuildBook == mirror = {Public(o, ToPrice(o.tick)) : o \in book}
=============================================================================
