-------------------------- MODULE MarketOrderBook --------------------------
(***************************************************************************)
(* The client's copy of a symbol's book, market_order_book.h and .cpp:     *)
(*   - the orders of a price are a ring, oldest first;                     *)
(*   - the prices of a side are a ring too, best first;                    *)
(*   - the best bid and offer are kept and redone only when an update is   *)
(*     at the best price or better.                                        *)
(* A pooled object is known here by the table entry that points to it: the *)
(* order by its id, the level by its price.  The default band has as many  *)
(* prices as the table, so priceToIndex never maps two of them to one.     *)
(***************************************************************************)
EXTENDS Integers, FiniteSets, SequencesExt

CONSTANTS OrderIds,   \* market order ids
          Prices,     \* the band, as indexes of the table
          Quantities, \* sizes of orders
          None        \* nullptr

Sides == {"BUY", "SELL"}

\* What MarketOrder and MarketOrdersAtPrice keep besides their key.
Order == [side : Sides, price : Prices, qty : Quantities,
          prev_order_ : OrderIds, next_order_ : OrderIds]
Level == [side : Sides, first_mkt_order_ : OrderIds,
          prev_entry_ : Prices, next_entry_ : Prices]

ASSUME MarketOrderBookAssumption ==
  /\ Prices \subseteq Nat /\ IsFiniteSet(Prices) /\ IsFiniteSet(OrderIds)
  /\ Quantities \subseteq Nat \ {0}
  /\ None \notin OrderIds \cup Prices /\ None \notin Order /\ None \notin Level

VARIABLES oid_to_order_,          \* the MarketOrder of every id
          price_orders_at_price_, \* the MarketOrdersAtPrice of every price
          by_price_,              \* bids_by_price_ and asks_by_price_
          bbo_                    \* price and quantity of each side

vars == <<oid_to_order_, price_orders_at_price_, by_price_, bbo_>>

EmptySide == [price |-> 0, quantity |-> 0]
NoOrders == [o \in OrderIds |-> None]
NoLevels == [p \in Prices |-> None]
Init == /\ oid_to_order_ = NoOrders
        /\ price_orders_at_price_ = NoLevels
        /\ by_price_ = [side \in Sides |-> None]
        /\ bbo_ = [side \in Sides |-> EmptySide]

Held == {o \in OrderIds : oid_to_order_[o] # None}
HeldAt(orders, p) == {o \in OrderIds : orders[o] # None /\ orders[o].price = p}
LevelsOf(levels, side) == {p \in Prices : levels[p] # None /\ levels[p].side = side}
Worse(side, p, q) == IF side = "BUY" THEN p < q ELSE p > q

\* The rings, from the first element to the one before it.
QueueAt(orders, levels, p) ==
  LET walk[n \in 1 .. Cardinality(HeldAt(orders, p))] ==
        IF n = 1 THEN levels[p].first_mkt_order_ ELSE orders[walk[n - 1]].next_order_
  IN walk
LevelRing(levels, side, best) ==
  LET walk[n \in 1 .. Cardinality(LevelsOf(levels, side))] ==
        IF n = 1 THEN best ELSE levels[walk[n - 1]].next_entry_
  IN walk

-----------------------------------------------------------------------------
\* updateBBO
Total(quantities) == FoldLeft(LAMBDA sum, qty : sum + qty, 0, quantities)
BestShown(orders, levels, best) ==
  IF best = None THEN EmptySide
  ELSE [price |-> best,
        quantity |-> LET queue == QueueAt(orders, levels, best)
                     IN Total([n \in DOMAIN queue |-> orders[queue[n]].qty])]

\* Mutant: an update at the best price does not count.
TouchesBetterOnly(side, updated, price) ==
  /\ side = updated
  /\ by_price_[side] = None \/ Worse(side, by_price_[side], price)

\* bid_updated and ask_updated: decided before the update is applied.
Touches(side, updated, price) ==
  /\ side = updated
  /\ by_price_[side] = None \/ ~ Worse(side, price, by_price_[side])

UpdateBBO(updated, price) ==
  bbo_' = [side \in Sides |->
             IF Touches(side, updated, price)
             THEN BestShown(oid_to_order_', price_orders_at_price_', by_price_'[side])
             ELSE bbo_[side]]

-----------------------------------------------------------------------------
\* Mutant: the search starts with the second level and looks at one only.
FollowerOfSecond(side, price) ==
  LET second == price_orders_at_price_[by_price_[side]].next_entry_
  IN IF Worse(side, price, by_price_[side]) THEN second ELSE by_price_[side]

\* addOrdersAtPrice: the level that a new one is put before; the best when it
\* is better than all or, round the ring, worse than all.
Follower(side, price) ==
  LET ring == LevelRing(price_orders_at_price_, side, by_price_[side])
      notWorse == {n \in DOMAIN ring : ~ Worse(side, price, ring[n])}
  IN IF notWorse = {} THEN by_price_[side]
     ELSE ring[CHOOSE n \in notWorse : \A k \in notWorse : n <= k]

AddOrdersAtPrice(side, price, order) ==
  LET NewLevel(before, after) ==
        [side |-> side, first_mkt_order_ |-> order,
         prev_entry_ |-> before, next_entry_ |-> after]
      best == by_price_[side]
      after == Follower(side, price)
      before == price_orders_at_price_[after].prev_entry_
  IN IF best = None
     THEN /\ price_orders_at_price_' =
               [price_orders_at_price_ EXCEPT ![price] = NewLevel(price, price)]
          /\ by_price_' = [by_price_ EXCEPT ![side] = price]
     ELSE /\ price_orders_at_price_' =
               [price_orders_at_price_ EXCEPT ![price] = NewLevel(before, after),
                                              ![before].next_entry_ = price,
                                              ![after].prev_entry_ = price]
          /\ by_price_' =
               [by_price_ EXCEPT ![side] = IF Worse(side, best, price) THEN price ELSE @]

\* onMarketUpdate, ADD: addOrder joins the end of its price's ring.
Add(order, side, price, qty) ==
  LET level == price_orders_at_price_[price]
      first == level.first_mkt_order_
      last == oid_to_order_[first].prev_order_
      NewOrder(before, after) ==
        [side |-> side, price |-> price, qty |-> qty,
         prev_order_ |-> before, next_order_ |-> after]
  IN /\ IF level = None
        THEN /\ oid_to_order_' = [oid_to_order_ EXCEPT ![order] = NewOrder(order, order)]
             /\ AddOrdersAtPrice(side, price, order)
        ELSE /\ oid_to_order_' =
                  [oid_to_order_ EXCEPT ![order] = NewOrder(last, first),
                                        ![last].next_order_ = order,
                                        ![first].prev_order_ = order]
             /\ UNCHANGED <<price_orders_at_price_, by_price_>>
     /\ UpdateBBO(side, price)

\* onMarketUpdate, MODIFY
Modify(order, qty) ==
  /\ oid_to_order_' = [oid_to_order_ EXCEPT ![order].qty = qty]
  /\ UNCHANGED <<price_orders_at_price_, by_price_>>
  /\ UpdateBBO(oid_to_order_[order].side, oid_to_order_[order].price)

\* removeOrdersAtPrice: the levels and the best of the side without one.
LevelsWithout(price) ==
  LET level == price_orders_at_price_[price]
      linked == IF level.next_entry_ = price THEN price_orders_at_price_
                ELSE [price_orders_at_price_ EXCEPT
                        ![level.prev_entry_].next_entry_ = level.next_entry_,
                        ![level.next_entry_].prev_entry_ = level.prev_entry_]
  IN [linked EXCEPT ![price] = None]
\* Mutant: the best level's predecessor in the ring takes its place.
BestWithoutBackwards(side, price) ==
  LET prev == price_orders_at_price_[price].prev_entry_
  IN IF prev = price THEN None
     ELSE IF by_price_[side] = price THEN prev ELSE by_price_[side]

BestWithout(side, price) ==
  LET next == price_orders_at_price_[price].next_entry_
  IN IF next = price THEN None
     ELSE IF by_price_[side] = price THEN next ELSE by_price_[side]

\* onMarketUpdate, CANCEL: removeOrder.
Cancel(order) ==
  LET it == oid_to_order_[order]
      before == it.prev_order_
      after == it.next_order_
  IN /\ IF before = order
        THEN /\ oid_to_order_' = [oid_to_order_ EXCEPT ![order] = None]
             /\ price_orders_at_price_' = LevelsWithout(it.price)
             /\ by_price_' = [by_price_ EXCEPT ![it.side] = BestWithout(it.side, it.price)]
        ELSE /\ oid_to_order_' =
                  [oid_to_order_ EXCEPT ![before].next_order_ = after,
                                        ![after].prev_order_ = before, ![order] = None]
             /\ price_orders_at_price_' =
                  [price_orders_at_price_ EXCEPT
                     ![it.price].first_mkt_order_ = IF @ = order THEN after ELSE @]
             /\ UNCHANGED by_price_
     /\ UpdateBBO(it.side, it.price)

\* onMarketUpdate, CLEAR: the head of the snapshot a recovery passes on.
Clear == /\ oid_to_order_' = NoOrders
         /\ price_orders_at_price_' = NoLevels
         /\ by_price_' = [side \in Sides |-> None]
         /\ bbo_' = [side \in Sides |-> EmptySide]

-----------------------------------------------------------------------------
\* The updates are those of an exchange's book (MarketData), which is never
\* crossed and fills an order at the price it was added with (BookCore).
\* TRADE changes nothing here.
Fits(side, price) ==
  \A p \in LevelsOf(price_orders_at_price_, IF side = "BUY" THEN "SELL" ELSE "BUY") :
    Worse(side, price, p)

Next == \/ \E order \in OrderIds \ Held, side \in Sides, price \in Prices, qty \in Quantities :
             Fits(side, price) /\ Add(order, side, price, qty)
        \/ \E order \in Held, qty \in Quantities :
             qty < oid_to_order_[order].qty /\ Modify(order, qty)
        \/ \E order \in Held : Cancel(order)
        \/ Clear

Spec == Init /\ [][Next]_vars

-----------------------------------------------------------------------------
\* The check of toString (market_order_book.cpp 137-143) that ends the
\* process never does: from the best on, the ring of a side visits all its
\* prices, each worse than the one before, and leads back.
LevelsSorted ==
  \A side \in Sides :
    LET levels == LevelsOf(price_orders_at_price_, side)
        ring == LevelRing(price_orders_at_price_, side, by_price_[side])
    IN /\ levels = {} <=> by_price_[side] = None
       /\ \A n \in DOMAIN ring : ring[n] \in levels
       /\ \A n \in 2 .. Len(ring) : Worse(side, ring[n], ring[n - 1])
       /\ \A p \in levels :
            price_orders_at_price_[price_orders_at_price_[p].next_entry_].prev_entry_ = p

\* The orders of a price of a side, oldest first, with what is left of each.
QueueOf(orders, levels, side, p) ==
  IF p \in LevelsOf(levels, side)
  THEN [n \in DOMAIN QueueAt(orders, levels, p) |->
          LET o == QueueAt(orders, levels, p)[n]
          IN [order |-> o, quantity |-> orders[o].qty]]
  ELSE << >>
queues == [side \in Sides |-> [p \in Prices |->
             QueueOf(oid_to_order_, price_orders_at_price_, side, p)]]

\* The rings and the best bid and offer are those of the queues of ClientBook.
Abstract == INSTANCE ClientBook WITH queue <- queues, bbo <- bbo_
ImplementsBook == Abstract!Spec
=============================================================================
