--------------------------- MODULE BookCoreProofs ---------------------------
(***************************************************************************)
(* Proofs about BookCore, for every band, number of clients and size of    *)
(* order: the invariant Inv is inductive, and it implies that the book is  *)
(* never crossed, that fills keep price-time priority, that the index is   *)
(* exact and the clients are told the truth when no live number is reused, *)
(* and that the market updates rebuild the book.                           *)
(***************************************************************************)
EXTENDS BookCore, TLAPS, WellFoundedInduction

-----------------------------------------------------------------------------
\* Arithmetic.

\* A non-empty set of ticks has a lowest one.
LEMMA MinExists ==
  ASSUME NEW T \in SUBSET Nat, T # {}
  PROVE  \E x \in T : \A y \in T : x <= y
<1>1. PICK m \in T : \A k \in T : <<k, m>> \notin OpToRel(<, Nat)
  BY WFMin, NatLessThanWellFounded, Zenon
<1>2. \A k \in T : ~ (k < m)
  BY <1>1, Zenon DEF OpToRel
<1> QED BY <1>2

\* A non-empty set of ticks has a highest one.
LEMMA MaxExists ==
  ASSUME NEW N \in Nat, NEW T \in SUBSET (0 .. N), T # {}
  PROVE  \E x \in T : \A y \in T : x >= y
<1> DEFINE U == {k \in Nat : N - k \in T}
<1>1. U \in SUBSET Nat
  OBVIOUS
<1>2. PICK t \in T : TRUE
  OBVIOUS
<1>3. N - t \in Nat /\ N - (N - t) = t
  BY <1>2
<1>4. U # {}
  BY <1>2, <1>3
<1>5. PICK m \in U : \A k \in U : m <= k
  BY <1>1, <1>4, MinExists, Zenon
<1>6. N - m \in T
  BY <1>5
<1>7. ASSUME NEW y \in T PROVE N - m >= y
  <2>1. N - y \in Nat /\ N - (N - y) = y
    OBVIOUS
  <2>2. N - y \in U
    BY <2>1
  <2>3. m \in Nat /\ m <= N - y
    BY <2>2, <1>5
  <2> QED BY <2>1, <2>3
<1> QED BY <1>6, <1>7

\* The smaller of two numbers.
LEMMA MinOfTwo ==
  ASSUME NEW a \in Nat, NEW b \in Nat
  PROVE  Min({a, b}) = IF a <= b THEN a ELSE b
BY DEF Min

\* A price on a tick is mapped back to its tick.
LEMMA ToTickOfPrice ==
  ASSUME NEW tick \in Nat
  PROVE  ToTick(ToPrice(tick)) = tick
<1> DEFINE product == tick * TickSize
<1>1. product \in Nat /\ (BasePrice + product) - BasePrice = product
  BY BandAssumption
<1>2. product \div TickSize = tick
  BY BandAssumption
<1> QED BY <1>1, <1>2 DEF ToTick, ToPrice
-----------------------------------------------------------------------------
\* The best tick of a side.

\* BestTick is an occupied tick, and no occupied one is better.
LEMMA BestTickIsBest ==
  ASSUME TypeOK, NEW side \in Sides, OccupiedTicks(side) # {}
  PROVE  /\ BestTick(side) \in Ticks
         /\ \E o \in book : o.side = side /\ o.tick = BestTick(side)
         /\ \A o \in book : o.side = side =>
              IF side = "BUY" THEN o.tick <= BestTick(side)
                              ELSE o.tick >= BestTick(side)
<1> DEFINE T == OccupiedTicks(side)
<1>1. T \in SUBSET (0 .. TickCount) /\ T \in SUBSET Nat /\ T \in SUBSET Ticks
  BY BandAssumption DEF OccupiedTicks, TypeOK, Order, Ticks
<1>2. \A o \in book : o.side = side => o.tick \in T
  BY DEF OccupiedTicks
<1>3. \A t \in T : \E o \in book : o.side = side /\ o.tick = t
  BY DEF OccupiedTicks
<1>4. \E x \in T : \A y \in T : x >= y
  BY <1>1, MaxExists, BandAssumption
<1>5. \E x \in T : \A y \in T : x <= y
  BY <1>1, MinExists
<1>6. Max(T) \in T /\ \A y \in T : Max(T) >= y
  BY <1>4 DEF Max
<1>7. Min(T) \in T /\ \A y \in T : Min(T) <= y
  BY <1>5 DEF Min
<1>8. BestTick(side) = IF side = "BUY" THEN Max(T) ELSE Min(T)
  BY DEF BestTick
<1> HIDE DEF T
<1>9. CASE side = "BUY"
  <2>1. BestTick(side) = Max(T)
    BY <1>8, <1>9
  <2>2. \A y \in T : y <= Max(T)
    BY <1>6, <1>1
  <2> QED BY <2>1, <2>2, <1>1, <1>2, <1>3, <1>6, <1>9
<1>10. CASE side = "SELL"
  <2>1. BestTick(side) = Min(T)
    BY <1>8, <1>10
  <2>2. \A y \in T : y >= Min(T)
    BY <1>7, <1>1
  <2> QED BY <2>1, <2>2, <1>1, <1>2, <1>3, <1>7, <1>10
<1> QED BY <1>9, <1>10 DEF Sides
-----------------------------------------------------------------------------
\* The inductive invariant.

\* Market order ids are given out once and grow: an order that is being
\* matched is younger than everything in the book.
IdsInOrder ==
  /\ \A o, p \in book : o.id = p.id => o = p
  /\ \A o \in book : o.id < next_market_order_id_
  /\ taker # NoTaker => /\ taker.id < next_market_order_id_
                        /\ \A o \in book : o.id < taker.id

\* At one price, priorities grow with age, across restarts of the numbering.
RanksInOrder ==
  /\ \A o \in book : o.priority < next_priority[LevelOf(o)]
  /\ \A o, p \in book : LevelOf(o) = LevelOf(p) /\ o.priority <= p.priority
                          => o.id <= p.id

\* When no live number is reused, a number belongs to one order at most.
KeysUnique ==
  /\ \A o, p \in book : Key(o) = Key(p) => o = p
  /\ taker # NoTaker => \A o \in book : Key(o) # Key(taker)

\* The limit tick of the taker is the tick of its price.
TakerOnTick == taker # NoTaker => taker.price = ToPrice(taker.limit_tick)

Inv ==
  /\ TypeOK
  /\ TakerOnTick
  /\ IdsInOrder
  /\ RanksInOrder
  /\ NeverCrossed
  /\ UpdatesRebuildBook
  /\ ReuseLiveIds \/ (KeysUnique /\ IndexExact)

-----------------------------------------------------------------------------
\* What a fill does.

\* A taker with something left is a real one.
LEMMA TakerType ==
  ASSUME TypeOK, taker.quantity > 0
  PROVE  taker \in Taker /\ taker # NoTaker
BY DEF TypeOK, NoTaker

\* The maker of a fill is on the other side, at a price the taker accepts,
\* and neither side gives more than it has.
LEMMA FillFacts ==
  ASSUME TypeOK, taker.quantity > 0, Crosses, NEW maker \in book, IsMaker(maker)
  PROVE  /\ taker \in Taker /\ maker \in Order
         /\ maker.side = Opposite(taker.side)
         /\ IF taker.side = "BUY" THEN maker.tick <= taker.limit_tick
                                  ELSE maker.tick >= taker.limit_tick
         /\ \A o \in book : o.side = maker.side =>
              IF o.side = "BUY" THEN o.tick <= maker.tick ELSE o.tick >= maker.tick
         /\ Executed(maker) \in Quantities
         /\ taker.quantity - Executed(maker) \in 0 .. MaxQuantity
         /\ maker.quantity - Executed(maker) \in 0 .. MaxQuantity
         /\ Executed(maker) # maker.quantity =>
              maker.quantity - Executed(maker) \in Quantities
<1>1. taker \in Taker
  BY TakerType
<1>2. maker \in Order
  BY DEF TypeOK
<1>3. /\ taker.quantity \in 1 .. MaxQuantity /\ maker.quantity \in 1 .. MaxQuantity
      /\ taker.side \in Sides /\ maker.side \in Sides
  BY <1>1, <1>2, BoundsAssumption DEF Taker, Order, Quantities
<1>4. Executed(maker) = IF taker.quantity <= maker.quantity THEN taker.quantity
                                                            ELSE maker.quantity
  BY <1>3, MinOfTwo, BoundsAssumption DEF Executed
<1>5. maker.side = Opposite(taker.side) /\ maker.tick = BestTick(maker.side)
  BY DEF IsMaker
<1>6. OccupiedTicks(maker.side) # {}
  BY DEF OccupiedTicks
<1>7. \A o \in book : o.side = maker.side =>
        IF maker.side = "BUY" THEN o.tick <= maker.tick ELSE o.tick >= maker.tick
  BY <1>3, <1>5, <1>6, BestTickIsBest
<1>8. IF taker.side = "BUY" THEN maker.tick <= taker.limit_tick
                            ELSE maker.tick >= taker.limit_tick
  BY <1>5 DEF Crosses
<1>9. /\ Executed(maker) \in Quantities
      /\ taker.quantity - Executed(maker) \in 0 .. MaxQuantity
      /\ maker.quantity - Executed(maker) \in 0 .. MaxQuantity
      /\ Executed(maker) # maker.quantity =>
              maker.quantity - Executed(maker) \in Quantities
  BY <1>3, <1>4, BoundsAssumption DEF Quantities
<1> QED BY <1>1, <1>2, <1>5, <1>7, <1>8, <1>9
-----------------------------------------------------------------------------
\* Types.

\* The book after a partial fill of maker.
LEMMA PartlyFilled ==
  ASSUME NEW maker \in Order, NEW quantity \in Quantities
  PROVE  LET rest == [maker EXCEPT !.quantity = quantity]
         IN  /\ rest \in Order /\ rest.quantity = quantity
             /\ rest.id = maker.id /\ rest.client = maker.client
             /\ rest.client_order = maker.client_order
             /\ rest.side = maker.side /\ rest.tick = maker.tick
             /\ rest.priority = maker.priority
             /\ Key(rest) = Key(maker) /\ LevelOf(rest) = LevelOf(maker)
BY DEF Order, Key, LevelOf

\* The restarted numbering of a tick is a numbering.
LEMMA PrioritiesType ==
  ASSUME TypeOK, NEW o \in book
  PROVE  /\ PrioritiesWithout(o) \in [Sides \X Ticks -> Nat \ {0}]
         /\ \A p \in book : p # o /\ LevelOf(p) = LevelOf(o) =>
              PrioritiesWithout(o)[LevelOf(p)] = next_priority[LevelOf(p)]
         /\ \A p \in book : LevelOf(p) # LevelOf(o) =>
              PrioritiesWithout(o)[LevelOf(p)] = next_priority[LevelOf(p)]
<1>1. o \in Order /\ LevelOf(o) \in Sides \X Ticks
  BY DEF TypeOK, Order, LevelOf
<1>2. \A p \in book : LevelOf(p) \in Sides \X Ticks
  BY DEF TypeOK, Order, LevelOf
<1>3. \A p \in book : p # o /\ LevelOf(p) = LevelOf(o) =>
                      LevelAt(o.side, o.tick) # {o}
  BY DEF LevelAt, LevelOf
<1> QED BY <1>1, <1>2, <1>3 DEF PrioritiesWithout, TypeOK

\* A reader of MODIFY keeps well-formed orders.
LEMMA ModifyType ==
  ASSUME NEW seen \in SUBSET PublicOrder, NEW id, NEW price \in Prices,
         NEW quantity \in Quantities
  PROVE  AfterModify(seen, id, price, quantity) \subseteq PublicOrder
<1>1. \A p \in seen : [p EXCEPT !.price = price, !.quantity = quantity] \in PublicOrder
  BY DEF PublicOrder
<1>2. \A p \in seen : (IF p.id = id THEN [p EXCEPT !.price = price, !.quantity = quantity]
                                    ELSE p) \in PublicOrder
  BY <1>1
<1> QED BY <1>2 DEF AfterModify

\* Every step keeps the types.
LEMMA TypeStep ==
  ASSUME TypeOK, [Next]_vars
  PROVE  TypeOK'
<1> USE BandAssumption, BoundsAssumption
<1>1. ASSUME NEW client \in Clients, NEW client_order \in ClientOrderIds,
             NEW side \in Sides, NEW price \in Prices, NEW quantity \in Quantities,
             Add(client, client_order, side, price, quantity)
      PROVE  TypeOK'
  <2>1. PICK tick \in Ticks : price = ToPrice(tick)
    BY DEF Prices
  <2>2. ToTick(price) \in Ticks
    BY <2>1, ToTickOfPrice DEF Ticks
  <2>3. quantity \in 0 .. MaxQuantity /\ next_market_order_id_ \in OrderIds
    BY <1>1 DEF Add, TypeOK, Quantities, OrderIds
  <2>4. taker' \in Taker
    BY <1>1, <2>2, <2>3 DEF Add, Taker
  <2>5. told' \in [ClientOrders -> Told]
    BY <1>1, <2>3 DEF Add, Respond, TypeOK, Told
  <2>6. next_market_order_id_' \in 1 .. (MaxOrders + 1)
    BY <1>1 DEF Add, TypeOK
  <2> QED BY <1>1, <2>4, <2>5, <2>6 DEF Add, TypeOK
<1>2. ASSUME MatchFill PROVE TypeOK'
  <2>1. PICK maker \in book :
          /\ IsMaker(maker)
          /\ taker' = [taker EXCEPT !.quantity = @ - Executed(maker)]
          /\ told' = TellFill(maker)
          /\ mirror' = PublishFill(maker)
          /\ IF Executed(maker) = maker.quantity
             THEN /\ book' = book \ {maker}
                  /\ next_priority' = PrioritiesWithout(maker)
                  /\ orders_' = UnindexOrder(maker)
             ELSE /\ book' = (book \ {maker}) \cup
                             {[maker EXCEPT !.quantity = @ - Executed(maker)]}
                  /\ UNCHANGED <<next_priority, orders_>>
    BY <1>2 DEF MatchFill
  <2>2. taker.quantity > 0 /\ Crosses /\ next_market_order_id_' = next_market_order_id_
    BY <1>2 DEF MatchFill
  <2>3. /\ taker \in Taker /\ maker \in Order
        /\ taker.quantity - Executed(maker) \in 0 .. MaxQuantity
        /\ maker.quantity - Executed(maker) \in 0 .. MaxQuantity
        /\ Executed(maker) # maker.quantity =>
             maker.quantity - Executed(maker) \in Quantities
    BY <2>1, <2>2, FillFacts
  <2>4. taker' \in Taker
    BY <2>1, <2>3 DEF Taker
  <2>5. Key(maker) \in ClientOrders /\ Key(taker) \in ClientOrders
    BY <2>3 DEF Key, ClientOrders, Taker, Order
  <2>6. told' \in [ClientOrders -> Told]
    BY <2>1, <2>3, <2>5 DEF TellFill, Respond, TypeOK, Told
  <2>7. book' \subseteq Order
    <3>1. CASE Executed(maker) = maker.quantity
      BY <3>1, <2>1 DEF TypeOK
    <3>2. CASE Executed(maker) # maker.quantity
      BY <3>2, <2>1, <2>3, PartlyFilled DEF TypeOK
    <3> QED BY <3>1, <3>2
  <2>8. next_priority' \in [Sides \X Ticks -> Nat \ {0}]
    BY <2>1, PrioritiesType DEF TypeOK
  <2>9. orders_' \in [ClientOrders -> OrderIds \cup {None}]
    BY <2>1 DEF TypeOK, UnindexOrder
  <2>10. mirror' \subseteq PublicOrder
    <3>1. maker.tick \in Ticks /\ ToPrice(maker.tick) \in Prices
      BY <2>3 DEF Order, Prices
    <3>2. CASE Executed(maker) = maker.quantity
      BY <3>2, <2>1 DEF PublishFill, AfterCancel, TypeOK
    <3>3. CASE Executed(maker) # maker.quantity
      <4>1. maker.quantity - Executed(maker) \in Quantities
        BY <3>3, <2>3
      <4>2. mirror' = AfterModify(mirror, maker.id, ToPrice(maker.tick),
                                  maker.quantity - Executed(maker))
        BY <3>3, <2>1 DEF PublishFill
      <4> QED BY <3>1, <4>1, <4>2, ModifyType DEF TypeOK
    <3> QED BY <3>2, <3>3
  <2> QED BY <2>2, <2>4, <2>6, <2>7, <2>8, <2>9, <2>10 DEF TypeOK
<1>3. ASSUME AddFilled PROVE TypeOK'
  BY <1>3 DEF AddFilled, TypeOK
<1>4. ASSUME AddRest PROVE TypeOK'
  <2> DEFINE level == <<taker.side, taker.limit_tick>>
             order == [id |-> taker.id, client |-> taker.client,
                       client_order |-> taker.client_order, side |-> taker.side,
                       tick |-> taker.limit_tick, quantity |-> taker.quantity,
                       priority |-> next_priority[level]]
  <2>1. taker \in Taker /\ taker.quantity \in Quantities /\ taker.price \in Prices
    BY <1>4, TakerType DEF AddRest, Taker, Quantities
  <2>2. level \in Sides \X Ticks /\ next_priority[level] \in Nat \ {0}
    BY <2>1 DEF Taker, TypeOK
  <2>3. order \in Order /\ Key(order) \in ClientOrders
    BY <2>1, <2>2 DEF Taker, Order, Key, ClientOrders
  <2>4. /\ book' = book \cup {order}
        /\ next_priority' = [next_priority EXCEPT ![level] = @ + 1]
        /\ orders_' = [orders_ EXCEPT ![Key(order)] = order.id]
        /\ mirror' = AfterAdd(mirror, order, taker.price)
        /\ taker' = NoTaker
        /\ UNCHANGED <<next_market_order_id_, told>>
    BY <1>4 DEF AddRest
  <2>5. Public(order, taker.price) \in PublicOrder
    BY <2>1, <2>3 DEF Public, PublicOrder, Order
  <2> HIDE DEF order, level
  <2>6. next_priority' \in [Sides \X Ticks -> Nat \ {0}]
    BY <2>2, <2>4 DEF TypeOK
  <2>7. orders_' \in [ClientOrders -> OrderIds \cup {None}]
    BY <2>3, <2>4 DEF TypeOK, Order
  <2> QED BY <2>3, <2>4, <2>5, <2>6, <2>7 DEF TypeOK, AfterAdd
<1>5. ASSUME NEW client \in Clients, NEW client_order \in ClientOrderIds,
             CancelRejected(client, client_order)
      PROVE  TypeOK'
  <2>1. 0 \in 0 .. MaxQuantity
    OBVIOUS
  <2>2. told' \in [ClientOrders -> Told]
    BY <1>5, <2>1 DEF CancelRejected, Respond, TypeOK, Told
  <2> QED BY <1>5, <2>2 DEF CancelRejected, TypeOK
<1>6. ASSUME NEW client \in Clients, NEW client_order \in ClientOrderIds,
             Cancel(client, client_order)
      PROVE  TypeOK'
  <2>1. PICK o \in book :
          /\ told' = Respond(told, <<client, client_order>>, "CANCELED", o.quantity)
          /\ mirror' = AfterCancel(mirror, o.id)
          /\ orders_' = UnindexOrder(o)
          /\ book' = book \ {o}
          /\ next_priority' = PrioritiesWithout(o)
    BY <1>6 DEF Cancel
  <2>2. o.quantity \in 0 .. MaxQuantity
    BY DEF TypeOK, Order, Quantities
  <2>3. told' \in [ClientOrders -> Told]
    BY <2>1, <2>2 DEF TypeOK, Respond, Told
  <2>4. next_priority' \in [Sides \X Ticks -> Nat \ {0}]
    BY <2>1, PrioritiesType
  <2>5. UNCHANGED <<next_market_order_id_, taker>>
    BY <1>6 DEF Cancel
  <2> QED BY <2>1, <2>3, <2>4, <2>5 DEF TypeOK, AfterCancel, UnindexOrder
<1>7. CASE UNCHANGED vars
  BY <1>7 DEF vars, TypeOK
<1> QED BY <1>1, <1>2, <1>3, <1>4, <1>5, <1>6, <1>7 DEF Next
-----------------------------------------------------------------------------
\* The three ways in which a step changes the book.

\* The taker goes on, or is done with; no order is numbered.
SameTaker ==
  /\ next_market_order_id_' = next_market_order_id_
  /\ taker' # NoTaker => /\ taker # NoTaker
                         /\ taker'.id = taker.id /\ Key(taker') = Key(taker)

\* An order leaves: it is filled or canceled.
Leaves(o) ==
  /\ book' = book \ {o}
  /\ next_priority' = PrioritiesWithout(o)
  /\ orders_' = UnindexOrder(o)
  /\ mirror' = AfterCancel(mirror, o.id)
  /\ SameTaker

\* An order is filled in part.
Rest(o, quantity) == [o EXCEPT !.quantity = quantity]
Shrinks(o, quantity) ==
  /\ quantity \in Quantities
  /\ book' = (book \ {o}) \cup {Rest(o, quantity)}
  /\ mirror' = AfterModify(mirror, o.id, ToPrice(o.tick), quantity)
  /\ UNCHANGED <<next_priority, orders_>>
  /\ SameTaker

\* What is left of the taker joins the book.
Newcomer == [id |-> taker.id, client |-> taker.client,
             client_order |-> taker.client_order, side |-> taker.side,
             tick |-> taker.limit_tick, quantity |-> taker.quantity,
             priority |-> next_priority[<<taker.side, taker.limit_tick>>]]
Joins ==
  /\ taker.quantity > 0
  /\ ~ Crosses
  /\ book' = book \cup {Newcomer}
  /\ next_priority' = [next_priority EXCEPT ![LevelOf(Newcomer)] = @ + 1]
  /\ orders_' = [orders_ EXCEPT ![Key(Newcomer)] = Newcomer.id]
  /\ mirror' = AfterAdd(mirror, Newcomer, taker.price)
  /\ taker' = NoTaker
  /\ UNCHANGED next_market_order_id_

\* A fill takes the maker out of the book or makes it smaller.
LEMMA FillShape ==
  ASSUME TypeOK, MatchFill
  PROVE  \E maker \in book :
           /\ IsMaker(maker)
           /\ Leaves(maker) \/ \E quantity \in Quantities : Shrinks(maker, quantity)
<1>1. PICK maker \in book :
          /\ IsMaker(maker)
          /\ taker' = [taker EXCEPT !.quantity = @ - Executed(maker)]
          /\ mirror' = PublishFill(maker)
          /\ IF Executed(maker) = maker.quantity
             THEN /\ book' = book \ {maker}
                  /\ next_priority' = PrioritiesWithout(maker)
                  /\ orders_' = UnindexOrder(maker)
             ELSE /\ book' = (book \ {maker}) \cup
                             {[maker EXCEPT !.quantity = @ - Executed(maker)]}
                  /\ UNCHANGED <<next_priority, orders_>>
  BY DEF MatchFill
<1>2. taker.quantity > 0 /\ Crosses /\ next_market_order_id_' = next_market_order_id_
  BY DEF MatchFill
<1>3. taker \in Taker /\ maker \in Order /\ taker # NoTaker
  BY <1>2, TakerType DEF TypeOK
<1>4. Executed(maker) # maker.quantity => maker.quantity - Executed(maker) \in Quantities
  BY <1>1, <1>2, FillFacts
<1>5. taker'.id = taker.id /\ Key(taker') = Key(taker)
  BY <1>1, <1>3 DEF Taker, Key
<1>6. SameTaker
  BY <1>2, <1>3, <1>5 DEF SameTaker
<1>7. CASE Executed(maker) = maker.quantity
  <2>1. mirror' = AfterCancel(mirror, maker.id)
    BY <1>1, <1>7 DEF PublishFill
  <2>2. Leaves(maker)
    BY <2>1, <1>1, <1>6, <1>7 DEF Leaves
  <2> QED BY <2>2, <1>1
<1>8. CASE Executed(maker) # maker.quantity
  <2> DEFINE quantity == maker.quantity - Executed(maker)
  <2>1. mirror' = AfterModify(mirror, maker.id, ToPrice(maker.tick), quantity)
    BY <1>1, <1>8 DEF PublishFill
  <2>2. book' = (book \ {maker}) \cup {Rest(maker, quantity)}
    BY <1>1, <1>8 DEF Rest
  <2>3. quantity \in Quantities
    BY <1>4, <1>8
  <2> HIDE DEF quantity
  <2>4. Shrinks(maker, quantity)
    BY <2>1, <2>2, <2>3, <1>1, <1>6, <1>8 DEF Shrinks
  <2> QED BY <2>3, <2>4, <1>1
<1> QED BY <1>7, <1>8

\* The order given by the index leaves on a Cancel.
LEMMA CancelShape ==
  ASSUME NEW client, NEW client_order, Cancel(client, client_order)
  PROVE  taker = NoTaker /\ \E o \in book : Leaves(o)
BY DEF Cancel, Leaves, SameTaker

\* The rest of the taker joins the book.
LEMMA RestShape ==
  ASSUME AddRest
  PROVE  Joins
BY DEF AddRest, Joins, Newcomer, LevelOf

-----------------------------------------------------------------------------
\* Each of the three keeps the invariant.

\* What holds of the orders that stay when one leaves.
LEMMA LeavesKeeps ==
  ASSUME Inv, NEW o \in book, Leaves(o)
  PROVE  /\ IdsInOrder' /\ RanksInOrder' /\ NeverCrossed' /\ UpdatesRebuildBook'
         /\ ReuseLiveIds \/ (KeysUnique /\ IndexExact)'
<1> USE DEF Inv
<1>1. book' = book \ {o} /\ next_priority' = PrioritiesWithout(o)
  BY DEF Leaves
<1>2. IdsInOrder'
  BY DEF Leaves, SameTaker, IdsInOrder
<1>3. RanksInOrder'
  <2>1. \A p \in book' : p.priority < next_priority'[LevelOf(p)]
    <3> SUFFICES ASSUME NEW p \in book, p # o
                 PROVE  p.priority < next_priority'[LevelOf(p)]
      BY <1>1
    <3>1. PrioritiesWithout(o)[LevelOf(p)] = next_priority[LevelOf(p)]
      BY PrioritiesType
    <3> QED BY <3>1, <1>1 DEF RanksInOrder
  <2> QED BY <2>1, <1>1 DEF RanksInOrder, LevelOf
<1>4. NeverCrossed'
  BY <1>1 DEF NeverCrossed
<1>5. UpdatesRebuildBook'
  <2>1. \A p \in book : Public(p, ToPrice(p.tick)).id = p.id
    BY DEF Public
  <2>2. mirror' = {q \in {Public(p, ToPrice(p.tick)) : p \in book} : q.id # o.id}
    BY DEF UpdatesRebuildBook, AfterCancel, Leaves
  <2>3. \A p \in book : p.id # o.id <=> p \in book'
    BY <1>1 DEF IdsInOrder
  <2> QED BY <2>1, <2>2, <2>3, <1>1 DEF UpdatesRebuildBook
<1>6. ReuseLiveIds \/ (KeysUnique /\ IndexExact)'
  <2> SUFFICES ASSUME KeysUnique, IndexExact PROVE KeysUnique' /\ IndexExact'
    OBVIOUS
  <2>1. KeysUnique'
    BY <1>1 DEF KeysUnique, Leaves, SameTaker, Key
  <2>2. o \in Order /\ Key(o) \in ClientOrders
    BY DEF TypeOK, Order, Key, ClientOrders
  <2>3. /\ orders_'[Key(o)] = None
        /\ \A key \in ClientOrders : key # Key(o) => orders_'[key] = orders_[key]
    BY <2>2 DEF Leaves, UnindexOrder, TypeOK
  <2>4. \A p \in book' : p \in book /\ Key(p) # Key(o) /\ Key(p) \in ClientOrders
    BY <1>1 DEF KeysUnique, TypeOK, Order, Key, ClientOrders
  <2>5. \A p \in book' : orders_'[Key(p)] = p.id
    BY <2>3, <2>4 DEF IndexExact
  <2>6. ASSUME NEW key \in ClientOrders, orders_'[key] # None
        PROVE  \E p \in book' : Key(p) = key /\ p.id = orders_'[key]
    <3>1. key # Key(o) /\ orders_[key] # None /\ orders_'[key] = orders_[key]
      BY <2>3, <2>6
    <3>2. PICK p \in book : Key(p) = key /\ p.id = orders_[key]
      BY <3>1 DEF IndexExact
    <3> QED BY <3>1, <3>2, <1>1
  <2>7. IndexExact'
    BY <2>5, <2>6 DEF IndexExact, Key
  <2> QED BY <2>1, <2>7
<1> QED BY <1>2, <1>3, <1>4, <1>5, <1>6

\* What holds when an order is filled in part: all but its quantity stays.
LEMMA ShrinksKeeps ==
  ASSUME Inv, NEW o \in book, NEW quantity \in Quantities, Shrinks(o, quantity)
  PROVE  /\ IdsInOrder' /\ RanksInOrder' /\ NeverCrossed' /\ UpdatesRebuildBook'
         /\ ReuseLiveIds \/ (KeysUnique /\ IndexExact)'
<1> DEFINE rest == Rest(o, quantity)
<1> USE DEF Inv
<1>1. o \in Order
  BY DEF TypeOK
<1>2. /\ rest.id = o.id /\ rest.side = o.side /\ rest.tick = o.tick
      /\ rest.priority = o.priority /\ rest.quantity = quantity
      /\ Key(rest) = Key(o) /\ LevelOf(rest) = LevelOf(o)
  BY <1>1, PartlyFilled DEF Rest
<1>3. book' = (book \ {o}) \cup {rest}
  BY DEF Shrinks
<1> HIDE DEF rest
<1>4. \A p \in book' : \E q \in book :
        /\ q.id = p.id /\ q.side = p.side /\ q.tick = p.tick
        /\ q.priority = p.priority /\ Key(q) = Key(p) /\ LevelOf(q) = LevelOf(p)
        /\ p = IF q = o THEN rest ELSE q
  BY <1>2, <1>3
<1>5. \A q \in book : (IF q = o THEN rest ELSE q) \in book'
  BY <1>3
<1>6. /\ next_priority' = next_priority /\ orders_' = orders_ /\ SameTaker
      /\ mirror' = AfterModify(mirror, o.id, ToPrice(o.tick), quantity)
  BY DEF Shrinks
<1>7. IdsInOrder'
  <2>1. \A p, r \in book' : p.id = r.id => p = r
    BY <1>4 DEF IdsInOrder
  <2>2. \A p \in book' : p.id < next_market_order_id_'
    BY <1>4, <1>6 DEF IdsInOrder, SameTaker
  <2>3. taker' # NoTaker => /\ taker'.id < next_market_order_id_'
                            /\ \A p \in book' : p.id < taker'.id
    BY <1>4, <1>6 DEF IdsInOrder, SameTaker
  <2> QED BY <2>1, <2>2, <2>3 DEF IdsInOrder
<1>8. RanksInOrder'
  <2>1. \A p \in book' : p.priority < next_priority'[LevelOf(p)]
    BY <1>4, <1>6 DEF RanksInOrder
  <2>2. \A p, r \in book' : LevelOf(p) = LevelOf(r) /\ p.priority <= r.priority
                              => p.id <= r.id
    BY <1>4 DEF RanksInOrder
  <2> QED BY <2>1, <2>2 DEF RanksInOrder, LevelOf
<1>9. NeverCrossed'
  BY <1>4 DEF NeverCrossed
<1>10. UpdatesRebuildBook'
  <2> DEFINE image(p) == Public(p, ToPrice(p.tick))
             changed(m) == [m EXCEPT !.price = ToPrice(o.tick), !.quantity = quantity]
  <2>1. changed(image(o)) = image(rest)
    <3>1. ToPrice(o.tick) \in Prices /\ Rest(o, quantity) \in Order
      BY <1>1, PartlyFilled DEF Order, Prices, Rest
    <3>2. image(o) \in PublicOrder /\ image(rest) \in PublicOrder
      BY <1>1, <1>2, <3>1 DEF Public, PublicOrder, Order
    <3>3. /\ image(rest).id = image(o).id /\ image(rest).side = image(o).side
          /\ image(rest).price = ToPrice(o.tick) /\ image(rest).quantity = quantity
          /\ image(rest).priority = image(o).priority
      BY <1>2 DEF Public
    <3>4. /\ changed(image(o)) \in PublicOrder
          /\ changed(image(o)).id = image(o).id
          /\ changed(image(o)).side = image(o).side
          /\ changed(image(o)).price = ToPrice(o.tick)
          /\ changed(image(o)).quantity = quantity
          /\ changed(image(o)).priority = image(o).priority
      <4> HIDE DEF image
      <4> QED BY <3>1, <3>2 DEF PublicOrder
    <3> HIDE DEF image, changed
    <3> QED BY <3>2, <3>3, <3>4 DEF PublicOrder
  <2>2. \A q \in book : image(q).id = q.id
    BY DEF Public
  <2>3. \A q \in book : q.id = o.id <=> q = o
    BY DEF IdsInOrder
  <2>4. \A q \in book : (IF image(q).id = o.id THEN changed(image(q)) ELSE image(q))
                        = image(IF q = o THEN rest ELSE q)
    BY <2>1, <2>2, <2>3
  <2>5. mirror = {image(p) : p \in book}
    BY DEF UpdatesRebuildBook
  <2>6. mirror' = {IF m.id = o.id THEN changed(m) ELSE m : m \in mirror}
    BY <1>6 DEF AfterModify
  <2> HIDE DEF image, changed
  <2>7. mirror' = {image(IF q = o THEN rest ELSE q) : q \in book}
    BY <2>4, <2>5, <2>6
  <2>8. {IF q = o THEN rest ELSE q : q \in book} = book'
    BY <1>4, <1>5
  <2>9. mirror' = {image(p) : p \in book'}
    BY <2>7, <2>8
  <2> QED BY <2>9 DEF UpdatesRebuildBook, image
<1>11. ReuseLiveIds \/ (KeysUnique /\ IndexExact)'
  <2> SUFFICES ASSUME KeysUnique, IndexExact PROVE KeysUnique' /\ IndexExact'
    OBVIOUS
  <2>1. \A p, r \in book' : Key(p) = Key(r) => p = r
    BY <1>4 DEF KeysUnique
  <2>2. taker' # NoTaker => \A p \in book' : Key(p) # Key(taker')
    BY <1>4, <1>6 DEF KeysUnique, SameTaker
  <2>3. \A p \in book' : orders_'[Key(p)] = p.id
    BY <1>4, <1>6 DEF IndexExact
  <2>4. ASSUME NEW key \in ClientOrders, orders_'[key] # None
        PROVE  \E p \in book' : Key(p) = key /\ p.id = orders_'[key]
    <3>1. PICK q \in book : Key(q) = key /\ q.id = orders_[key]
      BY <2>4, <1>6 DEF IndexExact
    <3>2. (IF q = o THEN rest ELSE q) \in book'
      BY <1>5
    <3> QED BY <3>1, <3>2, <1>2, <1>6
  <2>5. KeysUnique'
    BY <2>1, <2>2 DEF KeysUnique, Key
  <2>6. IndexExact'
    BY <2>3, <2>4 DEF IndexExact, Key
  <2> QED BY <2>5, <2>6
<1> QED BY <1>7, <1>8, <1>9, <1>10, <1>11

\* What holds when what is left of the taker joins the book.
LEMMA JoinsKeeps ==
  ASSUME Inv, Joins
  PROVE  /\ IdsInOrder' /\ RanksInOrder' /\ NeverCrossed' /\ UpdatesRebuildBook'
         /\ ReuseLiveIds \/ (KeysUnique /\ IndexExact)'
<1> DEFINE new == Newcomer
<1> USE DEF Inv
<1>1. taker \in Taker /\ taker # NoTaker
  BY TakerType DEF Joins
<1>2. /\ new.id = taker.id /\ new.side = taker.side /\ new.tick = taker.limit_tick
      /\ Key(new) = Key(taker) /\ LevelOf(new) = <<taker.side, taker.limit_tick>>
      /\ new.priority = next_priority[LevelOf(new)]
      /\ Public(new, taker.price) = Public(new, ToPrice(new.tick))
  BY <1>1 DEF Newcomer, Key, LevelOf, TakerOnTick
<1>3. /\ taker.side \in Sides /\ taker.limit_tick \in Ticks
      /\ LevelOf(new) \in Sides \X Ticks /\ Key(new) \in ClientOrders /\ new.id # None
  BY <1>1, <1>2, BoundsAssumption DEF Taker, Key, ClientOrders, OrderIds, None
<1>4. /\ book' = book \cup {new}
      /\ next_priority' = [next_priority EXCEPT ![LevelOf(new)] = @ + 1]
      /\ orders_' = [orders_ EXCEPT ![Key(new)] = new.id]
      /\ mirror' = AfterAdd(mirror, new, taker.price)
      /\ taker' = NoTaker /\ next_market_order_id_' = next_market_order_id_
  BY DEF Joins
<1>5. ~ Crosses
  BY DEF Joins
<1> HIDE DEF new
<1>6. \A p \in book : p.id < new.id
  BY <1>1, <1>2 DEF IdsInOrder
<1>7. \A p \in book : p \in Order /\ LevelOf(p) \in Sides \X Ticks /\ Key(p) \in ClientOrders
  BY DEF TypeOK, Order, LevelOf, Key, ClientOrders
<1>8. new.id \in Nat /\ \A p \in book : p.id \in Nat
  BY <1>1, <1>2, <1>7, BoundsAssumption DEF Taker, Order, OrderIds
<1>9. IdsInOrder'
  <2>1. \A p, q \in book' : p.id = q.id => p = q
    BY <1>4, <1>6, <1>8 DEF IdsInOrder
  <2>2. \A p \in book' : p.id < next_market_order_id_'
    BY <1>1, <1>2, <1>4 DEF IdsInOrder
  <2> QED BY <2>1, <2>2, <1>4 DEF IdsInOrder
<1>10. RanksInOrder'
  <2>1. next_priority \in [Sides \X Ticks -> Nat \ {0}]
    BY DEF TypeOK
  <2>2. /\ next_priority'[LevelOf(new)] = next_priority[LevelOf(new)] + 1
        /\ \A level \in Sides \X Ticks : level # LevelOf(new) =>
             next_priority'[level] = next_priority[level]
        /\ next_priority[LevelOf(new)] \in Nat
    BY <2>1, <1>3, <1>4
  <2>3. \A p \in book : p.priority < next_priority[LevelOf(p)] /\ p.priority \in Nat
    BY <1>7 DEF RanksInOrder, Order
  <2>4. \A p \in book' : p.priority < next_priority'[LevelOf(p)]
    BY <2>2, <2>3, <1>2, <1>4, <1>7
  <2>5. \A p \in book : LevelOf(p) = LevelOf(new) => p.priority < new.priority
    BY <2>3, <1>2
  <2>6. ASSUME NEW p \in book', NEW q \in book', LevelOf(p) = LevelOf(q),
               p.priority <= q.priority
        PROVE  p.id <= q.id
    <3>1. CASE p \in book /\ q \in book
      BY <3>1, <2>6 DEF RanksInOrder
    <3>2. CASE q = new
      BY <3>2, <1>4, <1>6, <1>8
    <3>3. CASE p = new /\ q \in book
      BY <3>3, <2>2, <2>3, <2>5, <2>6, <1>2
    <3> QED BY <3>1, <3>2, <3>3, <1>4
  <2> QED BY <2>4, <2>6 DEF RanksInOrder, LevelOf
<1>11. NeverCrossed'
  <2> DEFINE side == Opposite(taker.side)
  <2>1. side \in Sides
    BY <1>3 DEF Opposite, Sides
  <2>2. ASSUME NEW p \in book, p.side = side
        PROVE  IF taker.side = "BUY" THEN new.tick < p.tick ELSE new.tick > p.tick
    <3>1. OccupiedTicks(side) # {}
      BY <2>2 DEF OccupiedTicks
    <3>2. /\ BestTick(side) \in Ticks
          /\ IF side = "BUY" THEN p.tick <= BestTick(side) ELSE p.tick >= BestTick(side)
      BY <2>1, <2>2, <3>1, BestTickIsBest
    <3>3. IF taker.side = "BUY" THEN ~ (BestTick(side) <= taker.limit_tick)
                                ELSE ~ (BestTick(side) >= taker.limit_tick)
      BY <1>5, <3>1 DEF Crosses
    <3>4. p.tick \in Ticks
      BY <1>7 DEF Order
    <3> QED BY <3>2, <3>3, <3>4, <1>2, <1>3, BandAssumption DEF Opposite, Sides, Ticks
  <2>3. \A p \in book : p.side \in Sides /\ p.tick \in Ticks
    BY <1>7 DEF Order
  <2> SUFFICES ASSUME NEW bid \in book', NEW ask \in book',
                      bid.side = "BUY", ask.side = "SELL"
               PROVE  bid.tick < ask.tick
    BY DEF NeverCrossed
  <2>4. CASE bid \in book /\ ask \in book
    BY <2>4 DEF NeverCrossed
  <2>5. CASE bid = new
    BY <2>5, <2>2, <1>2, <1>4 DEF Opposite
  <2>6. CASE ask = new /\ bid \in book
    BY <2>6, <2>2, <2>3, <1>2, <1>3, BandAssumption DEF Opposite, Ticks
  <2> QED BY <2>4, <2>5, <2>6, <1>4
<1>12. UpdatesRebuildBook'
  BY <1>2, <1>4 DEF UpdatesRebuildBook, AfterAdd
<1>13. ReuseLiveIds \/ (KeysUnique /\ IndexExact)'
  <2> SUFFICES ASSUME KeysUnique, IndexExact PROVE KeysUnique' /\ IndexExact'
    OBVIOUS
  <2>1. \A p \in book : Key(p) # Key(new)
    BY <1>1, <1>2 DEF KeysUnique
  <2>2. KeysUnique'
    BY <2>1, <1>4 DEF KeysUnique, Key
  <2>3. /\ orders_'[Key(new)] = new.id
        /\ \A key \in ClientOrders : key # Key(new) => orders_'[key] = orders_[key]
    BY <1>3, <1>4 DEF TypeOK
  <2>4. \A p \in book' : orders_'[Key(p)] = p.id
    BY <2>1, <2>3, <1>4, <1>7 DEF IndexExact
  <2>5. \A key \in ClientOrders : orders_'[key] # None =>
          \E p \in book' : Key(p) = key /\ p.id = orders_'[key]
    BY <2>3, <1>4 DEF IndexExact
  <2>6. IndexExact'
    BY <2>4, <2>5 DEF IndexExact, Key
  <2> QED BY <2>2, <2>6
<1> QED BY <1>9, <1>10, <1>11, <1>12, <1>13

\* A request that is accepted is younger than the book and, when no live
\* number is reused, under a number of its own.
LEMMA AddKeeps ==
  ASSUME Inv,
         NEW client \in Clients, NEW client_order \in ClientOrderIds,
         NEW side \in Sides, NEW price \in Prices, NEW quantity \in Quantities,
         Add(client, client_order, side, price, quantity)
  PROVE  /\ TakerOnTick' /\ IdsInOrder' /\ RanksInOrder' /\ NeverCrossed'
         /\ UpdatesRebuildBook'
         /\ ReuseLiveIds \/ (KeysUnique /\ IndexExact)'
<1> USE DEF Inv
<1>1. /\ UNCHANGED <<book, next_priority, orders_, mirror>>
      /\ next_market_order_id_' = next_market_order_id_ + 1
      /\ taker'.id = next_market_order_id_ /\ Key(taker') = <<client, client_order>>
      /\ taker'.price = price /\ taker'.limit_tick = ToTick(price)
  BY DEF Add, Key
<1>2. PICK tick \in Ticks : price = ToPrice(tick)
  BY DEF Prices
<1>3. TakerOnTick'
  BY <1>1, <1>2, ToTickOfPrice DEF TakerOnTick, Ticks, ToPrice
<1>4. next_market_order_id_ \in Nat /\ \A o \in book : o.id \in Nat
  BY BoundsAssumption DEF TypeOK, Order, OrderIds
<1>5. IdsInOrder'
  BY <1>1, <1>4 DEF IdsInOrder
<1>6. RanksInOrder' /\ NeverCrossed' /\ UpdatesRebuildBook'
  BY <1>1 DEF RanksInOrder, NeverCrossed, UpdatesRebuildBook, LevelOf, Public, ToPrice
<1>7. ReuseLiveIds \/ (KeysUnique /\ IndexExact)'
  <2> SUFFICES ASSUME ~ ReuseLiveIds PROVE KeysUnique' /\ IndexExact'
    BY BoundsAssumption
  <2>1. \A o \in book : Key(o) # <<client, client_order>>
    BY DEF Add
  <2> QED BY <2>1, <1>1, BoundsAssumption DEF KeysUnique, IndexExact, Key
<1> QED BY <1>3, <1>5, <1>6, <1>7

\* A step that leaves the book alone and starts nothing.
LEMMA StillKeeps ==
  ASSUME Inv, SameTaker, UNCHANGED <<book, next_priority, orders_, mirror>>
  PROVE  /\ IdsInOrder' /\ RanksInOrder' /\ NeverCrossed'
         /\ UpdatesRebuildBook'
         /\ ReuseLiveIds \/ (KeysUnique /\ IndexExact)'
<1>1. IdsInOrder'
  BY DEF Inv, IdsInOrder, SameTaker
<1>2. RanksInOrder' /\ NeverCrossed' /\ UpdatesRebuildBook'
  BY DEF Inv, RanksInOrder, NeverCrossed, UpdatesRebuildBook, LevelOf, Public, ToPrice
<1>3. ReuseLiveIds \/ (KeysUnique /\ IndexExact)'
  BY DEF Inv, KeysUnique, IndexExact, Key, SameTaker
<1> QED BY <1>1, <1>2, <1>3

\* A step that does not accept a request keeps the taker's price.
LEMMA TakerOnTickStep ==
  ASSUME Inv,
         \/ MatchFill
         \/ taker' = NoTaker
         \/ UNCHANGED taker
  PROVE  TakerOnTick'
<1>1. CASE MatchFill
  <2>1. PICK maker \in book : taker' = [taker EXCEPT !.quantity = @ - Executed(maker)]
    BY <1>1 DEF MatchFill
  <2>2. taker \in Taker /\ taker # NoTaker
    BY <1>1, TakerType DEF MatchFill, Inv
  <2>3. taker'.price = taker.price /\ taker'.limit_tick = taker.limit_tick
    BY <2>1, <2>2 DEF Taker
  <2> QED BY <2>2, <2>3 DEF Inv, TakerOnTick, ToPrice
<1>2. CASE taker' = NoTaker
  BY <1>2 DEF TakerOnTick, NoTaker
<1>3. CASE UNCHANGED taker
  BY <1>3 DEF Inv, TakerOnTick, NoTaker, ToPrice
<1> QED BY <1>1, <1>2, <1>3

-----------------------------------------------------------------------------
\* The invariant is inductive.

\* The book starts empty.
LEMMA InitInv ==
  Init => Inv
<1> SUFFICES ASSUME Init PROVE Inv
  OBVIOUS
<1> USE BandAssumption, BoundsAssumption DEF Init
<1>1. TypeOK
  <2>1. [type |-> "NONE", remaining |-> 0] \in Told
    BY DEF Told
  <2>2. told \in [ClientOrders -> Told]
    BY <2>1
  <2>3. next_market_order_id_ \in 1 .. (MaxOrders + 1)
    OBVIOUS
  <2> QED BY <2>2, <2>3 DEF TypeOK, None
<1>2. TakerOnTick /\ IdsInOrder /\ RanksInOrder /\ NeverCrossed
  BY DEF TakerOnTick, IdsInOrder, RanksInOrder, NeverCrossed
<1>3. UpdatesRebuildBook
  BY DEF UpdatesRebuildBook
<1>4. KeysUnique /\ IndexExact
  BY DEF KeysUnique, IndexExact, None
<1> QED BY <1>1, <1>2, <1>3, <1>4 DEF Inv

\* Every operation keeps it.
LEMMA NextInv ==
  ASSUME Inv, [Next]_vars
  PROVE  Inv'
<1> DEFINE Kept == /\ IdsInOrder' /\ RanksInOrder' /\ NeverCrossed' /\ UpdatesRebuildBook'
                   /\ ReuseLiveIds \/ (KeysUnique /\ IndexExact)'
<1>1. TypeOK'
  BY TypeStep DEF Inv
<1>2. ASSUME NEW client \in Clients, NEW client_order \in ClientOrderIds,
             NEW side \in Sides, NEW price \in Prices, NEW quantity \in Quantities,
             Add(client, client_order, side, price, quantity)
      PROVE  TakerOnTick' /\ Kept
  BY <1>2, AddKeeps
<1>3. ASSUME MatchFill PROVE TakerOnTick' /\ Kept
  <2>1. PICK maker \in book :
          Leaves(maker) \/ \E quantity \in Quantities : Shrinks(maker, quantity)
    BY <1>3, FillShape DEF Inv
  <2>2. CASE Leaves(maker)
    BY <2>2, LeavesKeeps, <1>3, TakerOnTickStep
  <2>3. CASE \E quantity \in Quantities : Shrinks(maker, quantity)
    BY <2>3, ShrinksKeeps, <1>3, TakerOnTickStep
  <2> QED BY <2>1, <2>2, <2>3
<1>4. ASSUME AddFilled PROVE TakerOnTick' /\ Kept
  <2>1. SameTaker /\ UNCHANGED <<book, next_priority, orders_, mirror>> /\ taker' = NoTaker
    BY <1>4 DEF AddFilled, SameTaker
  <2> QED BY <2>1, StillKeeps, TakerOnTickStep
<1>5. ASSUME AddRest PROVE TakerOnTick' /\ Kept
  <2>1. Joins /\ taker' = NoTaker
    BY <1>5, RestShape DEF Joins
  <2> QED BY <2>1, JoinsKeeps, TakerOnTickStep
<1>6. ASSUME NEW client \in Clients, NEW client_order \in ClientOrderIds,
             CancelRejected(client, client_order)
      PROVE  TakerOnTick' /\ Kept
  <2>1. SameTaker /\ UNCHANGED <<book, next_priority, orders_, mirror>> /\ UNCHANGED taker
    BY <1>6 DEF CancelRejected, SameTaker, Key
  <2> QED BY <2>1, StillKeeps, TakerOnTickStep
<1>7. ASSUME NEW client \in Clients, NEW client_order \in ClientOrderIds,
             Cancel(client, client_order)
      PROVE  TakerOnTick' /\ Kept
  <2>1. PICK o \in book : Leaves(o)
    BY <1>7, CancelShape
  <2>2. UNCHANGED taker
    BY <1>7 DEF Cancel
  <2> QED BY <2>1, <2>2, LeavesKeeps, TakerOnTickStep
<1>8. ASSUME UNCHANGED vars PROVE TakerOnTick' /\ Kept
  <2>1. SameTaker /\ UNCHANGED <<book, next_priority, orders_, mirror>> /\ UNCHANGED taker
    BY <1>8 DEF vars, SameTaker, Key
  <2> QED BY <2>1, StillKeeps, TakerOnTickStep
<1>9. TakerOnTick' /\ Kept
  <2> HIDE DEF Kept
  <2> QED BY <1>2, <1>3, <1>4, <1>5, <1>6, <1>7, <1>8 DEF Next
<1> QED BY <1>1, <1>9 DEF Inv

\* It holds throughout.
LEMMA Invariance ==
  Spec => []Inv
<1>1. Inv /\ [Next]_vars => Inv'
  BY NextInv
<1> QED BY InitInv, <1>1, PTL DEF Spec

-----------------------------------------------------------------------------
\* The theorems.

\* Every variable keeps its type: each order, quantity, rank and response is
\* within its range whatever is added, filled or canceled.
THEOREM TypeCorrect ==
  Spec => []TypeOK
<1>1. Inv => TypeOK
  BY DEF Inv
<1> QED BY Invariance, <1>1, PTL

\* The book is never crossed or locked (book_core.cc 64-69: Match() before
\* the rest of an order joins the book).
THEOREM BookNeverCrossed ==
  Spec => []NeverCrossed
<1>1. Inv => NeverCrossed
  BY DEF Inv
<1> QED BY Invariance, <1>1, PTL

\* The market updates rebuild the book (book_core.cc 73-75, 119-121, 176-201).
THEOREM UpdatesCorrect ==
  Spec => []UpdatesRebuildBook
<1>1. Inv => UpdatesRebuildBook
  BY DEF Inv
<1> QED BY Invariance, <1>1, PTL

\* The index is exact as long as no client reuses the number of a resting
\* order (book_core.cc 71, 117, 203).
THEOREM IndexCorrect ==
  ASSUME ReuseLiveIds = FALSE
  PROVE  Spec => []IndexExact
<1>1. Inv => IndexExact
  BY DEF Inv
<1> QED BY Invariance, <1>1, PTL

\* Fills keep price-time priority, by the order of acceptance
\* (book_core.cc 135-152).
THEOREM Priority ==
  Spec => PriceTimePriority
<1> DEFINE Fair == \A o \in book :
       taker # NoTaker /\ o \notin book' =>
         /\ \A p \in book : p.side = o.side => GoesBefore(o, p)
         /\ o.side # taker.side
         /\ IF o.side = "BUY" THEN o.tick >= taker.limit_tick
                              ELSE o.tick <= taker.limit_tick
<1>1. ASSUME Inv, Next PROVE Fair
  <2> SUFFICES ASSUME NEW o \in book, taker # NoTaker, o \notin book'
               PROVE  /\ \A p \in book : p.side = o.side => GoesBefore(o, p)
                      /\ o.side # taker.side
                      /\ IF o.side = "BUY" THEN o.tick >= taker.limit_tick
                                           ELSE o.tick <= taker.limit_tick
    OBVIOUS
  <2>1. MatchFill
    BY <1>1 DEF Next, Add, AddFilled, AddRest, CancelRejected, Cancel
  <2>2. taker.quantity > 0 /\ Crosses /\ taker \in Taker
    BY <2>1, <1>1, TakerType DEF MatchFill, Inv
  <2>3. PICK maker \in book :
          /\ IsMaker(maker)
          /\ Leaves(maker) \/ \E quantity \in Quantities : Shrinks(maker, quantity)
    BY <2>1, <1>1, FillShape DEF Inv
  <2>4. o = maker
    BY <2>3 DEF Leaves, Shrinks
  <2>5. /\ maker.side = Opposite(taker.side)
        /\ IF taker.side = "BUY" THEN maker.tick <= taker.limit_tick
                                 ELSE maker.tick >= taker.limit_tick
        /\ \A p \in book : p.side = maker.side =>
             IF p.side = "BUY" THEN p.tick <= maker.tick ELSE p.tick >= maker.tick
    BY <2>2, <2>3, <1>1, FillFacts DEF Inv
  <2>6. ASSUME NEW p \in book, p.side = o.side PROVE GoesBefore(o, p)
    <3>1. /\ o.tick \in Ticks /\ p.tick \in Ticks
          /\ o.priority \in Nat /\ p.priority \in Nat
      BY <1>1 DEF Inv, TypeOK, Order
    <3>2. CASE o.tick = p.tick
      <4>1. o.priority <= p.priority
        BY <3>2, <2>3, <2>4, <2>6 DEF IsMaker, IsFirst, LevelAt
      <4>2. o.id <= p.id
        BY <3>2, <4>1, <2>6, <1>1 DEF Inv, RanksInOrder, LevelOf
      <4> QED BY <4>2, <3>2 DEF GoesBefore
    <3>3. CASE o.tick # p.tick
      BY <3>1, <3>3, <2>4, <2>5, <2>6, BandAssumption DEF GoesBefore, Ticks
    <3> QED BY <3>2, <3>3
  <2>7. taker.side \in Sides
    BY <2>2 DEF Taker
  <2> QED BY <2>4, <2>5, <2>6, <2>7 DEF Opposite, Sides
<1>2. ASSUME Inv, UNCHANGED vars PROVE Fair
  BY <1>2 DEF vars
<1>3. Inv /\ [Next]_vars => [Fair]_vars
  BY <1>1, <1>2
<1> QED BY Invariance, <1>3, PTL DEF Spec, PriceTimePriority

-----------------------------------------------------------------------------
\* What the clients have been told.

\* The quantity a client believes to be open under an order number.
Believed(heard, key) ==
  IF heard[key].type \in {"ACCEPTED", "FILLED"} THEN heard[key].remaining ELSE 0

\* Every order, resting or being matched, has the quantity its client
\* believes in, and of any other number the client believes nothing open.
BeliefsTrue ==
  /\ \A o \in book : Believed(told, Key(o)) = o.quantity
  /\ taker # NoTaker => Believed(told, Key(taker)) = taker.quantity
  /\ \A key \in ClientOrders :
       \/ \E o \in book : Key(o) = key
       \/ taker # NoTaker /\ Key(taker) = key
       \/ Believed(told, key) = 0

\* A response changes what is believed of its number and of no other.
LEMMA RespondFacts ==
  ASSUME NEW heard \in [ClientOrders -> Told], NEW key \in ClientOrders,
         NEW type \in {"ACCEPTED", "FILLED", "CANCELED", "CANCEL_REJECTED"},
         NEW remaining \in 0 .. MaxQuantity
  PROVE  /\ Respond(heard, key, type, remaining) \in [ClientOrders -> Told]
         /\ Believed(Respond(heard, key, type, remaining), key) =
              IF type \in {"ACCEPTED", "FILLED"} THEN remaining ELSE 0
         /\ \A other \in ClientOrders : other # key =>
              Believed(Respond(heard, key, type, remaining), other) =
                Believed(heard, other)
BY DEF Respond, Believed, Told

\* Orders in the book and the taker have the number of some client order.
LEMMA KeyTypes ==
  ASSUME TypeOK
  PROVE  /\ \A o \in book : Key(o) \in ClientOrders /\ o.quantity \in 0 .. MaxQuantity
         /\ taker # NoTaker => Key(taker) \in ClientOrders
BY DEF TypeOK, Order, Taker, Key, ClientOrders, Quantities

\* The two responses of a fill tell both clients what they have left.
LEMMA FillTold ==
  ASSUME Inv, ~ ReuseLiveIds, BeliefsTrue, MatchFill
  PROVE  BeliefsTrue'
<1>1. PICK maker \in book :
          /\ IsMaker(maker)
          /\ taker' = [taker EXCEPT !.quantity = @ - Executed(maker)]
          /\ told' = TellFill(maker)
          /\ IF Executed(maker) = maker.quantity
             THEN book' = book \ {maker}
             ELSE book' = (book \ {maker}) \cup
                          {[maker EXCEPT !.quantity = @ - Executed(maker)]}
  BY DEF MatchFill
<1> DEFINE own == Key(taker)
           other == Key(maker)
           left == taker.quantity - Executed(maker)
           rest == maker.quantity - Executed(maker)
           shrunk == [maker EXCEPT !.quantity = @ - Executed(maker)]
<1>2. taker.quantity > 0 /\ Crosses
  BY DEF MatchFill
<1>3. /\ taker \in Taker /\ taker # NoTaker /\ maker \in Order
      /\ left \in 0 .. MaxQuantity /\ rest \in 0 .. MaxQuantity
      /\ Executed(maker) # maker.quantity => rest \in Quantities
      /\ Executed(maker) \in Nat /\ maker.quantity \in Nat
  <2>1. Executed(maker) \in Nat
    BY <1>1, <1>2, FillFacts, BoundsAssumption DEF Inv, Quantities
  <2>2. maker \in Order /\ maker.quantity \in Nat
    BY BoundsAssumption DEF Inv, TypeOK, Order, Quantities
  <2> QED BY <2>1, <2>2, <1>1, <1>2, FillFacts, TakerType DEF Inv
<1>4. own \in ClientOrders /\ other \in ClientOrders /\ own # other
  BY <1>3, KeyTypes DEF Inv, KeysUnique
<1>5. taker'.quantity = left /\ Key(taker') = own /\ taker' # NoTaker
  BY <1>1, <1>3 DEF Taker, Key, NoTaker
<1>6. Executed(maker) # maker.quantity => shrunk.quantity = rest /\ Key(shrunk) = other
  BY <1>3, PartlyFilled
<1>7. told \in [ClientOrders -> Told]
  BY DEF Inv, TypeOK
<1>8. told' = Respond(Respond(told, own, "FILLED", left), other, "FILLED", rest)
  BY <1>1 DEF TellFill
<1>9. IF Executed(maker) = maker.quantity
      THEN book' = book \ {maker} /\ rest = 0
      ELSE book' = (book \ {maker}) \cup {shrunk}
  BY <1>1, <1>3
<1> HIDE DEF own, other, left, rest, shrunk
<1>10. /\ Respond(told, own, "FILLED", left) \in [ClientOrders -> Told]
       /\ Believed(Respond(told, own, "FILLED", left), own) = left
       /\ \A key \in ClientOrders : key # own =>
            Believed(Respond(told, own, "FILLED", left), key) = Believed(told, key)
  BY <1>3, <1>4, <1>7, RespondFacts
<1>11. /\ Believed(told', other) = rest
       /\ \A key \in ClientOrders : key # other =>
            Believed(told', key) = Believed(Respond(told, own, "FILLED", left), key)
  BY <1>3, <1>4, <1>8, <1>10, RespondFacts
<1>12. /\ Believed(told', own) = left /\ Believed(told', other) = rest
       /\ \A key \in ClientOrders : key # own /\ key # other =>
            Believed(told', key) = Believed(told, key)
  BY <1>4, <1>10, <1>11
<1>13. \A o \in book : o # maker => Key(o) # other /\ Key(o) # own /\ Key(o) \in ClientOrders
  BY <1>3, KeyTypes DEF Inv, KeysUnique, own, other
<1>14. \A o \in book' : Believed(told', Key(o)) = o.quantity
  BY <1>6, <1>9, <1>12, <1>13 DEF BeliefsTrue
<1>15. ASSUME NEW key \in ClientOrders, key # own, Believed(told', key) # 0
       PROVE  \E o \in book' : Key(o) = key
  <2>1. CASE key = other
    BY <2>1, <1>6, <1>9, <1>12, <1>15
  <2>2. CASE key # other
    <3>1. Believed(told, key) # 0
      BY <2>2, <1>12, <1>15
    <3>2. PICK o \in book : Key(o) = key
      BY <3>1, <1>15 DEF BeliefsTrue, own
    <3>3. o # maker
      BY <3>2, <2>2 DEF other
    <3> QED BY <3>2, <3>3, <1>9
  <2> QED BY <2>1, <2>2
<1> QED BY <1>5, <1>12, <1>14, <1>15 DEF BeliefsTrue, Key

\* Every step keeps the beliefs true.
LEMMA ToldStep ==
  ASSUME Inv, ~ ReuseLiveIds, BeliefsTrue, [Next]_vars
  PROVE  BeliefsTrue'
<1> USE DEF Inv
<1>1. told \in [ClientOrders -> Told] /\ IndexExact /\ KeysUnique
  BY DEF TypeOK
<1>2. ASSUME NEW client \in Clients, NEW client_order \in ClientOrderIds,
             NEW side \in Sides, NEW price \in Prices, NEW quantity \in Quantities,
             Add(client, client_order, side, price, quantity)
      PROVE  BeliefsTrue'
  <2> DEFINE key == <<client, client_order>>
  <2>1. key \in ClientOrders /\ quantity \in 0 .. MaxQuantity
    BY DEF ClientOrders, Quantities
  <2>2. /\ told' = Respond(told, key, "ACCEPTED", quantity) /\ book' = book
        /\ Key(taker') = key /\ taker'.quantity = quantity
        /\ taker = NoTaker /\ \A o \in book : Key(o) # key
    BY <1>2 DEF Add, Key
  <2> HIDE DEF key
  <2>3. /\ Believed(told', key) = quantity
        /\ \A other \in ClientOrders : other # key =>
             Believed(told', other) = Believed(told, other)
    BY <1>1, <2>1, <2>2, RespondFacts
  <2>4. taker' # NoTaker
    BY <2>2, BoundsAssumption DEF NoTaker, Quantities
  <2> QED BY <2>2, <2>3, <2>4, KeyTypes DEF BeliefsTrue, Key
<1>3. CASE MatchFill
  BY <1>3, FillTold
<1>4. CASE AddFilled
  BY <1>4 DEF AddFilled, BeliefsTrue, Key
<1>5. CASE AddRest
  <2>1. Newcomer.quantity = taker.quantity /\ Key(Newcomer) = Key(taker)
    BY DEF Newcomer, Key
  <2>2. /\ book' = book \cup {Newcomer} /\ taker' = NoTaker /\ told' = told
        /\ taker # NoTaker
    BY <1>5, RestShape, TakerType DEF Joins, AddRest
  <2> HIDE DEF Inv
  <2> QED BY <2>1, <2>2 DEF BeliefsTrue, Key
<1>6. ASSUME NEW client \in Clients, NEW client_order \in ClientOrderIds,
             CancelRejected(client, client_order)
      PROVE  BeliefsTrue'
  <2> DEFINE key == <<client, client_order>>
  <2>1. key \in ClientOrders /\ 0 \in 0 .. MaxQuantity
    BY BoundsAssumption DEF ClientOrders
  <2>2. /\ told' = Respond(told, key, "CANCEL_REJECTED", 0) /\ book' = book
        /\ taker = NoTaker /\ taker' = NoTaker /\ orders_[key] = None
    BY <1>6 DEF CancelRejected
  <2> HIDE DEF key
  <2>3. /\ Believed(told', key) = 0
        /\ \A other \in ClientOrders : other # key =>
             Believed(told', other) = Believed(told, other)
    BY <1>1, <2>1, <2>2, RespondFacts
  <2>4. \A o \in book : Key(o) # key
    BY <1>1, <2>2, BoundsAssumption DEF IndexExact, TypeOK, Order, OrderIds, None
  <2> QED BY <2>2, <2>3, <2>4, KeyTypes DEF BeliefsTrue, Key
<1>7. ASSUME NEW client \in Clients, NEW client_order \in ClientOrderIds,
             Cancel(client, client_order)
      PROVE  BeliefsTrue'
  <2> DEFINE key == <<client, client_order>>
  <2>1. PICK o \in book :
          /\ o.id = orders_[key]
          /\ told' = Respond(told, key, "CANCELED", o.quantity)
          /\ book' = book \ {o}
    BY <1>7 DEF Cancel
  <2>2. key \in ClientOrders /\ taker = NoTaker /\ taker' = NoTaker
    BY <1>7 DEF Cancel, ClientOrders
  <2> HIDE DEF key
  <2>3. o.id # None
    BY BoundsAssumption DEF TypeOK, Order, OrderIds, None
  <2>4. PICK p \in book : Key(p) = key /\ p.id = orders_[key]
    BY <1>1, <2>1, <2>2, <2>3 DEF IndexExact
  <2>5. Key(o) = key
    BY <2>1, <2>4 DEF IdsInOrder
  <2>6. /\ Believed(told', key) = 0
        /\ \A other \in ClientOrders : other # key =>
             Believed(told', other) = Believed(told, other)
    BY <1>1, <2>1, <2>2, KeyTypes, RespondFacts
  <2>7. \A q \in book : q # o => Key(q) # key
    BY <1>1, <2>5 DEF KeysUnique
  <2> QED BY <2>1, <2>2, <2>5, <2>6, <2>7, KeyTypes DEF BeliefsTrue, Key
<1>8. CASE UNCHANGED vars
  BY <1>8 DEF vars, BeliefsTrue, Key
<1> HIDE DEF Inv
<1> QED BY <1>2, <1>3, <1>4, <1>5, <1>6, <1>7, <1>8 DEF Next

\* What a client last heard of an order number is exactly what is open under
\* it, in the book or in the matching, as long as no client reuses the number
\* of a resting order: the two responses of a fill, the one of an acceptance
\* and the one of a cancel leave no client with a wrong quantity
\* (book_core.cc 60-63, 112-122, 182-201).
THEOREM ToldCorrect ==
  ASSUME ReuseLiveIds = FALSE
  PROVE  Spec => []ClientsToldTruth
<1>1. Init => BeliefsTrue
  BY DEF Init, BeliefsTrue, Believed
<1>2. Inv /\ BeliefsTrue /\ [Next]_vars => BeliefsTrue'
  BY ToldStep
<1>3. Inv /\ BeliefsTrue => ClientsToldTruth
  <2> SUFFICES ASSUME Inv, BeliefsTrue, NEW key \in ClientOrders
               PROVE  OpenQuantities(key) \ {0} = {Believed(told, key)} \ {0}
    BY DEF ClientsToldTruth, Believed
  <2>1. ASSUME NEW q, q \in OpenQuantities(key) PROVE q = Believed(told, key)
    BY <2>1 DEF OpenQuantities, BeliefsTrue
  <2>2. ASSUME Believed(told, key) # 0 PROVE Believed(told, key) \in OpenQuantities(key)
    BY <2>2 DEF OpenQuantities, BeliefsTrue
  <2> QED BY <2>1, <2>2
<1> QED BY <1>1, <1>2, <1>3, Invariance, PTL DEF Spec
=============================================================================
