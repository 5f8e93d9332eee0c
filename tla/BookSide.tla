------------------------------ MODULE BookSide ------------------------------
(***************************************************************************)
(* What one side of an order book promises (the contract written on the    *)
(* public operations of PriceLevels, price_levels.h 155-239): on every     *)
(* tick a queue of orders in order of arrival, the quantity resting there, *)
(* and the best tick that has any order.                                   *)
(***************************************************************************)
EXTENDS Integers, SequencesExt

CONSTANTS Orders,      \* handles of orders
          Ticks,       \* positions on the price grid
          Quantities,  \* sizes of orders
          NoTick       \* the best tick of an empty side

VARIABLES buys,   \* is this the buy side
          queue,  \* the orders of every tick, oldest first
          best,   \* the best tick
          total   \* the quantity resting on every tick

vars == <<buys, queue, best, total>>

\* The quantity of a queue, counted unit by unit; no order waits twice.
Units(order, quantity) == {order} \X (1 .. quantity)
QuantityOf[q \in Seq([order : Orders, quantity : Nat])] ==
  Cardinality(UNION {Units(q[i].order, q[i].quantity) : i \in DOMAIN q})

\* What the side shows always follows from its queues.
Shown ==
  /\ best = NoTick \/ queue[best] # << >>
  /\ \A t \in Ticks : queue[t] # << >> =>
       best # NoTick /\ IF buys THEN best >= t ELSE best <= t
  /\ \A t \in Ticks : total[t] = QuantityOf[queue[t]]

Init == /\ buys \in BOOLEAN
        /\ queue = [t \in Ticks |-> << >>]
        /\ Shown

\* The three operations: what each makes of the queue of one tick.
AddOrder(q, order, quantity) ==
  Append(q, [order |-> order, quantity |-> quantity])
FillOrder(q, i, quantity) == [q EXCEPT ![i].quantity = @ - quantity]
RemoveOrder(q, i) == RemoveAt(q, i)

Waits(order) == \E t \in Ticks : \E i \in DOMAIN queue[t] : queue[t][i].order = order

Operation(t) ==
  LET before == queue[t]
      after == queue'[t]
  IN
  \/ \E order \in Orders, quantity \in Quantities :
       after = AddOrder(before, order, quantity) /\ ~ Waits(order)
  \/ \E i \in DOMAIN before, quantity \in Quantities :
       quantity <= before[i].quantity /\ after = FillOrder(before, i, quantity)
  \/ \E i \in DOMAIN before : after = RemoveOrder(before, i)

Next ==
  /\ UNCHANGED buys
  /\ \E t \in Ticks : /\ \A u \in Ticks \ {t} : UNCHANGED queue[u]
                     /\ Operation(t)
  /\ Shown'

Spec == Init /\ [][Next]_vars
=============================================================================
