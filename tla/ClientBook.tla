----------------------------- MODULE ClientBook -----------------------------
(***************************************************************************)
(* What the client's order book promises its strategies: at every price    *)
(* of every side the orders that rest there, oldest first, and a best bid  *)
(* and offer that always are those of these orders (market_order.h 68-73). *)
(***************************************************************************)
EXTENDS Integers, SequencesExt

CONSTANTS Sides, OrderIds, Prices, Quantities

VARIABLES queue,  \* the orders of every side and price, oldest first
          bbo     \* what is shown of the best price of every side

vars == <<queue, bbo>>

Better(side, p, q) == IF side = "BUY" THEN p > q ELSE p < q
Total(quantities) == FoldLeft(LAMBDA sum, qty : sum + qty, 0, quantities)
QuantityOf(q) == Total([n \in DOMAIN q |-> q[n].quantity])

\* A quantity of 0 says that the side is empty; the price is 0 then.
BestOf(side, levels) ==
  LET quoted == {p \in Prices : levels[p] # << >>}
  IN IF quoted = {} THEN [price |-> 0, quantity |-> 0]
     ELSE LET best == CHOOSE p \in quoted : \A q \in quoted \ {p} : Better(side, p, q)
          IN [price |-> best, quantity |-> QuantityOf(levels[best])]
Shown == bbo = [side \in Sides |-> BestOf(side, queue[side])]

Empty == [side \in Sides |-> [p \in Prices |-> << >>]]
Init == queue = Empty /\ Shown

Joined(q, order, quantity) == Append(q, [order |-> order, quantity |-> quantity])
Changed(q, i, quantity) == [q EXCEPT ![i].quantity = quantity]
Left(q, i) == RemoveAt(q, i)

\* One update changes one queue, or clears them all.
Operation(side, p) ==
  LET q == queue[side][p]
      Becomes(after) == queue' = [queue EXCEPT ![side][p] = after]
  IN \/ \E order \in OrderIds, quantity \in Quantities :
          Becomes(Joined(q, order, quantity))
     \/ \E i \in DOMAIN q, quantity \in Quantities : Becomes(Changed(q, i, quantity))
     \/ \E i \in DOMAIN q : Becomes(Left(q, i))

Next == /\ \/ \E side \in Sides, p \in Prices : Operation(side, p)
           \/ queue' = Empty
        /\ Shown'

Spec == Init /\ [][Next]_vars
=============================================================================
