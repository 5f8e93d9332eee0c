--------------------------- MODULE MarketUpdates ---------------------------
(***************************************************************************)
(* The market updates the exchange multicasts (market_update.h) and what   *)
(* they make of a book.  A book is the quantity of every order id of every *)
(* symbol, 0 for none: which price an order has never matters here.        *)
(***************************************************************************)
EXTENDS Integers, SequencesExt, FiniteSets

CONSTANTS Symbols,     \* symbol ids
          OrderIds,    \* market order ids of a symbol
          MaxQuantity, \* bound of the model: the largest order
          MaxUpdates   \* bound of the model: how many updates are published

ASSUME UpdatesAssumption ==
  /\ Symbols \subseteq Nat /\ IsFiniteSet(Symbols)
  /\ OrderIds \subseteq Nat \ {0} /\ IsFiniteSet(OrderIds)
  /\ MaxQuantity \in Nat /\ MaxUpdates \in Nat

Types == {"ADD", "MODIFY", "CANCEL", "TRADE", "CLEAR",
          "SNAPSHOT_START", "SNAPSHOT_END"}

\* order is orderId_; a SNAPSHOT_START or END keeps a sequence number there.
Update == [type : Types, symbol : Symbols \cup {0},
           order : Nat, quantity : 0 .. MaxQuantity]
Message == [seq : Nat, update : Update]

MakeUpdate(type, symbol, order, quantity) ==
  [type |-> type, symbol |-> symbol, order |-> order, quantity |-> quantity]
Numbered(seq, update) == [seq |-> seq, update |-> update]

Books == [Symbols \X OrderIds -> 0 .. MaxQuantity]
EmptyBook == [o \in Symbols \X OrderIds |-> 0]

\* An update sets the quantity of one order, or of all those of a symbol.
Touches(u, o) ==
  \/ u.type \in {"ADD", "MODIFY", "CANCEL"} /\ o = <<u.symbol, u.order>>
  \/ u.type = "CLEAR" /\ o[1] = u.symbol
QuantityIn(u) == IF u.type \in {"ADD", "MODIFY"} THEN u.quantity ELSE 0

\* The book b after the update u.
After(b, u) == [o \in DOMAIN b |-> IF Touches(u, o) THEN QuantityIn(u) ELSE b[o]]

\* The book b after all the updates: an order has the quantity that the last
\* update to touch it gives it.
AfterAll(b, updates) ==
  [o \in DOMAIN b |->
     LET touching == {i \in DOMAIN updates : Touches(updates[i], o)}
     IN IF touching = {} THEN b[o] ELSE QuantityIn(updates[Max(touching)])]
=============================================================================
