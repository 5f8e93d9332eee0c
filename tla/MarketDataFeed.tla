--------------------------- MODULE MarketDataFeed ---------------------------
(***************************************************************************)
(* What a client is promised of the market data: whatever the network does *)
(* to the datagrams, its book is always a book that the exchange has had,  *)
(* and it only moves on to later ones.                                     *)
(***************************************************************************)
EXTENDS Integers, Sequences

CONSTANT Books

VARIABLES history, \* the exchange's books, one more with every update
          version, \* how many updates the client's book stands for
          book     \* the client's book

vars == <<history, version, book>>

Init == \E b \in Books : history = <<b>> /\ version = 0 /\ book = b

Publish == /\ \E b \in Books : history' = Append(history, b)
           /\ UNCHANGED <<version, book>>

MoveOn == /\ \E n \in version + 1 .. Len(history) - 1 :
               version' = n /\ book' = history[n + 1]
          /\ UNCHANGED history

Next == Publish \/ MoveOn
Spec == Init /\ [][Next]_vars
=============================================================================
