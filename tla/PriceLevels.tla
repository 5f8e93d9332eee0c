---------------------------- MODULE PriceLevels ----------------------------
(***************************************************************************)
(* exchange/matcher/price_levels.h and .cc: one side of the order book of  *)
(* a symbol.                                                               *)
(*                                                                         *)
(* Prices are positions on a fixed grid of ticks.  Every tick has a slot   *)
(* with the head and the tail of a doubly linked list of orders.  Which    *)
(* ticks hold orders is kept three times over: in the slots, in a bitmap   *)
(* with one bit a tick (occupancy_), and in a summary bitmap with one bit  *)
(* a word of the first; the best tick is cached besides.  Matching reads   *)
(* only the cached one.                                                    *)
(*                                                                         *)
(* A bitmap word is the set of its bits.  An order node is taken from the  *)
(* pool and given back: any node not in the book may be handed out, which  *)
(* is what MemPool promises.                                               *)
(***************************************************************************)
EXTENDS Integers, SequencesExt

CONSTANTS BitsPerWord,  \* kBitsPerWord
          TickCount,    \* kTickCount
          Nodes,        \* the order nodes of the pool
          Null,         \* nullptr
          MaxQuantity,  \* bound of the model: the largest order
          MaxPriority   \* bound of the model: the largest priority handed out

\* The static_assert at price_levels.h 248-249.
ASSUME GridAssumption ==
  /\ BitsPerWord \in Nat \ {0}
  /\ TickCount \in Nat \ {0}
  /\ TickCount % BitsPerWord = 0
ASSUME NodesAssumption == IsFiniteSet(Nodes) /\ Null \notin Nodes
ASSUME BoundsAssumption == MaxQuantity \in Nat /\ MaxPriority \in Nat

kInvalidTick == -1
Ticks == 0 .. (TickCount - 1)
Bits == 0 .. (BitsPerWord - 1)
OccupancyWords == 0 .. ((TickCount \div BitsPerWord) - 1)
SummaryWords == {w \div BitsPerWord : w \in OccupancyWords}
Quantities == 1 .. MaxQuantity

VARIABLES
  side_,       \* "BUY" or "SELL"
  levels_,     \* the slot of every tick
  nodes,       \* the order nodes; level = kInvalidTick outside the book
  occupancy_,  \* the bits of every word
  summary_,    \* the bits of every summary word
  best_tick_   \* the cached best tick

bitmaps == <<occupancy_, summary_, best_tick_>>
vars == <<side_, levels_, nodes, bitmaps>>

EmptyLevel == [first_order |-> Null, last_order |-> Null,
               next_priority |-> 1, total_quantity |-> 0]
FreeNode == [next |-> Null, prev |-> Null, level |-> kInvalidTick,
             priority |-> 0, remaining_quantity |-> 0]

Level == [first_order : Nodes \cup {Null}, last_order : Nodes \cup {Null},
          next_priority : Nat, total_quantity : Int]
Node == [next : Nodes \cup {Null}, prev : Nodes \cup {Null},
         level : Ticks \cup {kInvalidTick}, priority : Nat,
         remaining_quantity : Nat]

TypeOK ==
  /\ side_ \in {"BUY", "SELL"}
  /\ levels_ \in [Ticks -> Level]
  /\ nodes \in [Nodes -> Node]
  /\ occupancy_ \in [OccupancyWords -> SUBSET Bits]
  /\ summary_ \in [SummaryWords -> SUBSET Bits]
  /\ best_tick_ \in Ticks \cup {kInvalidTick}

Init ==
  /\ side_ \in {"BUY", "SELL"}
  /\ levels_ = [t \in Ticks |-> EmptyLevel]
  /\ nodes = [n \in Nodes |-> FreeNode]
  /\ occupancy_ = [w \in OccupancyWords |-> {}]
  /\ summary_ = [s \in SummaryWords |-> {}]
  /\ best_tick_ = kInvalidTick

InBook(n) == nodes[n].level # kInvalidTick
IsEmpty(t) == levels_[t].first_order = Null

-----------------------------------------------------------------------------
\* The bitmaps.

WordOf(t) == t \div BitsPerWord
BitOf(t) == t % BitsPerWord

\* BitsPerWord - 1 - countl_zero(bits) and countr_zero(bits).
Highest(bits) == Max(bits \cup {-1})
Lowest(bits) == Min(bits \cup {BitsPerWord})

\* The best tick that the bitmaps `occupancy` and `summary` give.
FindBestTick(occupancy, summary) ==
  LET used == {s \in SummaryWords : summary[s] # {}} IN
  IF used = {} THEN kInvalidTick
  ELSE IF side_ = "BUY"
       THEN LET word == Max(used) * BitsPerWord + Highest(summary[Max(used)])
            IN  word * BitsPerWord + Highest(occupancy[word])
       ELSE LET word == Min(used) * BitsPerWord + Lowest(summary[Min(used)])
            IN  word * BitsPerWord + Lowest(occupancy[word])

IsBetter(candidate, current) ==
  IF side_ = "BUY" THEN candidate > current ELSE candidate < current

MarkOccupied(t) ==
  /\ occupancy_' = [occupancy_ EXCEPT ![WordOf(t)] = @ \cup {BitOf(t)}]
  /\ summary_' = [summary_ EXCEPT ![WordOf(WordOf(t))] = @ \cup {BitOf(WordOf(t))}]

\* Mutant: the summary bit is cleared whatever else the word holds.
ClearOccupiedWholeWord(t) ==
  /\ occupancy_' = [occupancy_ EXCEPT ![WordOf(t)] = @ \ {BitOf(t)}]
  /\ summary_' = [summary_ EXCEPT ![WordOf(WordOf(t))] = @ \ {BitOf(WordOf(t))}]

ClearOccupied(t) ==
  /\ occupancy_' = [occupancy_ EXCEPT ![WordOf(t)] = @ \ {BitOf(t)}]
  /\ summary_' = IF occupancy_'[WordOf(t)] = {}
                 THEN [summary_ EXCEPT ![WordOf(WordOf(t))] = @ \ {BitOf(WordOf(t))}]
                 ELSE summary_

-----------------------------------------------------------------------------
\* AddOrder(): the node joins the tail of the queue of tick t.
AddOrder(t, n, quantity) ==
  LET level == levels_[t] IN
  /\ ~ InBook(n)
  /\ level.next_priority <= MaxPriority
  /\ nodes' = [m \in Nodes |->
       IF m = n
       THEN [next |-> Null, prev |-> level.last_order, level |-> t,
             priority |-> level.next_priority, remaining_quantity |-> quantity]
       ELSE IF m = level.last_order /\ ~ IsEmpty(t)
       THEN [nodes[m] EXCEPT !.next = n]
       ELSE nodes[m]]
  /\ levels_' = [levels_ EXCEPT ![t] =
       [first_order |-> IF IsEmpty(t) THEN n ELSE @.first_order,
        last_order |-> n,
        next_priority |-> @.next_priority + 1,
        total_quantity |-> @.total_quantity + quantity]]
  /\ IF IsEmpty(t)
     THEN /\ MarkOccupied(t)
          /\ best_tick_' = IF best_tick_ = kInvalidTick \/ IsBetter(t, best_tick_)
                           THEN t ELSE best_tick_
     ELSE UNCHANGED bitmaps
  /\ UNCHANGED side_

\* ApplyFill(): a fill of at most what the order has left.
ApplyFill(n, quantity) ==
  /\ InBook(n)
  /\ quantity <= nodes[n].remaining_quantity
  /\ nodes' = [nodes EXCEPT ![n].remaining_quantity = @ - quantity]
  /\ levels_' = [levels_ EXCEPT ![nodes[n].level].total_quantity = @ - quantity]
  /\ UNCHANGED <<side_, bitmaps>>

\* Mutant: the back link of the next order is left as it was.
RelinkForwardOnly(n) ==
  LET order == nodes[n] IN
  nodes' = [m \in Nodes |->
    IF m = n THEN FreeNode
    ELSE [nodes[m] EXCEPT !.next = IF m = order.prev THEN order.next ELSE @]]

\* The neighbours of order n are joined and n goes back to the pool.
Relink(n) ==
  LET order == nodes[n] IN
  nodes' = [m \in Nodes |->
    IF m = n THEN FreeNode
    ELSE [nodes[m] EXCEPT
            !.next = IF m = order.prev THEN order.next ELSE @,
            !.prev = IF m = order.next THEN order.prev ELSE @]]

\* Mutant: the numbering of a queue restarts at every removal.
UnlinkedLevelRestarts(level, order) ==
  [first_order |-> IF order.prev = Null THEN order.next ELSE level.first_order,
   last_order |-> IF order.next = Null THEN order.prev ELSE level.last_order,
   next_priority |-> 1,
   total_quantity |-> level.total_quantity - order.remaining_quantity]

\* The slot once the order is unlinked from its ends.
UnlinkedLevel(level, order) ==
  [first_order |-> IF order.prev = Null THEN order.next ELSE level.first_order,
   last_order |-> IF order.next = Null THEN order.prev ELSE level.last_order,
   next_priority |-> level.next_priority,
   total_quantity |-> level.total_quantity - order.remaining_quantity]

\* RemoveOrder(): by a cancel or a full fill, from anywhere in the queue.
RemoveOrder(n) ==
  LET order == nodes[n]
      t == order.level
      level == UnlinkedLevel(levels_[t], order)
  IN
  /\ InBook(n)
  /\ Relink(n)
  /\ IF level.first_order = Null
     THEN /\ levels_' = [levels_ EXCEPT ![t] =
               [level EXCEPT !.total_quantity = 0, !.next_priority = 1]]
          /\ ClearOccupied(t)
          /\ best_tick_' = IF t = best_tick_
                           THEN FindBestTick(occupancy_', summary_')
                           ELSE best_tick_
     ELSE /\ levels_' = [levels_ EXCEPT ![t] = level]
          /\ UNCHANGED bitmaps
  /\ UNCHANGED side_

Next ==
  \/ \E t \in Ticks, n \in Nodes, quantity \in Quantities : AddOrder(t, n, quantity)
  \/ \E n \in Nodes, quantity \in Quantities : ApplyFill(n, quantity)
  \/ \E n \in Nodes : RemoveOrder(n)

Spec == Init /\ [][Next]_vars

-----------------------------------------------------------------------------
\* Properties.

\* The bitmaps and the cached best tick agree with the queues after every
\* sequence of operations: matching, which reads only the cached tick, never
\* passes over an order at a better price and never looks at an empty tick
\* (the comments at price_levels.h 163-170 and 236-239).
Occupied == {t \in Ticks : ~ IsEmpty(t)}
BitmapsExact ==
  /\ \A t \in Ticks : BitOf(t) \in occupancy_[WordOf(t)] <=> t \in Occupied
  /\ \A w \in OccupancyWords :
       BitOf(w) \in summary_[WordOf(w)] <=> occupancy_[w] # {}
BestExact ==
  IF Occupied = {} THEN best_tick_ = kInvalidTick
  ELSE /\ best_tick_ \in Occupied
       /\ \A t \in Occupied : ~ IsBetter(t, best_tick_)
BestTickExact == BitmapsExact /\ BestExact

\* The queue of a tick: its head, and what the next links lead to.
Walk(t) ==
  LET next == [n \in Nodes \cup {Null} |-> IF n = Null THEN Null ELSE nodes[n].next]
      at[k \in 1 .. Cardinality(Nodes)] ==
        IF k = 1 THEN levels_[t].first_order ELSE next[at[k - 1]]
  IN  [k \in 1 .. Cardinality({j \in DOMAIN at : at[j] # Null}) |-> at[k]]

\* Priorities grow along every queue and are below the next one handed out:
\* the number published with each order is its rank at its price
\* (price_levels.h 111, "the order within the level"), through removals from
\* the middle and the restart of the numbering in an emptied slot.
PrioritiesSorted ==
  \A t \in Ticks :
    LET q == Walk(t) IN
    \A i \in DOMAIN q :
      /\ nodes[q[i]].priority < levels_[t].next_priority
      /\ \A j \in 1 .. (i - 1) : nodes[q[j]].priority < nodes[q[i]].priority

\* The slots, links, bitmaps and running totals implement one side of a book:
\* arrival order kept under cancels from the middle, totals equal to the sum
\* of their orders, no order lost or linked twice.
Entries[q \in Seq(Nodes)] ==
  [i \in DOMAIN q |-> [order |-> q[i], quantity |-> nodes[q[i]].remaining_quantity]]

side == INSTANCE BookSide WITH
  Orders <- Nodes, NoTick <- kInvalidTick,
  buys <- side_ = "BUY",
  queue <- [t \in Ticks |-> Entries[Walk(t)]],
  best <- best_tick_,
  total <- [t \in Ticks |-> levels_[t].total_quantity]

ImplementsBookSide == side!Spec
=============================================================================
