------------------------- MODULE PriceLevelsProofs -------------------------
(***************************************************************************)
(* Proofs about PriceLevels, for every grid, pool and size of order.       *)
(*                                                                         *)
(* The bitmaps can only be exact if an emptied slot means that no order    *)
(* is left at that tick, which is a fact about the linked lists.  Linked   *)
(* states them locally, link by link; that no order is cut off from the    *)
(* head of its queue follows because priorities grow along the links: the  *)
(* order with the least priority of a tick has no predecessor.             *)
(*   The orders of a tick can therefore be listed by priority, and the     *)
(* links lead along that list: what Walk() reads is the list (WalkIsList). *)
(* With the totals counted unit by unit (TotalsExact), adding, filling and *)
(* removing are the operations of BookSide on those lists.                 *)
(***************************************************************************)
EXTENDS PriceLevels, FiniteSetTheorems, SequenceTheorems, WellFoundedInduction, TLAPS

-----------------------------------------------------------------------------
\* Numbers.

\* A non-empty set of numbers has a least one.
LEMMA LeastExists ==
  ASSUME NEW T \in SUBSET Nat, T # {}
  PROVE  \E x \in T : \A y \in T : x <= y
<1>1. PICK m \in T : \A k \in T : <<k, m>> \notin OpToRel(<, Nat)
  BY WFMin, NatLessThanWellFounded, Zenon
<1>2. \A k \in T : ~ (k < m)
  BY <1>1, Zenon DEF OpToRel
<1> QED BY <1>2

\* A non-empty bounded set of numbers has a greatest one.
LEMMA GreatestExists ==
  ASSUME NEW N \in Nat, NEW T \in SUBSET (0 .. N), T # {}
  PROVE  \E x \in T : \A y \in T : x >= y
<1> DEFINE U == {k \in Nat : N - k \in T}
<1>1. U \in SUBSET Nat
  OBVIOUS
<1>2. PICK t \in T : TRUE
  OBVIOUS
<1>3. N - t \in Nat /\ N - (N - t) = t
  BY <1>2
<1>4. U # {}
  BY <1>2, <1>3
<1>5. PICK m \in U : \A k \in U : m <= k
  BY <1>1, <1>4, LeastExists, Zenon
<1>6. N - m \in T
  BY <1>5
<1>7. ASSUME NEW y \in T PROVE N - m >= y
  <2>1. N - y \in Nat /\ N - (N - y) = y
    OBVIOUS
  <2>2. N - y \in U
    BY <2>1
  <2>3. m \in Nat /\ m <= N - y
    BY <2>2, <1>5
  <2> QED BY <2>1, <2>3
<1> QED BY <1>6, <1>7

\* A number is made of its word and its bit.
LEMMA Split ==
  ASSUME NEW x \in Nat
  PROVE  /\ WordOf(x) \in Nat /\ BitOf(x) \in Bits
         /\ x = WordOf(x) * BitsPerWord + BitOf(x)
BY GridAssumption DEF WordOf, BitOf, Bits

\* The number made of a word and a bit.
LEMMA Joined ==
  ASSUME NEW w \in Nat, NEW b \in Bits
  PROVE  /\ w * BitsPerWord + b \in Nat
         /\ WordOf(w * BitsPerWord + b) = w
         /\ BitOf(w * BitsPerWord + b) = b
BY GridAssumption DEF WordOf, BitOf, Bits

\* A lower word is a lower number, and in one word the bits decide.
LEMMA WordFirst ==
  ASSUME NEW x \in Nat, NEW y \in Nat
  PROVE  /\ WordOf(x) < WordOf(y) => x < y
         /\ WordOf(x) = WordOf(y) => (x <= y <=> BitOf(x) <= BitOf(y))
         /\ WordOf(x) = WordOf(y) /\ BitOf(x) = BitOf(y) => x = y
<1> DEFINE wx == WordOf(x)
           wy == WordOf(y)
<1>1. /\ wx \in Nat /\ BitOf(x) \in Bits /\ x = wx * BitsPerWord + BitOf(x)
      /\ wy \in Nat /\ BitOf(y) \in Bits /\ y = wy * BitsPerWord + BitOf(y)
  BY Split
<1> HIDE DEF wx, wy
<1>2. wx * BitsPerWord \in Nat /\ wy * BitsPerWord \in Nat
  BY <1>1, GridAssumption
<1>3. ASSUME wx < wy PROVE wx * BitsPerWord + BitsPerWord <= wy * BitsPerWord
  <2>1. PICK k \in Nat : wy = wx + 1 + k
    <3>1. wy - wx - 1 \in Nat /\ wy = wx + 1 + (wy - wx - 1)
      BY <1>1, <1>3
    <3> QED BY <3>1
  <2>2. wy * BitsPerWord = wx * BitsPerWord + BitsPerWord + k * BitsPerWord
    BY <2>1, <1>1, GridAssumption
  <2>3. k * BitsPerWord \in Nat
    BY <2>1, GridAssumption
  <2> QED BY <2>2, <2>3, <1>2, GridAssumption
<1>4. wx < wy => x < y
  BY <1>1, <1>2, <1>3, GridAssumption DEF Bits
<1>5. wx = wy => (x <= y <=> BitOf(x) <= BitOf(y))
  BY <1>1, <1>2, GridAssumption DEF Bits
<1>6. wx = wy /\ BitOf(x) = BitOf(y) => x = y
  BY <1>1
<1> QED BY <1>4, <1>5, <1>6 DEF wx, wy

\* Every tick has a word, every word with any bit is a tick, and every word
\* has a summary word.
LEMMA Grid ==
  /\ \A t \in Ticks : t \in Nat /\ WordOf(t) \in OccupancyWords /\ BitOf(t) \in Bits
  /\ \A w \in OccupancyWords, b \in Bits : w * BitsPerWord + b \in Ticks
  /\ \A w \in OccupancyWords :
       w \in Nat /\ WordOf(w) \in SummaryWords /\ BitOf(w) \in Bits
  /\ SummaryWords \subseteq 0 .. TickCount
<1> DEFINE words == TickCount \div BitsPerWord
<1>1. words \in Nat /\ TickCount = words * BitsPerWord
  BY GridAssumption
<1>2. OccupancyWords = 0 .. (words - 1)
  BY DEF OccupancyWords
<1>3. words <= TickCount
  BY GridAssumption
<1> HIDE DEF words
<1>4. ASSUME NEW t \in Ticks
      PROVE  t \in Nat /\ WordOf(t) \in OccupancyWords /\ BitOf(t) \in Bits
  <2>1. t \in Nat /\ t < TickCount
    BY GridAssumption DEF Ticks
  <2>2. WordOf(t) \in Nat /\ BitOf(t) \in Bits /\ t = WordOf(t) * BitsPerWord + BitOf(t)
    BY <2>1, Split
  <2>3. WordOf(words * BitsPerWord) = words
    BY <1>1, GridAssumption DEF WordOf
  <2>4. BitOf(words * BitsPerWord) = 0
    BY <1>1, GridAssumption DEF BitOf
  <2>5. ~ (WordOf(t) > words)
    BY <2>1, <2>2, <2>3, <1>1, WordFirst, GridAssumption
  <2>6. WordOf(t) # words
    BY <2>1, <2>2, <2>3, <2>4, <1>1, WordFirst, GridAssumption DEF Bits
  <2> QED BY <2>1, <2>2, <2>5, <2>6, <1>1, <1>2
<1>5. ASSUME NEW w \in OccupancyWords, NEW b \in Bits
      PROVE  w * BitsPerWord + b \in Ticks
  <2>1. w \in Nat /\ w < words
    BY <1>1, <1>2
  <2>2. w * BitsPerWord + b \in Nat /\ WordOf(w * BitsPerWord + b) = w
    BY <2>1, Joined
  <2>3. WordOf(TickCount) = words
    BY <1>1, GridAssumption DEF WordOf
  <2>4. w * BitsPerWord + b < TickCount
    BY <2>1, <2>2, <2>3, WordFirst, GridAssumption
  <2> QED BY <2>2, <2>4, GridAssumption DEF Ticks
<1>6. ASSUME NEW w \in OccupancyWords
      PROVE  w \in Nat /\ WordOf(w) \in SummaryWords /\ BitOf(w) \in Bits
  <2>1. w \in Nat
    BY <1>1, <1>2
  <2> QED BY <2>1, Split DEF SummaryWords, WordOf
<1>7. SummaryWords \subseteq 0 .. TickCount
  <2>1. \A w \in OccupancyWords : w \in Nat /\ w <= TickCount
    BY <1>1, <1>2, <1>3, GridAssumption
  <2>2. \A w \in OccupancyWords : w \div BitsPerWord \in Nat /\ w \div BitsPerWord <= w
    BY <2>1, GridAssumption
  <2> QED BY <2>1, <2>2, GridAssumption DEF SummaryWords
<1> QED BY <1>4, <1>5, <1>6, <1>7

-----------------------------------------------------------------------------
\* What the bitmaps give.

\* Bitmaps that tell exactly which ticks are in the set `occupied`.
Exact(occupancy, summary, occupied) ==
  /\ \A t \in Ticks : BitOf(t) \in occupancy[WordOf(t)] <=> t \in occupied
  /\ \A w \in OccupancyWords : BitOf(w) \in summary[WordOf(w)] <=> occupancy[w] # {}
  /\ \A s \in SummaryWords : \A b \in summary[s] : s * BitsPerWord + b \in OccupancyWords

\* The highest and the lowest bit of a word that has any.
LEMMA HighestLowest ==
  ASSUME NEW bits \in SUBSET Bits, bits # {}
  PROVE  /\ Highest(bits) \in bits /\ \A b \in bits : b <= Highest(bits)
         /\ Lowest(bits) \in bits /\ \A b \in bits : Lowest(bits) <= b
<1> DEFINE high == bits \cup {-1}
           low == bits \cup {BitsPerWord}
<1>1. \A b \in bits : b \in Nat /\ b < BitsPerWord
  BY GridAssumption DEF Bits
<1>2. bits \in SUBSET (0 .. BitsPerWord) /\ bits \in SUBSET Nat
  BY <1>1, GridAssumption
<1>3. PICK h \in bits : \A b \in bits : h >= b
  BY <1>2, GreatestExists, GridAssumption
<1>4. PICK l \in bits : \A b \in bits : l <= b
  BY <1>2, LeastExists
<1>5. h \in high /\ \A b \in high : h >= b
  BY <1>1, <1>3
<1>6. l \in low /\ \A b \in low : l <= b
  BY <1>1, <1>4, GridAssumption
<1>7. Max(high) \in high /\ \A b \in high : Max(high) >= b
  BY <1>5 DEF Max
<1>8. Min(low) \in low /\ \A b \in low : Min(low) <= b
  BY <1>6 DEF Min
<1> HIDE DEF high, low
<1>9. Max(high) >= h /\ Min(low) <= l
  BY <1>5, <1>6, <1>7, <1>8
<1>10. Max(high) \in bits
  BY <1>1, <1>3, <1>7, <1>9 DEF high
<1>11. Min(low) \in bits
  BY <1>1, <1>4, <1>8, <1>9, GridAssumption DEF low
<1>12. \A b \in bits : b <= Max(high) /\ Min(low) <= b
  BY <1>1, <1>7, <1>8, <1>10, <1>11 DEF high, low
<1> QED BY <1>10, <1>11, <1>12 DEF Highest, Lowest, high, low

\* FindBestTick() on exact bitmaps gives the best occupied tick.
LEMMA FindBestTickIsBest ==
  ASSUME side_ \in {"BUY", "SELL"},
         NEW occupancy \in [OccupancyWords -> SUBSET Bits],
         NEW summary \in [SummaryWords -> SUBSET Bits],
         NEW occupied \in SUBSET Ticks,
         Exact(occupancy, summary, occupied)
  PROVE  IF occupied = {} THEN FindBestTick(occupancy, summary) = kInvalidTick
         ELSE /\ FindBestTick(occupancy, summary) \in occupied
              /\ \A t \in occupied : ~ IsBetter(t, FindBestTick(occupancy, summary))
<1> DEFINE used == {s \in SummaryWords : summary[s] # {}}
           best == FindBestTick(occupancy, summary)
<1>1. ASSUME NEW t \in occupied
      PROVE  /\ t \in Nat /\ WordOf(t) \in OccupancyWords /\ BitOf(t) \in occupancy[WordOf(t)]
             /\ WordOf(t) \in Nat /\ BitOf(t) \in Bits
             /\ WordOf(WordOf(t)) \in used /\ BitOf(WordOf(t)) \in summary[WordOf(WordOf(t))]
             /\ BitOf(WordOf(t)) \in Bits /\ WordOf(WordOf(t)) \in Nat
  <2> DEFINE w == WordOf(t)
             s == WordOf(w)
  <2>1. t \in Nat /\ w \in OccupancyWords /\ BitOf(t) \in Bits
    BY Grid
  <2>2. BitOf(t) \in occupancy[w]
    BY DEF Exact
  <2>3. w \in Nat /\ s \in SummaryWords /\ BitOf(w) \in Bits
    BY <2>1, Grid
  <2>4. BitOf(w) \in summary[s]
    BY <2>1, <2>2 DEF Exact
  <2>5. s \in Nat
    BY <2>3, Split
  <2> QED BY <2>1, <2>2, <2>3, <2>4, <2>5
<1>2. ASSUME NEW s \in used, NEW b \in summary[s]
      PROVE  /\ s * BitsPerWord + b \in OccupancyWords
             /\ s * BitsPerWord + b \in Nat
             /\ WordOf(s * BitsPerWord + b) = s /\ BitOf(s * BitsPerWord + b) = b
             /\ occupancy[s * BitsPerWord + b] # {}
  <2> DEFINE w == s * BitsPerWord + b
  <2>1. s \in Nat /\ b \in Bits
    BY Grid, GridAssumption
  <2>2. w \in OccupancyWords
    BY DEF Exact
  <2>3. w \in Nat /\ WordOf(w) = s /\ BitOf(w) = b
    BY <2>1, Joined
  <2> HIDE DEF w
  <2>4. occupancy[w] # {}
    BY <2>2, <2>3 DEF Exact
  <2> QED BY <2>2, <2>3, <2>4 DEF w
<1>3. ASSUME NEW w \in OccupancyWords, NEW b \in occupancy[w]
      PROVE  /\ w * BitsPerWord + b \in occupied /\ w * BitsPerWord + b \in Nat
             /\ WordOf(w * BitsPerWord + b) = w /\ BitOf(w * BitsPerWord + b) = b
  <2>1. w \in Nat /\ b \in Bits
    BY Grid
  <2>2. w * BitsPerWord + b \in Ticks
    BY <2>1, Grid
  <2> QED BY <2>1, <2>2, Joined DEF Exact
<1>4. used \in SUBSET (0 .. TickCount) /\ used \in SUBSET Nat
  <2>1. \A s \in used : s \in 0 .. TickCount
    BY Grid
  <2> QED BY <2>1, GridAssumption
<1>5. CASE used = {}
  <2>1. occupied = {}
    BY <1>1, <1>5
  <2>2. best = kInvalidTick
    BY <1>5, Zenon DEF FindBestTick
  <2> QED BY <2>1, <2>2
<1>6. CASE used # {}
  <2>1. occupied # {}
    <3>1. PICK s \in used : TRUE
      BY <1>6
    <3>2. PICK b \in summary[s] : TRUE
      BY <3>1
    <3>3. PICK c \in occupancy[s * BitsPerWord + b] : TRUE
      BY <1>2
    <3> QED BY <1>2, <1>3
  <2>2. Max(used) \in used /\ \A s \in used : s <= Max(used)
    <3>1. \E x \in used : \A y \in used : x >= y
      BY <1>4, <1>6, GreatestExists, GridAssumption
    <3>2. Max(used) \in used /\ \A s \in used : Max(used) >= s
      BY <3>1 DEF Max
    <3> QED BY <3>2, <1>4
  <2>3. Min(used) \in used /\ \A s \in used : Min(used) <= s
    <3>1. \E x \in used : \A y \in used : x <= y
      BY <1>4, <1>6, LeastExists
    <3> QED BY <3>1 DEF Min
  <2>4. CASE side_ = "BUY"
    <3> DEFINE s == Max(used)
               hs == Highest(summary[s])
               w == s * BitsPerWord + hs
               hw == Highest(occupancy[w])
               tick == w * BitsPerWord + hw
    <3>1. best = tick
      BY <1>6, <2>4 DEF FindBestTick
    <3>2. s \in used /\ \A r \in used : r <= s
      BY <2>2
    <3>3. hs \in summary[s] /\ \A b \in summary[s] : b <= hs
      BY <3>2, HighestLowest
    <3>4. w \in OccupancyWords /\ w \in Nat /\ occupancy[w] # {} /\ WordOf(w) = s /\ BitOf(w) = hs
      BY <3>2, <3>3, <1>2
    <3>5. hw \in occupancy[w] /\ \A b \in occupancy[w] : b <= hw
      BY <3>4, HighestLowest
    <3>6. tick \in occupied /\ tick \in Nat /\ WordOf(tick) = w /\ BitOf(tick) = hw
      BY <3>4, <3>5, <1>3
    <3> HIDE DEF s, hs, w, hw, tick
    <3>7. ASSUME NEW t \in occupied PROVE t <= tick
      <4>1. WordOf(t) <= w
        <5>1. CASE WordOf(WordOf(t)) = s
          BY <5>1, <1>1, <3>3, <3>4, WordFirst
        <5>2. CASE WordOf(WordOf(t)) < s
          BY <5>2, <1>1, <3>4, WordFirst
        <5> QED BY <5>1, <5>2, <1>1, <3>2, <1>4
      <4>2. CASE WordOf(t) = w
        BY <4>2, <1>1, <3>5, <3>6, WordFirst
      <4>3. CASE WordOf(t) < w
        BY <4>3, <1>1, <3>6, WordFirst
      <4> QED BY <4>1, <4>2, <4>3, <1>1, <3>4
    <3>8. \A t \in occupied : ~ (t > tick)
      BY <3>6, <3>7, <1>1
    <3> HIDE DEF best
    <3> QED BY <2>1, <3>1, <3>6, <3>8, <2>4 DEF IsBetter, best
  <2>5. CASE side_ = "SELL"
    <3> DEFINE s == Min(used)
               ls == Lowest(summary[s])
               w == s * BitsPerWord + ls
               lw == Lowest(occupancy[w])
               tick == w * BitsPerWord + lw
    <3>1. best = tick
      BY <1>6, <2>5 DEF FindBestTick
    <3>2. s \in used /\ \A r \in used : s <= r
      BY <2>3
    <3>3. ls \in summary[s] /\ \A b \in summary[s] : ls <= b
      BY <3>2, HighestLowest
    <3>4. w \in OccupancyWords /\ w \in Nat /\ occupancy[w] # {} /\ WordOf(w) = s /\ BitOf(w) = ls
      BY <3>2, <3>3, <1>2
    <3>5. lw \in occupancy[w] /\ \A b \in occupancy[w] : lw <= b
      BY <3>4, HighestLowest
    <3>6. tick \in occupied /\ tick \in Nat /\ WordOf(tick) = w /\ BitOf(tick) = lw
      BY <3>4, <3>5, <1>3
    <3> HIDE DEF s, ls, w, lw, tick
    <3>7. ASSUME NEW t \in occupied PROVE tick <= t
      <4>1. w <= WordOf(t)
        <5>1. CASE WordOf(WordOf(t)) = s
          BY <5>1, <1>1, <3>3, <3>4, WordFirst
        <5>2. CASE s < WordOf(WordOf(t))
          BY <5>2, <1>1, <3>4, WordFirst
        <5> QED BY <5>1, <5>2, <1>1, <3>2, <1>4
      <4>2. CASE WordOf(t) = w
        BY <4>2, <1>1, <3>5, <3>6, WordFirst
      <4>3. CASE w < WordOf(t)
        BY <4>3, <1>1, <3>6, WordFirst
      <4> QED BY <4>1, <4>2, <4>3, <1>1, <3>4
    <3>8. \A t \in occupied : ~ (t < tick)
      BY <3>6, <3>7, <1>1
    <3> HIDE DEF best
    <3> QED BY <2>1, <3>1, <3>6, <3>8, <2>5 DEF IsBetter, best
  <2> QED BY <2>4, <2>5
<1> QED BY <1>5, <1>6

-----------------------------------------------------------------------------
\* The lists, link by link.

\* Order n of tick t stands between its neighbours, or at an end.
LinkedAt(n, t) ==
  /\ nodes[n].priority < levels_[t].next_priority
  /\ nodes[n].prev = Null => levels_[t].first_order = n
  /\ nodes[n].next = Null => levels_[t].last_order = n
  /\ nodes[n].prev # Null => /\ nodes[nodes[n].prev].level = t
                             /\ nodes[nodes[n].prev].next = n
                             /\ nodes[nodes[n].prev].priority < nodes[n].priority
  /\ nodes[n].next # Null => /\ nodes[nodes[n].next].level = t
                             /\ nodes[nodes[n].next].prev = n

\* The ends of tick t are orders of it.
EndsAt(t) ==
  /\ levels_[t].first_order # Null => /\ nodes[levels_[t].first_order].level = t
                                      /\ nodes[levels_[t].first_order].prev = Null
  /\ levels_[t].last_order # Null => /\ nodes[levels_[t].last_order].level = t
                                     /\ nodes[levels_[t].last_order].next = Null
  /\ levels_[t].first_order = Null <=> levels_[t].last_order = Null

Linked ==
  /\ \A t \in Ticks, n \in Nodes : nodes[n].level = t => LinkedAt(n, t)
  /\ \A t \in Ticks : EndsAt(t)

Inv ==
  /\ TypeOK
  /\ Linked
  /\ Exact(occupancy_, summary_, Occupied)
  /\ BestExact

\* Of some orders of one tick, one has the least priority: it comes first.
LEMMA FirstExists ==
  ASSUME TypeOK, NEW S \in SUBSET Nodes, S # {}
  PROVE  \E m \in S : \A k \in S : nodes[m].priority <= nodes[k].priority
<1> DEFINE P == {nodes[n].priority : n \in S}
<1>1. P \in SUBSET Nat
  BY DEF TypeOK, Node
<1>2. P # {}
  OBVIOUS
<1>3. PICK p \in P : \A q \in P : p <= q
  <2> HIDE DEF P
  <2> QED BY <1>1, <1>2, LeastExists
<1> QED BY <1>3

\* The slot of a tick that has an order is not empty.
LEMMA NotEmpty ==
  ASSUME TypeOK, Linked, NEW n \in Nodes, InBook(n)
  PROVE  nodes[n].level \in Ticks /\ ~ IsEmpty(nodes[n].level)
<1> DEFINE t == nodes[n].level
           S == {m \in Nodes : nodes[m].level = t}
<1>1. t \in Ticks
  BY DEF TypeOK, Node, InBook
<1>2. PICK m \in S : \A k \in S : nodes[m].priority <= nodes[k].priority
  BY FirstExists
<1>3. nodes[m].prev = Null
  <2> SUFFICES ASSUME nodes[m].prev # Null PROVE FALSE
    OBVIOUS
  <2> DEFINE k == nodes[m].prev
  <2>1. k \in Nodes /\ nodes[k].level = t /\ nodes[k].priority < nodes[m].priority
    BY <1>1, <1>2 DEF Linked, LinkedAt, TypeOK, Node
  <2>2. nodes[k].priority \in Nat /\ nodes[m].priority \in Nat
    BY <2>1 DEF TypeOK, Node
  <2> QED BY <1>2, <2>1, <2>2
<1>4. levels_[t].first_order = m
  BY <1>1, <1>2, <1>3 DEF Linked, LinkedAt
<1> QED BY <1>1, <1>2, <1>4, NodesAssumption DEF IsEmpty

\* An order without neighbours is the only one of its tick.
LEMMA Alone ==
  ASSUME TypeOK, Linked, NEW n \in Nodes, InBook(n),
         nodes[n].prev = Null, nodes[n].next = Null
  PROVE  \A m \in Nodes : nodes[m].level = nodes[n].level => m = n
<1> DEFINE t == nodes[n].level
           S == {m \in Nodes : nodes[m].level = t /\ m # n}
<1>1. t \in Ticks /\ levels_[t].first_order = n
  BY DEF TypeOK, Node, InBook, Linked, LinkedAt
<1> SUFFICES ASSUME S # {} PROVE FALSE
  OBVIOUS
<1>2. PICK m \in S : \A k \in S : nodes[m].priority <= nodes[k].priority
  BY FirstExists
<1>3. CASE nodes[m].prev = Null
  BY <1>1, <1>2, <1>3 DEF Linked, LinkedAt
<1>4. CASE nodes[m].prev # Null
  <2> DEFINE k == nodes[m].prev
  <2>1. /\ k \in Nodes /\ nodes[k].level = t /\ nodes[k].priority < nodes[m].priority
        /\ nodes[k].next = m
    BY <1>1, <1>2, <1>4 DEF Linked, LinkedAt, TypeOK, Node
  <2>2. k # n
    BY <2>1, <1>2, NodesAssumption
  <2>3. nodes[k].priority \in Nat /\ nodes[m].priority \in Nat
    BY <2>1, <1>2 DEF TypeOK, Node
  <2> QED BY <1>2, <2>1, <2>2, <2>3
<1> QED BY <1>3, <1>4

-----------------------------------------------------------------------------
\* The bitmaps, step by step.

\* Marking a tick adds it to the set the bitmaps tell of.
LEMMA Marked ==
  ASSUME TypeOK, NEW occupied \in SUBSET Ticks, Exact(occupancy_, summary_, occupied),
         NEW t \in Ticks, MarkOccupied(t)
  PROVE  /\ Exact(occupancy_', summary_', occupied \cup {t})
         /\ occupancy_' \in [OccupancyWords -> SUBSET Bits]
         /\ summary_' \in [SummaryWords -> SUBSET Bits]
<1> DEFINE w == WordOf(t)
           s == WordOf(w)
<1>1. /\ t \in Nat /\ w \in OccupancyWords /\ BitOf(t) \in Bits
      /\ w \in Nat /\ s \in SummaryWords /\ BitOf(w) \in Bits
      /\ w = s * BitsPerWord + BitOf(w)
  BY Grid, Split
<1>2. /\ occupancy_' = [occupancy_ EXCEPT ![w] = @ \cup {BitOf(t)}]
      /\ summary_' = [summary_ EXCEPT ![s] = @ \cup {BitOf(w)}]
  BY DEF MarkOccupied
<1> HIDE DEF w, s
<1>3. /\ occupancy_' \in [OccupancyWords -> SUBSET Bits]
      /\ summary_' \in [SummaryWords -> SUBSET Bits]
  BY <1>1, <1>2 DEF TypeOK
<1>4. /\ \A v \in OccupancyWords :
           occupancy_'[v] = IF v = w THEN occupancy_[v] \cup {BitOf(t)} ELSE occupancy_[v]
      /\ \A v \in SummaryWords :
           summary_'[v] = IF v = s THEN summary_[v] \cup {BitOf(w)} ELSE summary_[v]
  BY <1>1, <1>2 DEF TypeOK
<1>5. ASSUME NEW u \in Ticks
      PROVE  BitOf(u) \in occupancy_'[WordOf(u)] <=> u \in occupied \cup {t}
  <2>1. u \in Nat /\ WordOf(u) \in OccupancyWords
    BY Grid
  <2>2. WordOf(u) = w /\ BitOf(u) = BitOf(t) => u = t
    BY <2>1, <1>1, WordFirst DEF w
  <2> QED BY <2>1, <2>2, <1>1, <1>4 DEF Exact, w
<1>6. ASSUME NEW v \in OccupancyWords
      PROVE  BitOf(v) \in summary_'[WordOf(v)] <=> occupancy_'[v] # {}
  <2>1. v \in Nat /\ WordOf(v) \in SummaryWords
    BY Grid
  <2>2. WordOf(v) = s /\ BitOf(v) = BitOf(w) => v = w
    BY <2>1, <1>1, WordFirst DEF s
  <2> QED BY <2>1, <2>2, <1>1, <1>4 DEF Exact, s
<1>7. ASSUME NEW v \in SummaryWords, NEW b \in summary_'[v]
      PROVE  v * BitsPerWord + b \in OccupancyWords
  BY <1>1, <1>4 DEF Exact
<1> QED BY <1>3, <1>5, <1>6, <1>7 DEF Exact

\* Clearing a tick takes it out of that set.
LEMMA Cleared ==
  ASSUME TypeOK, NEW occupied \in SUBSET Ticks, Exact(occupancy_, summary_, occupied),
         NEW t \in Ticks, ClearOccupied(t)
  PROVE  /\ Exact(occupancy_', summary_', occupied \ {t})
         /\ occupancy_' \in [OccupancyWords -> SUBSET Bits]
         /\ summary_' \in [SummaryWords -> SUBSET Bits]
<1> DEFINE w == WordOf(t)
           s == WordOf(w)
<1>1. /\ t \in Nat /\ w \in OccupancyWords /\ BitOf(t) \in Bits
      /\ w \in Nat /\ s \in SummaryWords /\ BitOf(w) \in Bits
  BY Grid
<1>2. /\ occupancy_' = [occupancy_ EXCEPT ![w] = @ \ {BitOf(t)}]
      /\ summary_' = IF occupancy_'[w] = {}
                     THEN [summary_ EXCEPT ![s] = @ \ {BitOf(w)}] ELSE summary_
  BY DEF ClearOccupied
<1> HIDE DEF w, s
<1>3. /\ occupancy_' \in [OccupancyWords -> SUBSET Bits]
      /\ summary_' \in [SummaryWords -> SUBSET Bits]
  BY <1>1, <1>2 DEF TypeOK
<1>4. /\ \A v \in OccupancyWords :
           occupancy_'[v] = IF v = w THEN occupancy_[v] \ {BitOf(t)} ELSE occupancy_[v]
      /\ \A v \in SummaryWords :
           summary_'[v] = IF v = s /\ occupancy_'[w] = {}
                          THEN summary_[v] \ {BitOf(w)} ELSE summary_[v]
  BY <1>1, <1>2 DEF TypeOK
<1>5. ASSUME NEW u \in Ticks
      PROVE  BitOf(u) \in occupancy_'[WordOf(u)] <=> u \in occupied \ {t}
  <2>1. u \in Nat /\ WordOf(u) \in OccupancyWords
    BY Grid
  <2>2. WordOf(u) = w /\ BitOf(u) = BitOf(t) => u = t
    BY <2>1, <1>1, WordFirst DEF w
  <2> QED BY <2>1, <2>2, <1>1, <1>4 DEF Exact, w
<1>6. ASSUME NEW v \in OccupancyWords
      PROVE  BitOf(v) \in summary_'[WordOf(v)] <=> occupancy_'[v] # {}
  <2>1. v \in Nat /\ WordOf(v) \in SummaryWords
    BY Grid
  <2>2. WordOf(v) = s /\ BitOf(v) = BitOf(w) => v = w
    BY <2>1, <1>1, WordFirst DEF s
  <2>3. BitOf(v) \in summary_[WordOf(v)] <=> occupancy_[v] # {}
    BY DEF Exact
  <2>4. CASE v = w
    <3>1. WordOf(v) = s
      BY <2>4 DEF s
    <3>2. occupancy_'[v] # {} => occupancy_[v] # {}
      BY <2>4, <1>4
    <3> QED BY <2>1, <2>3, <2>4, <3>1, <3>2, <1>4
  <2>5. CASE v # w
    BY <2>1, <2>2, <2>3, <2>5, <1>4
  <2> QED BY <2>4, <2>5
<1>7. ASSUME NEW v \in SummaryWords, NEW b \in summary_'[v]
      PROVE  v * BitsPerWord + b \in OccupancyWords
  BY <1>1, <1>4 DEF Exact
<1> QED BY <1>3, <1>5, <1>6, <1>7 DEF Exact

-----------------------------------------------------------------------------
\* The operations.

\* AddOrder keeps the invariant: the new order comes after the last one.
LEMMA AddKeeps ==
  ASSUME Inv, NEW t \in Ticks, NEW n \in Nodes, NEW quantity \in Quantities,
         AddOrder(t, n, quantity)
  PROVE  Inv'
<1> USE NodesAssumption DEF Inv
<1> DEFINE level == levels_[t]
           last == level.last_order
           added == [next |-> Null, prev |-> last, level |-> t,
                     priority |-> level.next_priority, remaining_quantity |-> quantity]
           slot == [first_order |-> IF IsEmpty(t) THEN n ELSE level.first_order,
                    last_order |-> n,
                    next_priority |-> level.next_priority + 1,
                    total_quantity |-> level.total_quantity + quantity]
<1>1. /\ nodes[n].level = kInvalidTick
      /\ nodes' = [m \in Nodes |->
           IF m = n THEN added
           ELSE IF m = last /\ ~ IsEmpty(t) THEN [nodes[m] EXCEPT !.next = n]
           ELSE nodes[m]]
      /\ levels_' = [levels_ EXCEPT ![t] = slot]
      /\ IF IsEmpty(t)
         THEN /\ MarkOccupied(t)
              /\ best_tick_' = IF best_tick_ = kInvalidTick \/ IsBetter(t, best_tick_)
                               THEN t ELSE best_tick_
         ELSE UNCHANGED bitmaps
      /\ side_' = side_
  BY DEF AddOrder, InBook
<1>2. t # kInvalidTick /\ quantity \in Nat
  BY GridAssumption, BoundsAssumption DEF Ticks, kInvalidTick, Quantities
<1>3. /\ levels_ \in [Ticks -> Level] /\ nodes \in [Nodes -> Node]
      /\ level \in Level /\ last \in Nodes \cup {Null}
      /\ level.next_priority \in Nat /\ level.total_quantity \in Int
  BY DEF TypeOK, Level
<1>4. EndsAt(t) /\ IsEmpty(t) = (last = Null)
  BY DEF Linked, EndsAt, IsEmpty
<1>5. added \in Node
  BY <1>2, <1>3 DEF Node
<1>6. slot \in Level
  BY <1>2, <1>3 DEF Level
<1>7. \A m \in Nodes : [nodes[m] EXCEPT !.next = n] \in Node
  BY <1>3 DEF Node
<1> HIDE DEF added, slot
<1>8. nodes' \in [Nodes -> Node] /\ levels_' \in [Ticks -> Level]
  BY <1>1, <1>3, <1>5, <1>6, <1>7
<1>9. /\ nodes'[n] = added
      /\ \A m \in Nodes : m # n =>
           /\ nodes'[m].level = nodes[m].level /\ nodes'[m].prev = nodes[m].prev
           /\ nodes'[m].priority = nodes[m].priority
           /\ nodes'[m].next = IF m = last THEN n ELSE nodes[m].next
  <2>1. nodes'[n] = added
    BY <1>1
  <2>2. ASSUME NEW m \in Nodes, m # n
        PROVE  /\ nodes'[m].level = nodes[m].level /\ nodes'[m].prev = nodes[m].prev
               /\ nodes'[m].priority = nodes[m].priority
               /\ nodes'[m].next = IF m = last THEN n ELSE nodes[m].next
    <3>1. nodes[m] \in Node
      BY <1>3
    <3>2. CASE m = last /\ ~ IsEmpty(t)
      BY <3>1, <3>2, <2>2, <1>1 DEF Node
    <3>3. CASE ~ (m = last /\ ~ IsEmpty(t))
      BY <3>3, <2>2, <1>1, <1>4
    <3> QED BY <3>2, <3>3
  <2> QED BY <2>1, <2>2
<1>10. /\ levels_'[t] = slot
       /\ \A u \in Ticks : u # t => levels_'[u] = levels_[u]
  BY <1>1, <1>3
<1>11. /\ added.next = Null /\ added.prev = last /\ added.level = t
       /\ added.priority = level.next_priority
       /\ slot.first_order = IF last = Null THEN n ELSE level.first_order
       /\ slot.last_order = n /\ slot.next_priority = level.next_priority + 1
  BY <1>4 DEF added, slot
<1>12. ASSUME last # Null
       PROVE  /\ last \in Nodes /\ last # n /\ nodes[last].level = t
              /\ nodes[last].next = Null /\ nodes[last].priority < level.next_priority
  BY <1>1, <1>2, <1>3, <1>4, <1>12 DEF EndsAt, Linked, LinkedAt
<1>13. \A m \in Nodes, u \in Ticks : nodes[m].level = u =>
         LinkedAt(m, u) /\ m # n /\ nodes[m].prev # n /\ nodes[m].next # n
  <2> SUFFICES ASSUME NEW m \in Nodes, NEW u \in Ticks, nodes[m].level = u
               PROVE  LinkedAt(m, u) /\ m # n /\ nodes[m].prev # n /\ nodes[m].next # n
    OBVIOUS
  <2>1. u # kInvalidTick
    BY GridAssumption DEF Ticks, kInvalidTick
  <2>2. LinkedAt(m, u)
    BY DEF Linked
  <2> QED BY <2>1, <2>2, <1>1 DEF LinkedAt
<1>14. Linked'
  <2>1. ASSUME NEW u \in Ticks, NEW m \in Nodes, nodes'[m].level = u
        PROVE  LinkedAt(m, u)'
    <3>1. CASE m = n
      <4>1. u = t
        BY <3>1, <2>1, <1>9, <1>11
      <4>2. CASE last = Null
        BY <3>1, <4>1, <4>2, <1>3, <1>9, <1>10, <1>11 DEF LinkedAt
      <4>3. CASE last # Null
        BY <3>1, <4>1, <4>3, <1>3, <1>9, <1>10, <1>11, <1>12 DEF LinkedAt
      <4> QED BY <4>2, <4>3
    <3>2. CASE m # n
      <4>1. nodes[m].level = u /\ LinkedAt(m, u) /\ nodes[m].prev # n /\ nodes[m].next # n
        BY <3>2, <2>1, <1>9, <1>13
      <4>2. nodes[m].prev \in Nodes \cup {Null} /\ nodes[m].next \in Nodes \cup {Null}
        BY <1>3 DEF Node
      <4>3. nodes'[m].priority < levels_'[u].next_priority
        <5>1. nodes[m].priority < levels_[u].next_priority /\ nodes[m].priority \in Nat
          BY <4>1, <1>3 DEF LinkedAt, Node
        <5> QED BY <5>1, <3>2, <1>3, <1>9, <1>10, <1>11
      <4>4. nodes'[m].prev = Null => levels_'[u].first_order = m
        BY <4>1, <3>2, <1>4, <1>9, <1>10, <1>11 DEF LinkedAt, EndsAt
      <4>5. nodes'[m].next = Null => levels_'[u].last_order = m
        BY <4>1, <3>2, <1>9, <1>10, <1>11 DEF LinkedAt
      <4>6. nodes'[m].prev # Null => /\ nodes'[nodes'[m].prev].level = u
                                     /\ nodes'[nodes'[m].prev].next = m
                                     /\ nodes'[nodes'[m].prev].priority < nodes'[m].priority
        <5> SUFFICES ASSUME nodes'[m].prev # Null
                     PROVE  /\ nodes'[nodes'[m].prev].level = u
                            /\ nodes'[nodes'[m].prev].next = m
                            /\ nodes'[nodes'[m].prev].priority < nodes'[m].priority
          OBVIOUS
        <5> DEFINE p == nodes[m].prev
        <5>1. p \in Nodes /\ p # n /\ nodes'[m].prev = p
          BY <4>1, <4>2, <3>2, <1>9
        <5>2. nodes[p].level = u /\ nodes[p].next = m /\ nodes[p].priority < nodes[m].priority
          BY <5>1, <4>1 DEF LinkedAt
        <5>3. p # last
          BY <5>1, <5>2, <1>12
        <5> QED BY <5>1, <5>2, <5>3, <3>2, <1>9
      <4>7. nodes'[m].next # Null => /\ nodes'[nodes'[m].next].level = u
                                     /\ nodes'[nodes'[m].next].prev = m
        <5>1. CASE m = last
          BY <5>1, <3>2, <4>1, <1>9, <1>11, <1>12
        <5>2. CASE m # last
          BY <5>2, <3>2, <4>1, <4>2, <1>9 DEF LinkedAt
        <5> QED BY <5>1, <5>2
      <4> QED BY <4>3, <4>4, <4>5, <4>6, <4>7 DEF LinkedAt
    <3> QED BY <3>1, <3>2
  <2>2. ASSUME NEW u \in Ticks PROVE EndsAt(u)'
    <3>1. EndsAt(u)
      BY DEF Linked
    <3>2. levels_[u].first_order \in Nodes \cup {Null} /\ levels_[u].last_order \in Nodes \cup {Null}
      BY <1>3 DEF Level
    <3>3. u # kInvalidTick
      BY GridAssumption DEF Ticks, kInvalidTick
    <3>4. CASE u = t
      <4>1. CASE last = Null
        BY <3>4, <4>1, <1>9, <1>10, <1>11 DEF EndsAt
      <4>2. CASE last # Null
        <5>1. level.first_order # Null /\ level.first_order # n
          BY <3>1, <3>3, <3>4, <4>2, <1>1 DEF EndsAt
        <5> QED BY <3>1, <3>2, <3>4, <4>2, <5>1, <1>9, <1>10, <1>11 DEF EndsAt
      <4> QED BY <4>1, <4>2
    <3>5. CASE u # t
      <4>1. levels_'[u] = levels_[u]
        BY <3>5, <1>10
      <4>2. levels_[u].first_order # Null =>
              levels_[u].first_order # n /\ levels_[u].first_order \in Nodes
        BY <3>1, <3>2, <3>3, <1>1 DEF EndsAt
      <4>3. levels_[u].last_order # Null =>
              /\ levels_[u].last_order # n /\ levels_[u].last_order # last
              /\ levels_[u].last_order \in Nodes
        BY <3>1, <3>2, <3>3, <3>5, <1>1, <1>12 DEF EndsAt
      <4> QED BY <3>1, <4>1, <4>2, <4>3, <1>9 DEF EndsAt
    <3> QED BY <3>4, <3>5
  <2> QED BY <2>1, <2>2 DEF Linked
<1>15. Occupied' = Occupied \cup {t}
  <2>1. slot.first_order # Null
    BY <1>4, <1>11 DEF EndsAt
  <2>2. \A u \in Ticks : IsEmpty(u)' <=> IsEmpty(u) /\ u # t
    BY <2>1, <1>10 DEF IsEmpty
  <2> QED BY <2>2 DEF Occupied
<1>16. /\ occupancy_' \in [OccupancyWords -> SUBSET Bits]
       /\ summary_' \in [SummaryWords -> SUBSET Bits]
       /\ Exact(occupancy_, summary_, Occupied)'
  <2>1. Occupied \in SUBSET Ticks
    BY DEF Occupied
  <2>2. CASE IsEmpty(t)
    BY <2>1, <2>2, <1>1, <1>15, Marked DEF Exact
  <2>3. CASE ~ IsEmpty(t)
    <3>1. Occupied' = Occupied
      BY <2>3, <1>15 DEF Occupied
    <3> QED BY <2>3, <3>1, <1>1 DEF bitmaps, Exact, TypeOK
  <2> QED BY <2>2, <2>3
<1>17. best_tick_' \in Ticks \cup {kInvalidTick} /\ BestExact'
  <2>1. \A u \in Ticks : u \in Int /\ u # kInvalidTick
    BY GridAssumption DEF Ticks, kInvalidTick
  <2>2. CASE IsEmpty(t)
    <3>1. CASE best_tick_ = kInvalidTick \/ IsBetter(t, best_tick_)
      <4>1. best_tick_' = t
        BY <2>2, <3>1, <1>1
      <4>2. \A u \in Occupied \cup {t} : ~ IsBetter(u, t)
        BY <2>1, <3>1 DEF BestExact, IsBetter, Occupied
      <4> QED BY <4>1, <4>2, <1>1, <1>15 DEF BestExact, IsBetter
    <3>2. CASE ~ (best_tick_ = kInvalidTick \/ IsBetter(t, best_tick_))
      <4>1. best_tick_' = best_tick_ /\ Occupied # {}
        BY <2>2, <3>2, <1>1 DEF BestExact
      <4> QED BY <3>2, <4>1, <1>1, <1>15 DEF BestExact, IsBetter, TypeOK
    <3> QED BY <3>1, <3>2
  <2>3. CASE ~ IsEmpty(t)
    <3>1. Occupied' = Occupied /\ best_tick_' = best_tick_
      BY <2>3, <1>1, <1>15 DEF Occupied, bitmaps
    <3> QED BY <3>1, <1>1 DEF BestExact, IsBetter, TypeOK
  <2> QED BY <2>2, <2>3
<1>18. TypeOK'
  BY <1>1, <1>8, <1>16, <1>17 DEF TypeOK
<1> QED BY <1>14, <1>16, <1>17, <1>18

\* ApplyFill keeps it: only quantities change.
LEMMA FillKeeps ==
  ASSUME Inv, NEW n \in Nodes, NEW quantity \in Quantities, ApplyFill(n, quantity)
  PROVE  Inv'
<1> USE NodesAssumption DEF Inv
<1> DEFINE t == nodes[n].level
           rest == nodes[n].remaining_quantity - quantity
           total == levels_[t].total_quantity - quantity
<1>1. /\ InBook(n) /\ quantity <= nodes[n].remaining_quantity
      /\ nodes' = [nodes EXCEPT ![n].remaining_quantity = rest]
      /\ levels_' = [levels_ EXCEPT ![t].total_quantity = total]
      /\ UNCHANGED <<side_, bitmaps>>
  BY DEF ApplyFill
<1>2. /\ levels_ \in [Ticks -> Level] /\ nodes \in [Nodes -> Node]
      /\ nodes[n] \in Node /\ t \in Ticks /\ levels_[t] \in Level /\ quantity \in Nat
  BY <1>1, BoundsAssumption DEF TypeOK, Node, InBook, Quantities
<1>3. rest \in Nat /\ total \in Int
  BY <1>1, <1>2 DEF Node, Level
<1> HIDE DEF rest, total
<1>4. nodes' \in [Nodes -> Node] /\ levels_' \in [Ticks -> Level]
  BY <1>1, <1>2, <1>3 DEF Node, Level
<1>5. \A m \in Nodes :
        /\ nodes'[m].level = nodes[m].level /\ nodes'[m].prev = nodes[m].prev
        /\ nodes'[m].priority = nodes[m].priority /\ nodes'[m].next = nodes[m].next
  BY <1>1, <1>2 DEF Node
<1>6. \A u \in Ticks :
        /\ levels_'[u].first_order = levels_[u].first_order
        /\ levels_'[u].last_order = levels_[u].last_order
        /\ levels_'[u].next_priority = levels_[u].next_priority
  BY <1>1, <1>2 DEF Level
<1>7. Linked'
  <2>1. ASSUME NEW u \in Ticks, NEW m \in Nodes, nodes'[m].level = u
        PROVE  LinkedAt(m, u)'
    <3>1. LinkedAt(m, u)
      BY <2>1, <1>5 DEF Linked
    <3>2. nodes[m].prev \in Nodes \cup {Null} /\ nodes[m].next \in Nodes \cup {Null}
      BY <1>2 DEF Node
    <3> QED BY <3>1, <3>2, <1>5, <1>6 DEF LinkedAt
  <2>2. ASSUME NEW u \in Ticks PROVE EndsAt(u)'
    <3>1. EndsAt(u)
      BY DEF Linked
    <3>2. levels_[u].first_order \in Nodes \cup {Null} /\ levels_[u].last_order \in Nodes \cup {Null}
      BY <1>2 DEF Level
    <3> QED BY <3>1, <3>2, <1>5, <1>6 DEF EndsAt
  <2> QED BY <2>1, <2>2 DEF Linked
<1>8. Occupied' = Occupied
  BY <1>6 DEF Occupied, IsEmpty
<1>9. Exact(occupancy_, summary_, Occupied)' /\ BestExact'
  BY <1>1, <1>8 DEF Exact, BestExact, IsBetter, bitmaps
<1>10. TypeOK'
  BY <1>1, <1>4 DEF TypeOK, bitmaps
<1> QED BY <1>7, <1>9, <1>10

\* A slot that is emptied starts over.
LEMMA EmptiedLevel ==
  ASSUME NEW level \in Level
  PROVE  LET slot == [level EXCEPT !.total_quantity = 0, !.next_priority = 1]
         IN  /\ slot \in Level /\ slot.first_order = level.first_order
             /\ slot.last_order = level.last_order /\ slot.next_priority = 1
<1>1. ASSUME NEW total \in Int, NEW priority \in Nat
      PROVE  LET slot == [level EXCEPT !.total_quantity = total, !.next_priority = priority]
             IN  /\ slot \in Level /\ slot.first_order = level.first_order
                 /\ slot.last_order = level.last_order /\ slot.next_priority = priority
  BY DEF Level
<1>2. 0 \in Int /\ 1 \in Nat
  OBVIOUS
<1> QED BY <1>1, <1>2, Zenon

\* RemoveOrder keeps it: the neighbours are joined, and when the slot is
\* emptied no order is left at its tick.
LEMMA RemoveKeeps ==
  ASSUME Inv, NEW n \in Nodes, RemoveOrder(n)
  PROVE  Inv'
<1> USE NodesAssumption DEF Inv
<1> DEFINE order == nodes[n]
           t == order.level
           before == order.prev
           after == order.next
           level == UnlinkedLevel(levels_[t], order)
           empty == level.first_order = Null
           slot == IF empty THEN [level EXCEPT !.total_quantity = 0, !.next_priority = 1]
                            ELSE level
<1>1. /\ InBook(n) /\ Relink(n) /\ side_' = side_
      /\ levels_' = [levels_ EXCEPT ![t] = slot]
      /\ empty => /\ ClearOccupied(t)
                  /\ best_tick_' = IF t = best_tick_
                                   THEN FindBestTick(occupancy_', summary_') ELSE best_tick_
      /\ ~ empty => UNCHANGED bitmaps
  BY DEF RemoveOrder
<1>2. /\ levels_ \in [Ticks -> Level] /\ nodes \in [Nodes -> Node] /\ order \in Node
      /\ t \in Ticks /\ levels_[t] \in Level
      /\ before \in Nodes \cup {Null} /\ after \in Nodes \cup {Null}
      /\ \A u \in Ticks : u # kInvalidTick
  BY <1>1, GridAssumption DEF TypeOK, Node, InBook, Ticks, kInvalidTick
<1>3. /\ level \in Level
      /\ level.first_order = IF before = Null THEN after ELSE levels_[t].first_order
      /\ level.last_order = IF after = Null THEN before ELSE levels_[t].last_order
      /\ level.next_priority = levels_[t].next_priority
  BY <1>2 DEF UnlinkedLevel, Level, Node
<1>4. FreeNode \in Node
  BY DEF FreeNode, Node
<1>5. /\ nodes'[n] = FreeNode
      /\ \A m \in Nodes : m # n =>
           nodes'[m] = [nodes[m] EXCEPT !.next = IF m = before THEN after ELSE @,
                                        !.prev = IF m = after THEN before ELSE @]
  BY <1>1 DEF Relink
<1> HIDE DEF level
<1>6. /\ slot \in Level /\ slot.first_order = level.first_order
      /\ slot.last_order = level.last_order
      /\ slot.next_priority = IF empty THEN 1 ELSE level.next_priority
  <2>1. CASE empty
    <3>1. slot = [level EXCEPT !.total_quantity = 0, !.next_priority = 1]
      BY <2>1
    <3>2. /\ slot \in Level /\ slot.first_order = level.first_order
          /\ slot.last_order = level.last_order /\ slot.next_priority = 1
      BY <1>3, <3>1, EmptiedLevel
    <3> QED BY <2>1, <3>2
  <2>2. CASE ~ empty
    BY <1>3, <2>2
  <2> QED BY <2>1, <2>2
<1> HIDE DEF slot
<1>7. /\ levels_' \in [Ticks -> Level] /\ levels_'[t] = slot
      /\ \A u \in Ticks : u # t => levels_'[u] = levels_[u]
  BY <1>1, <1>2, <1>6
<1>8. \A m \in Nodes : m # n =>
        /\ nodes'[m] \in Node
        /\ nodes'[m].level = nodes[m].level /\ nodes'[m].priority = nodes[m].priority
        /\ nodes'[m].next = IF m = before THEN after ELSE nodes[m].next
        /\ nodes'[m].prev = IF m = after THEN before ELSE nodes[m].prev
  <2> SUFFICES ASSUME NEW m \in Nodes, m # n
               PROVE  /\ nodes'[m] \in Node
                      /\ nodes'[m].level = nodes[m].level
                      /\ nodes'[m].priority = nodes[m].priority
                      /\ nodes'[m].next = IF m = before THEN after ELSE nodes[m].next
                      /\ nodes'[m].prev = IF m = after THEN before ELSE nodes[m].prev
    OBVIOUS
  <2> DEFINE ahead == IF m = before THEN after ELSE nodes[m].next
             back == IF m = after THEN before ELSE nodes[m].prev
  <2>1. nodes[m] \in Node
    BY <1>2
  <2>2. ahead \in Nodes \cup {Null} /\ back \in Nodes \cup {Null}
    BY <2>1, <1>2 DEF Node
  <2>3. nodes'[m] = [nodes[m] EXCEPT !.next = ahead, !.prev = back]
    BY <1>5
  <2> HIDE DEF ahead, back
  <2>4. /\ nodes'[m] \in Node /\ nodes'[m].level = nodes[m].level
        /\ nodes'[m].priority = nodes[m].priority
        /\ nodes'[m].next = ahead /\ nodes'[m].prev = back
    BY <2>1, <2>2, <2>3 DEF Node
  <2> QED BY <2>4 DEF ahead, back
<1>9. nodes' \in [Nodes -> Node]
  <2>1. \A m \in Nodes : nodes'[m] \in Node
    BY <1>4, <1>5, <1>8
  <2>2. nodes' = [m \in Nodes |-> nodes'[m]]
    BY <1>1 DEF Relink
  <2> QED BY <2>1, <2>2
<1>10. nodes'[n].level = kInvalidTick
  <2>1. nodes'[n] = FreeNode
    BY <1>5
  <2>2. FreeNode.level = kInvalidTick
    BY DEF FreeNode
  <2> QED BY <2>1, <2>2
<1>11. LinkedAt(n, t) /\ EndsAt(t)
  BY <1>2 DEF Linked
<1>12. /\ before # Null => before \in Nodes /\ nodes[before].level = t
                          /\ nodes[before].next = n
                          /\ nodes[before].priority < order.priority
       /\ after # Null => after \in Nodes /\ nodes[after].level = t
                         /\ nodes[after].prev = n
                         /\ order.priority < nodes[after].priority
  <2>1. before # Null => before \in Nodes /\ nodes[before].level = t
                          /\ nodes[before].next = n
                          /\ nodes[before].priority < order.priority
    BY <1>2, <1>11 DEF LinkedAt
  <2>2. ASSUME after # Null
        PROVE  /\ after \in Nodes /\ nodes[after].level = t /\ nodes[after].prev = n
               /\ order.priority < nodes[after].priority
    <3>1. after \in Nodes /\ nodes[after].level = t /\ nodes[after].prev = n
      BY <2>2, <1>2, <1>11 DEF LinkedAt
    <3>2. LinkedAt(after, t)
      BY <3>1, <1>2 DEF Linked
    <3> QED BY <3>1, <3>2 DEF LinkedAt
  <2> QED BY <2>1, <2>2
<1>13. before # n /\ after # n
  BY <1>2, <1>12 DEF Node
<1>14. empty <=> before = Null /\ after = Null
  <2>1. CASE before = Null
    BY <2>1, <1>3
  <2>2. CASE before # Null
    <3>1. levels_[t].first_order # Null
      BY <1>1, <1>2, NotEmpty DEF IsEmpty
    <3> QED BY <2>2, <3>1, <1>3
  <2> QED BY <2>1, <2>2
<1>15. empty => \A m \in Nodes : nodes[m].level = t => m = n
  BY <1>1, <1>14, Alone
<1>16. Linked'
  <2>1. ASSUME NEW u \in Ticks, NEW m \in Nodes, nodes'[m].level = u
        PROVE  LinkedAt(m, u)'
    <3>1. m # n /\ nodes[m].level = u /\ LinkedAt(m, u)
      BY <2>1, <1>2, <1>8, <1>10 DEF Linked
    <3>2. /\ nodes[m].prev \in Nodes \cup {Null} /\ nodes[m].next \in Nodes \cup {Null}
          /\ nodes[m].priority \in Nat /\ order.priority \in Nat
      BY <1>2 DEF Node
    <3>3. nodes[m].prev = n <=> m = after
      BY <3>1, <1>11, <1>12 DEF LinkedAt
    <3>4. nodes[m].next = n <=> m = before
      BY <3>1, <1>11, <1>12 DEF LinkedAt
    <3>5. u = t => ~ empty
      BY <3>1, <1>15
    <3>6. nodes'[m].priority < levels_'[u].next_priority
      BY <3>1, <3>5, <1>3, <1>6, <1>7, <1>8 DEF LinkedAt
    <3>7. nodes'[m].prev = Null => levels_'[u].first_order = m
      <4> SUFFICES ASSUME nodes'[m].prev = Null PROVE levels_'[u].first_order = m
        OBVIOUS
      <4>1. CASE m = after
        BY <4>1, <3>1, <1>3, <1>6, <1>7, <1>8, <1>12
      <4>2. CASE m # after
        <5>1. nodes[m].prev = Null /\ levels_[u].first_order = m
          BY <4>2, <3>1, <1>8 DEF LinkedAt
        <5>2. u = t => before # Null
          BY <5>1, <3>1, <1>11 DEF LinkedAt
        <5> QED BY <5>1, <5>2, <1>3, <1>6, <1>7
      <4> QED BY <4>1, <4>2
    <3>8. nodes'[m].next = Null => levels_'[u].last_order = m
      <4> SUFFICES ASSUME nodes'[m].next = Null PROVE levels_'[u].last_order = m
        OBVIOUS
      <4>1. CASE m = before
        BY <4>1, <3>1, <1>3, <1>6, <1>7, <1>8, <1>12
      <4>2. CASE m # before
        <5>1. nodes[m].next = Null /\ levels_[u].last_order = m
          BY <4>2, <3>1, <1>8 DEF LinkedAt
        <5>2. u = t => after # Null
          BY <5>1, <3>1, <1>11 DEF LinkedAt
        <5> QED BY <5>1, <5>2, <1>3, <1>6, <1>7
      <4> QED BY <4>1, <4>2
    <3>9. nodes'[m].prev # Null => /\ nodes'[nodes'[m].prev].level = u
                                   /\ nodes'[nodes'[m].prev].next = m
                                   /\ nodes'[nodes'[m].prev].priority < nodes'[m].priority
      <4> SUFFICES ASSUME nodes'[m].prev # Null
                   PROVE  /\ nodes'[nodes'[m].prev].level = u
                          /\ nodes'[nodes'[m].prev].next = m
                          /\ nodes'[nodes'[m].prev].priority < nodes'[m].priority
        OBVIOUS
      <4>1. CASE m = after
        <5>1. nodes'[m].prev = before /\ before # Null /\ before \in Nodes /\ before # n
          BY <4>1, <3>1, <1>8, <1>12, <1>13
        <5>2. nodes'[before].next = m /\ nodes'[before].level = u
          BY <4>1, <5>1, <3>1, <1>8, <1>12
        <5>3. nodes[before].priority \in Nat
          BY <5>1, <1>2 DEF Node
        <5>4. nodes[before].priority < nodes[m].priority
          BY <4>1, <5>1, <5>3, <3>1, <3>2, <1>12
        <5> QED BY <5>1, <5>2, <5>4, <3>1, <1>8
      <4>2. CASE m # after
        <5> DEFINE p == nodes[m].prev
        <5>1. nodes'[m].prev = p /\ p # Null /\ p \in Nodes /\ p # n
          BY <4>2, <3>1, <3>2, <3>3, <1>8
        <5>2. nodes[p].level = u /\ nodes[p].next = m /\ nodes[p].priority < nodes[m].priority
          BY <5>1, <3>1 DEF LinkedAt
        <5>3. p # before
          BY <5>1, <5>2, <3>1, <1>12
        <5> QED BY <5>1, <5>2, <5>3, <3>1, <1>8
      <4> QED BY <4>1, <4>2
    <3>10. nodes'[m].next # Null => /\ nodes'[nodes'[m].next].level = u
                                    /\ nodes'[nodes'[m].next].prev = m
      <4> SUFFICES ASSUME nodes'[m].next # Null
                   PROVE  /\ nodes'[nodes'[m].next].level = u
                          /\ nodes'[nodes'[m].next].prev = m
        OBVIOUS
      <4>1. CASE m = before
        <5>1. nodes'[m].next = after /\ after # Null /\ after \in Nodes /\ after # n
          BY <4>1, <3>1, <1>8, <1>12, <1>13
        <5> QED BY <4>1, <5>1, <3>1, <1>8, <1>12
      <4>2. CASE m # before
        <5> DEFINE p == nodes[m].next
        <5>1. nodes'[m].next = p /\ p # Null /\ p \in Nodes /\ p # n
          BY <4>2, <3>1, <3>2, <3>4, <1>8
        <5>2. nodes[p].level = u /\ nodes[p].prev = m
          BY <5>1, <3>1 DEF LinkedAt
        <5>3. p # after
          BY <5>1, <5>2, <3>1, <1>12
        <5> QED BY <5>1, <5>2, <5>3, <1>8
      <4> QED BY <4>1, <4>2
    <3> QED BY <3>6, <3>7, <3>8, <3>9, <3>10 DEF LinkedAt
  <2>2. ASSUME NEW u \in Ticks PROVE EndsAt(u)'
    <3>1. EndsAt(u)
      BY DEF Linked
    <3> DEFINE first == levels_[u].first_order
               last == levels_[u].last_order
    <3>2. first \in Nodes \cup {Null} /\ last \in Nodes \cup {Null}
      BY <1>2 DEF Level
    <3>3. CASE u = t
      <4>1. levels_'[u].first_order = IF before = Null THEN after ELSE first
        BY <3>3, <1>3, <1>6, <1>7
      <4>2. levels_'[u].last_order = IF after = Null THEN before ELSE last
        BY <3>3, <1>3, <1>6, <1>7
      <4>3. before # Null => first # Null /\ first \in Nodes /\ first # n /\ first # after
        BY <3>1, <3>2, <3>3, <1>1, <1>2, <1>12, NotEmpty DEF EndsAt, IsEmpty
      <4>4. after # Null => last # Null /\ last \in Nodes /\ last # n /\ last # before
        BY <3>1, <3>2, <3>3, <1>1, <1>2, <1>12, NotEmpty DEF EndsAt, IsEmpty
      <4>5. CASE before = Null /\ after = Null
        BY <4>1, <4>2, <4>5 DEF EndsAt
      <4>6. CASE before = Null /\ after # Null
        BY <4>1, <4>2, <4>4, <4>6, <3>1, <3>3, <1>8, <1>12, <1>13 DEF EndsAt
      <4>7. CASE before # Null /\ after = Null
        BY <4>1, <4>2, <4>3, <4>7, <3>1, <3>3, <1>8, <1>12, <1>13 DEF EndsAt
      <4>8. CASE before # Null /\ after # Null
        BY <4>1, <4>2, <4>3, <4>4, <4>8, <3>1, <3>3, <1>8 DEF EndsAt
      <4> QED BY <4>5, <4>6, <4>7, <4>8
    <3>4. CASE u # t
      <4>1. levels_'[u] = levels_[u]
        BY <3>4, <1>7
      <4>2. first # Null => first # n /\ first # before /\ first # after /\ first \in Nodes
        BY <3>1, <3>2, <3>4, <1>12 DEF EndsAt
      <4>3. last # Null => last # n /\ last # before /\ last # after /\ last \in Nodes
        BY <3>1, <3>2, <3>4, <1>12 DEF EndsAt
      <4> QED BY <3>1, <4>1, <4>2, <4>3, <1>8 DEF EndsAt
    <3> QED BY <3>3, <3>4
  <2> QED BY <2>1, <2>2 DEF Linked
<1>17. t \in Occupied
  BY <1>1, <1>2, NotEmpty DEF Occupied
<1>18. Occupied' = IF empty THEN Occupied \ {t} ELSE Occupied
  <2>1. \A u \in Ticks : IsEmpty(u)' <=> (u = t /\ empty) \/ (u # t /\ IsEmpty(u))
    BY <1>6, <1>7 DEF IsEmpty
  <2> QED BY <2>1, <1>17 DEF Occupied
<1>19. /\ occupancy_' \in [OccupancyWords -> SUBSET Bits]
       /\ summary_' \in [SummaryWords -> SUBSET Bits]
       /\ Exact(occupancy_, summary_, Occupied)'
  <2>1. Occupied \in SUBSET Ticks
    BY DEF Occupied
  <2>2. CASE empty
    <3>1. /\ Exact(occupancy_', summary_', Occupied \ {t})
          /\ occupancy_' \in [OccupancyWords -> SUBSET Bits]
          /\ summary_' \in [SummaryWords -> SUBSET Bits]
      BY <2>1, <2>2, <1>1, <1>2, Cleared
    <3>2. Occupied' = Occupied \ {t}
      BY <2>2, <1>18
    <3>3. Exact(occupancy_', summary_', Occupied')
      BY <3>1, <3>2
    <3> QED BY <3>1, <3>3 DEF Exact
  <2>3. CASE ~ empty
    <3>1. Occupied' = Occupied /\ UNCHANGED bitmaps
      BY <2>3, <1>1, <1>18
    <3> QED BY <3>1 DEF bitmaps, Exact, TypeOK
  <2> QED BY <2>2, <2>3
<1>20. best_tick_' \in Ticks \cup {kInvalidTick} /\ BestExact'
  <2>1. Occupied' \in SUBSET Ticks
    BY <1>18 DEF Occupied
  <2>2. CASE empty /\ t = best_tick_
    <3> DEFINE best == FindBestTick(occupancy_', summary_')
    <3>1. best_tick_' = best
      BY <2>2, <1>1
    <3>2. Exact(occupancy_', summary_', Occupied')
      BY <1>19 DEF Exact
    <3>3. IF Occupied' = {} THEN best = kInvalidTick
          ELSE best \in Occupied' /\ \A u \in Occupied' : ~ IsBetter(u, best)
      BY <2>1, <3>2, <1>19, FindBestTickIsBest DEF TypeOK
    <3> HIDE DEF best
    <3> QED BY <2>1, <3>1, <3>3, <1>1 DEF BestExact, IsBetter
  <2>3. CASE empty /\ t # best_tick_
    <3>1. best_tick_' = best_tick_ /\ best_tick_ \in Occupied
      BY <2>3, <1>1, <1>17 DEF BestExact
    <3>2. best_tick_' \in Occupied'
      BY <2>3, <3>1, <1>18
    <3> QED BY <2>1, <2>3, <3>1, <3>2, <1>1, <1>18 DEF BestExact, IsBetter
  <2>4. CASE ~ empty
    BY <2>4, <1>1, <1>18 DEF BestExact, IsBetter, TypeOK, bitmaps
  <2> QED BY <2>2, <2>3, <2>4
<1>21. TypeOK'
  BY <1>1, <1>7, <1>9, <1>19, <1>20 DEF TypeOK
<1> QED BY <1>16, <1>19, <1>20, <1>21

-----------------------------------------------------------------------------
\* The invariant is inductive.

\* An empty side satisfies it.
LEMMA InitInv ==
  Init => Inv
<1> SUFFICES ASSUME Init PROVE Inv
  OBVIOUS
<1> USE DEF Init
<1>1. EmptyLevel \in Level /\ FreeNode \in Node
  BY DEF EmptyLevel, FreeNode, Level, Node
<1>2. TypeOK
  BY <1>1 DEF TypeOK
<1>3. \A t \in Ticks : levels_[t].first_order = Null /\ levels_[t].last_order = Null
  BY DEF EmptyLevel
<1>4. \A n \in Nodes : nodes[n].level = kInvalidTick
  BY DEF FreeNode
<1>5. \A t \in Ticks : t # kInvalidTick
  BY GridAssumption DEF Ticks, kInvalidTick
<1>6. Linked
  BY <1>3, <1>4, <1>5 DEF Linked, EndsAt
<1>7. Occupied = {}
  BY <1>3 DEF Occupied, IsEmpty
<1>8. Exact(occupancy_, summary_, Occupied)
  BY <1>7, Grid DEF Exact
<1>9. BestExact
  BY <1>7 DEF BestExact
<1> QED BY <1>2, <1>6, <1>8, <1>9 DEF Inv

\* Every operation keeps it.
LEMMA NextInv ==
  ASSUME Inv, [Next]_vars
  PROVE  Inv'
<1>1. ASSUME NEW t \in Ticks, NEW n \in Nodes, NEW quantity \in Quantities,
             AddOrder(t, n, quantity)
      PROVE  Inv'
  BY <1>1, AddKeeps
<1>2. ASSUME NEW n \in Nodes, NEW quantity \in Quantities, ApplyFill(n, quantity)
      PROVE  Inv'
  BY <1>2, FillKeeps
<1>3. ASSUME NEW n \in Nodes, RemoveOrder(n) PROVE Inv'
  BY <1>3, RemoveKeeps
<1>4. CASE UNCHANGED vars
  BY <1>4 DEF vars, bitmaps, Inv, TypeOK, Linked, LinkedAt, EndsAt, Exact, Occupied,
              IsEmpty, BestExact, IsBetter
<1> QED BY <1>1, <1>2, <1>3, <1>4 DEF Next

\* It holds throughout.
LEMMA Invariance ==
  Spec => []Inv
<1>1. Inv /\ [Next]_vars => Inv'
  BY NextInv
<1> QED BY InitInv, <1>1, PTL DEF Spec

-----------------------------------------------------------------------------
\* The theorems.

\* Every variable keeps its type: no link, slot or bitmap ever points outside
\* the pool or the grid, and no order is filled below zero.
THEOREM TypeCorrect ==
  Spec => []TypeOK
<1>1. Inv => TypeOK
  BY DEF Inv
<1> QED BY Invariance, <1>1, PTL

\* The bitmaps and the cached best tick agree with the queues, for every grid
\* and pool (price_levels.h 163-170, 236-239).
THEOREM BestTickCorrect ==
  Spec => []BestTickExact
<1>1. Inv => BestTickExact
  BY DEF Inv, Exact, BestTickExact, BitmapsExact
<1> QED BY Invariance, <1>1, PTL

\* An order in the book is at a tick whose slot is not empty, and its
\* predecessor leads to it with a lower priority.
Reachable ==
  \A n \in Nodes : InBook(n) =>
    /\ ~ IsEmpty(nodes[n].level)
    /\ nodes[n].prev # Null =>
         /\ nodes[nodes[n].prev].next = n
         /\ nodes[nodes[n].prev].priority < nodes[n].priority

\* That holds after every operation: no cancel or fill cuts an order off.
THEOREM NoOrderLost ==
  Spec => []Reachable
<1>1. ASSUME Inv PROVE Reachable
  <2> SUFFICES ASSUME NEW n \in Nodes, InBook(n)
               PROVE  /\ ~ IsEmpty(nodes[n].level)
                      /\ nodes[n].prev # Null =>
                           /\ nodes[nodes[n].prev].next = n
                           /\ nodes[nodes[n].prev].priority < nodes[n].priority
    BY DEF Reachable
  <2>1. nodes[n].level \in Ticks /\ ~ IsEmpty(nodes[n].level)
    BY <1>1, NotEmpty DEF Inv
  <2>2. LinkedAt(n, nodes[n].level)
    BY <2>1, <1>1 DEF Inv, Linked
  <2> QED BY <2>1, <2>2 DEF LinkedAt
<1> QED BY Invariance, <1>1, PTL

-----------------------------------------------------------------------------
\* Finite sets in an order.

\* A finite set every part of which has an element before all the others can
\* be enumerated in that order.
LEMMA Enumerable ==
  ASSUME NEW S, IsFiniteSet(S), NEW R,
         \A T \in SUBSET S : T # {} => \E m \in T : \A x \in T \ {m} : <<m, x>> \in R
  PROVE  \E q \in [1 .. Cardinality(S) -> S] :
           \A i, j \in 1 .. Cardinality(S) : i < j => <<q[i], q[j]>> \in R
<1> DEFINE Enumerates(q, T) ==
             /\ q \in [1 .. Cardinality(T) -> T]
             /\ \A i, j \in 1 .. Cardinality(T) : i < j => <<q[i], q[j]>> \in R
           Bad == {n \in Nat : \E T \in SUBSET S :
                                 Cardinality(T) = n /\ ~ \E q : Enumerates(q, T)}
<1>1. \A T \in SUBSET S : IsFiniteSet(T) /\ Cardinality(T) \in Nat
  BY FS_Subset, FS_CardinalityType
<1>2. SUFFICES ASSUME Bad # {} PROVE FALSE
  BY <1>1
<1>3. PICK n \in Bad : \A k \in Bad : n <= k
  BY <1>2, LeastExists, Zenon
<1>4. PICK T \in SUBSET S : Cardinality(T) = n /\ ~ \E q : Enumerates(q, T)
  BY <1>3
<1>5. n \in Nat
  BY <1>3
<1>6. CASE T = {}
  <2>1. n = 0
    BY <1>4, <1>6, FS_EmptySet
  <2>2. Enumerates(<< >>, T)
    BY <2>1, <1>4, <1>6
  <2> QED BY <2>2, <1>4
<1>7. CASE T # {}
  <2>1. PICK m \in T : \A x \in T \ {m} : <<m, x>> \in R
    BY <1>7
  <2> DEFINE U == T \ {m}
  <2>2. U \in SUBSET S /\ Cardinality(U) = n - 1 /\ n - 1 \in Nat
    <3>1. IsFiniteSet(T)
      BY <1>1
    <3>2. Cardinality(U) = n - 1
      BY <3>1, <1>4, <2>1, FS_RemoveElement
    <3>3. U \in SUBSET S
      OBVIOUS
    <3> HIDE DEF U
    <3> QED BY <3>2, <3>3, <1>1, <1>5
  <2>3. n - 1 \notin Bad
    BY <1>3, <2>2
  <2>4. PICK q : Enumerates(q, U)
    BY <2>2, <2>3
  <2>5. /\ q \in [1 .. (n - 1) -> U]
        /\ \A i, j \in 1 .. (n - 1) : i < j => <<q[i], q[j]>> \in R
    BY <2>2, <2>4
  <2> HIDE DEF Enumerates, Bad
  <2> DEFINE r == [i \in 1 .. n |-> IF i = 1 THEN m ELSE q[i - 1]]
  <2>6. \A i \in 1 .. n : i # 1 => i - 1 \in 1 .. (n - 1) /\ q[i - 1] \in U
    BY <1>5, <2>5
  <2>7. r \in [1 .. n -> T]
    BY <2>1, <2>6
  <2>8. ASSUME NEW i \in 1 .. n, NEW j \in 1 .. n, i < j
        PROVE  <<r[i], r[j]>> \in R
    <3>1. j # 1 /\ j - 1 \in 1 .. (n - 1) /\ q[j - 1] \in U /\ r[j] = q[j - 1]
      BY <2>6, <2>8, <1>5
    <3>2. CASE i = 1
      BY <3>1, <3>2, <2>1
    <3>3. CASE i # 1
      <4>1. i - 1 \in 1 .. (n - 1) /\ r[i] = q[i - 1] /\ i - 1 < j - 1
        BY <3>3, <2>6, <2>8, <1>5
      <4> QED BY <4>1, <3>1, <2>5
    <3> QED BY <3>2, <3>3
  <2> HIDE DEF r
  <2>9. Enumerates(r, T)
    BY <2>7, <2>8, <1>4 DEF Enumerates
  <2> QED BY <2>9, <1>4
<1> QED BY <1>6, <1>7

\* Such an enumeration has every element.
LEMMA EnumerationComplete ==
  ASSUME NEW S, IsFiniteSet(S), NEW q \in [1 .. Cardinality(S) -> S],
         \A i, j \in 1 .. Cardinality(S) : i < j => q[i] # q[j]
  PROVE  \A x \in S : \E i \in 1 .. Cardinality(S) : q[i] = x
<1> DEFINE c == Cardinality(S)
<1>1. c \in Nat
  BY FS_CardinalityType
<1>2. \A i, j \in 1 .. c : i # j => q[i] # q[j]
  BY <1>1
<1>3. q \in Injection(1 .. c, S)
  BY <1>2 DEF Injection, IsInjective
<1>4. IsFiniteSet(1 .. c) /\ Cardinality(1 .. c) = c
  BY <1>1, FS_Interval
<1>5. q \in Surjection(1 .. c, S)
  BY <1>3, <1>4, FS_Injection
<1> QED BY <1>5 DEF Surjection

-----------------------------------------------------------------------------
\* The queue of a tick, as a whole.

\* The orders of a tick.
AtTick(t) == {n \in Nodes : nodes[n].level = t}

\* There are finitely many.
LEMMA AtTickFinite ==
  ASSUME NEW t \in Ticks
  PROVE  IsFiniteSet(AtTick(t)) /\ Cardinality(AtTick(t)) \in Nat
                                /\ Cardinality(AtTick(t)) <= Cardinality(Nodes)
<1>1. AtTick(t) \in SUBSET Nodes
  BY DEF AtTick
<1>2. IsFiniteSet(AtTick(t)) /\ Cardinality(AtTick(t)) <= Cardinality(Nodes)
  BY <1>1, FS_Subset, NodesAssumption
<1> QED BY <1>2, FS_CardinalityType

\* q lists the orders of tick t, each once, none after one with a greater
\* priority.
Lists(q, t) ==
  /\ q \in [1 .. Cardinality(AtTick(t)) -> AtTick(t)]
  /\ \A i, j \in 1 .. Cardinality(AtTick(t)) : i < j =>
       q[i] # q[j] /\ nodes[q[i]].priority <= nodes[q[j]].priority

\* There is such a list.
LEMMA Listed ==
  ASSUME TypeOK, NEW t \in Ticks
  PROVE  \E q : Lists(q, t)
<1> DEFINE S == AtTick(t)
           R == {e \in S \X S : e[1] # e[2] /\ nodes[e[1]].priority <= nodes[e[2]].priority}
<1>1. IsFiniteSet(S)
  BY AtTickFinite
<1>2. ASSUME NEW T \in SUBSET S, T # {}
      PROVE  \E m \in T : \A x \in T \ {m} : <<m, x>> \in R
  <2>1. PICK m \in T : \A k \in T : nodes[m].priority <= nodes[k].priority
    BY <1>2, FirstExists DEF AtTick
  <2> QED BY <2>1
<1>3. \A x, y : <<x, y>> \in R => x # y /\ nodes[x].priority <= nodes[y].priority
  OBVIOUS
<1>4. PICK q \in [1 .. Cardinality(S) -> S] :
        \A i, j \in 1 .. Cardinality(S) : i < j => <<q[i], q[j]>> \in R
  <2> HIDE DEF S, R
  <2> QED BY <1>1, <1>2, Enumerable
<1> HIDE DEF R
<1> QED BY <1>3, <1>4 DEF Lists

\* The links lead along it, and the priorities grow strictly.
LEMMA Chain ==
  ASSUME TypeOK, Linked, NEW t \in Ticks, NEW q, Lists(q, t)
  PROVE  LET c == Cardinality(AtTick(t)) IN
         /\ c = 0 => levels_[t].first_order = Null
         /\ c # 0 => levels_[t].first_order = q[1] /\ nodes[q[c]].next = Null
         /\ \A i \in 1 .. (c - 1) : nodes[q[i]].next = q[i + 1]
         /\ \A i, j \in 1 .. c : i < j => nodes[q[i]].priority < nodes[q[j]].priority
         /\ \A n \in AtTick(t) : \E i \in 1 .. c : q[i] = n
<1> DEFINE S == AtTick(t)
           c == Cardinality(S)
           p(i) == nodes[q[i]].priority
<1>1. /\ c \in Nat /\ q \in [1 .. c -> S]
      /\ \A i, j \in 1 .. c : i < j => q[i] # q[j] /\ p(i) <= p(j)
  BY AtTickFinite DEF Lists
<1>2. \A n \in S : \E i \in 1 .. c : q[i] = n
  BY <1>1, AtTickFinite, EnumerationComplete
<1>3. c = 0 <=> S = {}
  BY AtTickFinite, FS_EmptySet
<1>4. \A n \in S : n \in Nodes /\ n # Null /\ nodes[n].level = t /\ nodes[n].priority \in Nat
                   /\ LinkedAt(n, t) /\ nodes[n] \in Node
  BY NodesAssumption DEF AtTick, Linked, TypeOK, Node
<1>5. \A n \in S : nodes[n].next = Null \/ nodes[n].next \in S
  BY <1>4 DEF LinkedAt, AtTick, Node
<1>6. \A n \in S : nodes[n].prev = Null \/ nodes[n].prev \in S
  BY <1>4 DEF LinkedAt, AtTick, Node
<1> HIDE DEF S, c
<1>7. \A i \in 1 .. c : q[i] \in S /\ p(i) \in Nat
  BY <1>1, <1>4
<1>8. \A i, j \in 1 .. c : p(i) < p(j) => i < j
  BY <1>1, <1>7
<1>9. \A i, j \in 1 .. c : q[i] = q[j] => i = j
  BY <1>1, <1>7
<1>10. ASSUME c = 0 PROVE levels_[t].first_order = Null
  <2>1. levels_[t].first_order \in Nodes \cup {Null} /\ EndsAt(t)
    BY DEF TypeOK, Level, Linked
  <2> QED BY <2>1, <1>3, <1>10 DEF EndsAt, AtTick, S
<1>11. ASSUME c # 0 PROVE levels_[t].first_order = q[1] /\ nodes[q[1]].prev = Null
  <2>1. 1 \in 1 .. c
    BY <1>1, <1>11
  <2>2. nodes[q[1]].prev = Null
    <3> SUFFICES ASSUME nodes[q[1]].prev # Null PROVE FALSE
      OBVIOUS
    <3>1. PICK k \in 1 .. c : q[k] = nodes[q[1]].prev
      BY <2>1, <1>2, <1>6, <1>7
    <3>2. p(k) < p(1)
      BY <3>1, <2>1, <1>4, <1>7 DEF LinkedAt
    <3> QED BY <3>2, <2>1, <1>8
  <2> QED BY <2>1, <2>2, <1>4, <1>7 DEF LinkedAt
<1>12. ASSUME c # 0 PROVE nodes[q[c]].next = Null
  <2>1. c \in 1 .. c
    BY <1>1, <1>12
  <2> SUFFICES ASSUME nodes[q[c]].next # Null PROVE FALSE
    OBVIOUS
  <2>2. PICK k \in 1 .. c : q[k] = nodes[q[c]].next
    BY <2>1, <1>2, <1>5, <1>7
  <2>3. nodes[q[k]].prev = q[c]
    BY <2>1, <2>2, <1>4, <1>7 DEF LinkedAt
  <2>4. p(c) < p(k)
    BY <2>1, <2>3, <1>4, <1>7 DEF LinkedAt
  <2> QED BY <2>1, <2>4, <1>8
<1>13. \A i \in 1 .. (c - 1) : nodes[q[i]].next = q[i + 1]
  <2> DEFINE Bad == {i \in Nat : i \in 1 .. (c - 1) /\ nodes[q[i]].next # q[i + 1]}
  <2> SUFFICES ASSUME Bad # {} PROVE FALSE
    BY <1>1
  <2>1. PICK i \in Bad : \A k \in Bad : i <= k
    BY LeastExists, Zenon
  <2>2. i \in 1 .. c /\ i + 1 \in 1 .. c /\ nodes[q[i]].next # q[i + 1]
    BY <1>1
  <2>3. \A l \in 1 .. c : l < i => l + 1 \in 1 .. c /\ nodes[q[l]].next = q[l + 1]
    BY <2>1, <2>2, <1>1
  <2> HIDE DEF Bad
  <2> DEFINE k == q[i + 1]
  <2>4. k \in S
    BY <2>2, <1>7
  <2>5. nodes[k].prev # Null
    <3> SUFFICES ASSUME nodes[k].prev = Null PROVE FALSE
      OBVIOUS
    <3>1. k = q[1] /\ 1 \in 1 .. c
      BY <2>2, <2>4, <1>1, <1>4, <1>11 DEF LinkedAt
    <3> QED BY <3>1, <2>2, <1>9
  <2>6. PICK l \in 1 .. c : q[l] = nodes[k].prev
    BY <2>4, <2>5, <1>2, <1>6
  <2>7. nodes[q[l]].next = k /\ p(l) < p(i + 1)
    BY <2>4, <2>5, <2>6, <1>4 DEF LinkedAt
  <2>8. l < i + 1
    BY <2>2, <2>7, <1>8
  <2>9. l # i
    BY <2>2, <2>7
  <2>10. l < i
    BY <2>8, <2>9, <2>2
  <2>11. q[l + 1] = q[i + 1] /\ l + 1 \in 1 .. c
    BY <2>3, <2>7, <2>10
  <2>12. l + 1 = i + 1
    BY <2>2, <2>11, <1>9
  <2> QED BY <2>2, <2>10, <2>12
<1>14. ASSUME NEW i \in 1 .. c, NEW j \in 1 .. c, i < j
       PROVE  p(i) < p(j)
  <2>1. i \in 1 .. (c - 1) /\ i + 1 \in 1 .. c /\ i + 1 <= j
    BY <1>1, <1>14
  <2>2. nodes[q[i]].next = q[i + 1] /\ q[i + 1] \in S /\ q[i] \in S
    BY <2>1, <1>7, <1>13
  <2>3. nodes[q[i + 1]].prev = q[i]
    BY <2>2, <1>4 DEF LinkedAt
  <2>4. p(i) < p(i + 1)
    BY <2>2, <2>3, <1>4 DEF LinkedAt
  <2>5. p(i + 1) <= p(j)
    BY <2>1, <1>1, <1>7
  <2> QED BY <2>4, <2>5, <2>1, <1>7
<1> QED BY <1>2, <1>10, <1>11, <1>12, <1>13, <1>14 DEF c, S

\* What Walk() reads is that list.
LEMMA WalkIsList ==
  ASSUME TypeOK, Linked, NEW t \in Ticks, NEW q, Lists(q, t)
  PROVE  Walk(t) = q
<1> DEFINE c == Cardinality(AtTick(t))
           N == Cardinality(Nodes)
           next == [n \in Nodes \cup {Null} |-> IF n = Null THEN Null ELSE nodes[n].next]
           Reads(f) == f = [k \in 1 .. N |->
                              IF k = 1 THEN levels_[t].first_order ELSE next[f[k - 1]]]
           at == CHOOSE f : Reads(f)
           walked == [k \in 1 .. N |-> IF k <= c THEN q[k] ELSE Null]
<1>1. /\ c \in Nat /\ N \in Nat /\ c <= N
      /\ q \in [1 .. c -> AtTick(t)]
  BY AtTickFinite, FS_CardinalityType, NodesAssumption DEF Lists
<1>2. \A k \in 1 .. c : q[k] \in Nodes /\ q[k] # Null
  BY <1>1, NodesAssumption DEF AtTick
<1>3. /\ c = 0 => levels_[t].first_order = Null
      /\ c # 0 => levels_[t].first_order = q[1] /\ nodes[q[c]].next = Null
      /\ \A i \in 1 .. (c - 1) : nodes[q[i]].next = q[i + 1]
  BY Chain
<1> HIDE DEF c, N
<1>4. Reads(walked)
  <2> DEFINE step(k) == IF k = 1 THEN levels_[t].first_order ELSE next[walked[k - 1]]
  <2>1. ASSUME NEW k \in 1 .. N PROVE walked[k] = step(k)
    <3>1. CASE k = 1
      BY <3>1, <1>1, <1>3
    <3>2. CASE k # 1 /\ k <= c
      <4>1. k - 1 \in 1 .. (c - 1) /\ k - 1 \in 1 .. c /\ k - 1 \in 1 .. N /\ (k - 1) + 1 = k
        BY <3>2, <1>1
      <4>2. walked[k - 1] = q[k - 1] /\ nodes[q[k - 1]].next = q[k]
        BY <4>1, <1>1, <1>3
      <4> QED BY <4>1, <4>2, <3>2, <1>2
    <3>3. CASE k # 1 /\ k = c + 1
      <4>1. k - 1 = c /\ c \in 1 .. c /\ c # 0 /\ c \in 1 .. N
        BY <3>3, <1>1
      <4>2. walked[k - 1] = q[c] /\ nodes[q[c]].next = Null
        BY <4>1, <1>1, <1>3
      <4> QED BY <4>1, <4>2, <3>3, <1>1, <1>2
    <3>4. CASE k # 1 /\ k > c + 1
      <4>1. k - 1 \in 1 .. N /\ ~ (k - 1 <= c) /\ ~ (k <= c)
        BY <3>4, <1>1
      <4> QED BY <4>1, <3>4
    <3> QED BY <3>1, <3>2, <3>3, <3>4, <1>1
  <2> QED BY <2>1
<1>5. ASSUME NEW f, Reads(f) PROVE f = walked
  <2>1. /\ DOMAIN f = 1 .. N /\ f = [k \in 1 .. N |-> f[k]]
        /\ \A k \in 1 .. N : f[k] = IF k = 1 THEN levels_[t].first_order ELSE next[f[k - 1]]
    <3> HIDE DEF next
    <3> QED BY <1>5
  <2>2. \A k \in 1 .. N : walked[k] = IF k = 1 THEN levels_[t].first_order ELSE next[walked[k - 1]]
    <3> HIDE DEF next, walked
    <3> QED BY <1>4
  <2>3. \A k \in 1 .. N : f[k] = walked[k]
    <3> DEFINE Bad == {k \in Nat : k \in 1 .. N /\ f[k] # walked[k]}
    <3> SUFFICES ASSUME Bad # {} PROVE FALSE
      BY <1>1
    <3>1. PICK k \in Bad : \A l \in Bad : k <= l
      BY LeastExists, Zenon
    <3>2. k \in 1 .. N /\ f[k] # walked[k]
      OBVIOUS
    <3>3. k # 1 => k - 1 \in 1 .. N /\ f[k - 1] = walked[k - 1]
      BY <3>1, <3>2, <1>1
    <3> HIDE DEF Bad, walked, next
    <3> QED BY <3>2, <3>3, <2>1, <2>2
  <2> QED BY <2>1, <2>3
<1>6. at = walked
  <2> HIDE DEF Reads, walked
  <2> QED BY <1>4, <1>5, Zenon
<1>7. Walk(t) = [k \in 1 .. Cardinality({j \in DOMAIN at : at[j] # Null}) |-> at[k]]
  BY DEF Walk, N, next
<1> HIDE DEF at
<1>8. {j \in DOMAIN at : at[j] # Null} = 1 .. c
  BY <1>1, <1>2, <1>6
<1>9. Cardinality(1 .. c) = c
  BY <1>1, FS_Interval
<1>10. Walk(t) = [k \in 1 .. c |-> walked[k]]
  <2>1. Walk(t) = [k \in 1 .. c |-> at[k]]
    BY <1>7, <1>8, <1>9
  <2> QED BY <2>1, <1>6
<1> QED BY <1>10, <1>1

\* The queue of a tick is the list of its orders.
LEMMA WalkLists ==
  ASSUME Inv, NEW t \in Ticks
  PROVE  Lists(Walk(t), t)
<1>1. PICK q : Lists(q, t)
  BY Listed DEF Inv
<1>2. Walk(t) = q
  BY <1>1, WalkIsList DEF Inv
<1> QED BY <1>1, <1>2, Zenon

\* The number published with each order is its rank at its price
\* (price_levels.h 111), for every grid and pool.
THEOREM PrioritiesCorrect ==
  Spec => []PrioritiesSorted
<1>1. ASSUME Inv PROVE PrioritiesSorted
  <2> SUFFICES ASSUME NEW t \in Ticks, NEW i \in DOMAIN Walk(t)
               PROVE  /\ nodes[Walk(t)[i]].priority < levels_[t].next_priority
                      /\ \A j \in 1 .. (i - 1) :
                           nodes[Walk(t)[j]].priority < nodes[Walk(t)[i]].priority
    BY Zenon DEF PrioritiesSorted
  <2> DEFINE q == Walk(t)
             c == Cardinality(AtTick(t))
  <2>1. Lists(q, t)
    BY <1>1, WalkLists
  <2>2. q \in [1 .. c -> AtTick(t)] /\ c \in Nat
    BY <2>1, AtTickFinite DEF Lists
  <2>3. \A j, k \in 1 .. c : j < k => nodes[q[j]].priority < nodes[q[k]].priority
    BY <1>1, <2>1, Chain DEF Inv
  <2> HIDE DEF q
  <2>4. i \in 1 .. c
    BY <2>2 DEF q
  <2>5. q[i] \in Nodes /\ nodes[q[i]].level = t
    BY <2>2, <2>4 DEF AtTick
  <2>6. nodes[q[i]].priority < levels_[t].next_priority
    BY <2>5, <1>1 DEF Inv, Linked, LinkedAt
  <2> HIDE DEF c
  <2>7. \A j \in 1 .. (i - 1) : nodes[q[j]].priority < nodes[q[i]].priority
    BY <2>2, <2>3, <2>4
  <2> QED BY <2>6, <2>7 DEF q
<1> QED BY Invariance, <1>1, PTL

-----------------------------------------------------------------------------
\* What the operations do to the orders of a tick.

\* The same one step later: whatever lists the orders of a tick then is what
\* Walk() then reads.
LEMMA WalkIsListNext ==
  (TypeOK /\ Linked => \A t \in Ticks : \A q : Lists(q, t) => Walk(t) = q)'
<1>1. TypeOK /\ Linked => \A t \in Ticks : \A q : Lists(q, t) => Walk(t) = q
  BY WalkIsList
<1> QED BY <1>1, PTL

\* The same of one tick and one list.
LEMMA WalkNext ==
  ASSUME TypeOK', Linked', NEW t \in Ticks, NEW q, Lists(q, t)'
  PROVE  Walk(t)' = q
BY WalkIsListNext

\* What the side shows of an order.
SameOrder(n) ==
  /\ nodes'[n].level = nodes[n].level
  /\ nodes'[n].priority = nodes[n].priority
  /\ nodes'[n].remaining_quantity = nodes[n].remaining_quantity

\* AddOrder changes nothing of the other orders and ticks.
LEMMA AddEffect ==
  ASSUME Inv, NEW t \in Ticks, NEW n \in Nodes, NEW quantity \in Quantities,
         AddOrder(t, n, quantity)
  PROVE  /\ quantity \in Nat /\ nodes[n].level \notin Ticks
         /\ nodes'[n].level = t /\ nodes'[n].remaining_quantity = quantity
         /\ nodes'[n].priority = levels_[t].next_priority
         /\ \A m \in Nodes : m # n => SameOrder(m)
         /\ levels_'[t].total_quantity = levels_[t].total_quantity + quantity
         /\ \A u \in Ticks : u # t => levels_'[u] = levels_[u]
         /\ side_' = side_
<1> DEFINE level == levels_[t]
           last == level.last_order
           added == [next |-> Null, prev |-> last, level |-> t,
                     priority |-> level.next_priority, remaining_quantity |-> quantity]
           slot == [first_order |-> IF IsEmpty(t) THEN n ELSE level.first_order,
                    last_order |-> n,
                    next_priority |-> level.next_priority + 1,
                    total_quantity |-> level.total_quantity + quantity]
<1>1. /\ nodes[n].level = kInvalidTick
      /\ nodes' = [m \in Nodes |->
           IF m = n THEN added
           ELSE IF m = last /\ ~ IsEmpty(t) THEN [nodes[m] EXCEPT !.next = n]
           ELSE nodes[m]]
      /\ levels_' = [levels_ EXCEPT ![t] = slot]
      /\ side_' = side_
  BY DEF AddOrder, InBook
<1>2. quantity \in Nat /\ kInvalidTick \notin Ticks
  BY GridAssumption, BoundsAssumption DEF Ticks, kInvalidTick, Quantities
<1>3. levels_ \in [Ticks -> Level] /\ nodes \in [Nodes -> Node]
  BY DEF Inv, TypeOK
<1>4. nodes'[n] = added
  BY <1>1
<1>5. ASSUME NEW m \in Nodes, m # n PROVE SameOrder(m)
  <2>1. nodes'[m] = [nodes[m] EXCEPT !.next = n] \/ nodes'[m] = nodes[m]
    BY <1>1, <1>5
  <2>2. nodes[m] \in Node
    BY <1>3
  <2> QED BY <2>1, <2>2 DEF SameOrder, Node
<1>6. levels_'[t] = slot /\ \A u \in Ticks : u # t => levels_'[u] = levels_[u]
  BY <1>1, <1>3
<1> QED BY <1>1, <1>2, <1>4, <1>5, <1>6

\* ApplyFill takes what is filled from the order and from its tick.
LEMMA FillEffect ==
  ASSUME Inv, NEW n \in Nodes, NEW quantity \in Quantities, ApplyFill(n, quantity)
  PROVE  LET t == nodes[n].level
             rest == nodes[n].remaining_quantity - quantity
         IN /\ t \in Ticks /\ quantity \in Nat /\ rest \in Nat
            /\ nodes[n].remaining_quantity \in Nat
            /\ nodes'[n].level = t /\ nodes'[n].priority = nodes[n].priority
            /\ nodes'[n].remaining_quantity = rest
            /\ \A m \in Nodes : m # n => SameOrder(m)
            /\ levels_'[t].total_quantity = levels_[t].total_quantity - quantity
            /\ \A u \in Ticks : u # t => levels_'[u] = levels_[u]
            /\ side_' = side_
<1> DEFINE t == nodes[n].level
           rest == nodes[n].remaining_quantity - quantity
           total == levels_[t].total_quantity - quantity
<1>1. /\ InBook(n) /\ quantity <= nodes[n].remaining_quantity
      /\ nodes' = [nodes EXCEPT ![n].remaining_quantity = rest]
      /\ levels_' = [levels_ EXCEPT ![t].total_quantity = total]
      /\ side_' = side_
  BY DEF ApplyFill
<1>2. /\ levels_ \in [Ticks -> Level] /\ nodes \in [Nodes -> Node]
      /\ nodes[n] \in Node /\ t \in Ticks /\ levels_[t] \in Level /\ quantity \in Nat
      /\ nodes[n].remaining_quantity \in Nat
  BY <1>1, BoundsAssumption DEF Inv, TypeOK, Node, InBook, Quantities
<1>3. rest \in Nat
  BY <1>1, <1>2
<1> HIDE DEF rest, total
<1>4. /\ nodes'[n].level = t /\ nodes'[n].priority = nodes[n].priority
      /\ nodes'[n].remaining_quantity = rest
      /\ \A m \in Nodes : m # n => nodes'[m] = nodes[m]
  BY <1>1, <1>2 DEF Node
<1>5. \A m \in Nodes : m # n => SameOrder(m)
  BY <1>4 DEF SameOrder
<1>6. levels_'[t].total_quantity = total /\ \A u \in Ticks : u # t => levels_'[u] = levels_[u]
  BY <1>1, <1>2 DEF Level
<1> QED BY <1>1, <1>2, <1>3, <1>4, <1>5, <1>6 DEF rest, total

\* RemoveOrder takes what the order had left from its tick, and restarts the
\* count of a tick it empties.
LEMMA RemoveEffect ==
  ASSUME Inv, NEW n \in Nodes, RemoveOrder(n)
  PROVE  LET t == nodes[n].level
             total == levels_[t].total_quantity
             rest == nodes[n].remaining_quantity
         IN /\ t \in Ticks /\ rest \in Nat
            /\ nodes'[n].level \notin Ticks
            /\ \A m \in Nodes : m # n => SameOrder(m)
            /\ \/ levels_'[t].total_quantity = total - rest
               \/ levels_'[t].total_quantity = 0 /\ AtTick(t) = {n}
            /\ \A u \in Ticks : u # t => levels_'[u] = levels_[u]
            /\ side_' = side_
<1> DEFINE order == nodes[n]
           t == order.level
           total == levels_[t].total_quantity - order.remaining_quantity
           level == UnlinkedLevel(levels_[t], order)
           slot == [level EXCEPT !.total_quantity = 0, !.next_priority = 1]
<1>1. /\ InBook(n) /\ Relink(n) /\ side_' = side_
      /\ levels_' = [levels_ EXCEPT ![t] = IF level.first_order = Null THEN slot ELSE level]
  <2>1. /\ InBook(n) /\ Relink(n) /\ side_' = side_
        /\ level.first_order = Null => levels_' = [levels_ EXCEPT ![t] = slot]
        /\ level.first_order # Null => levels_' = [levels_ EXCEPT ![t] = level]
    BY DEF RemoveOrder
  <2> HIDE DEF level, slot
  <2> QED BY <2>1
<1>2. /\ levels_ \in [Ticks -> Level] /\ nodes \in [Nodes -> Node] /\ order \in Node
      /\ t \in Ticks /\ levels_[t] \in Level /\ order.remaining_quantity \in Nat
      /\ kInvalidTick \notin Ticks
      /\ order.next \in Nodes \cup {Null} /\ order.prev \in Nodes \cup {Null}
  BY <1>1, GridAssumption DEF Inv, TypeOK, Node, InBook, Ticks, kInvalidTick
<1>3. /\ level.first_order = IF order.prev = Null THEN order.next ELSE levels_[t].first_order
      /\ level.total_quantity = total
  BY DEF UnlinkedLevel
<1>4. slot.total_quantity = 0
  BY DEF UnlinkedLevel
<1>5. ASSUME level.first_order = Null PROVE AtTick(t) = {n}
  <2>1. levels_[t].first_order # Null
    BY <1>1, NotEmpty DEF Inv, IsEmpty
  <2>2. order.prev = Null /\ order.next = Null
    BY <1>3, <1>5, <2>1
  <2>3. \A m \in Nodes : nodes[m].level = t => m = n
    BY <2>2, <1>1, Alone DEF Inv
  <2> QED BY <2>3 DEF AtTick
<1>6. /\ levels_'[t] = IF level.first_order = Null THEN slot ELSE level
      /\ \A u \in Ticks : u # t => levels_'[u] = levels_[u]
  <2> HIDE DEF level, slot
  <2> QED BY <1>1, <1>2
<1>7. nodes'[n] = FreeNode /\ FreeNode.level \notin Ticks
  BY <1>1, <1>2 DEF Relink, FreeNode
<1>8. ASSUME NEW m \in Nodes, m # n PROVE SameOrder(m)
  <2> DEFINE ahead == IF m = order.prev THEN order.next ELSE nodes[m].next
             back == IF m = order.next THEN order.prev ELSE nodes[m].prev
  <2>1. nodes[m] \in Node
    BY <1>2
  <2>2. ahead \in Nodes \cup {Null} /\ back \in Nodes \cup {Null}
    BY <2>1, <1>2 DEF Node
  <2>3. nodes'[m] = [nodes[m] EXCEPT !.next = ahead, !.prev = back]
    BY <1>1, <1>8 DEF Relink
  <2> HIDE DEF ahead, back
  <2> QED BY <2>1, <2>2, <2>3 DEF Node, SameOrder
<1> HIDE DEF level, slot
<1> QED BY <1>1, <1>2, <1>3, <1>4, <1>5, <1>6, <1>7, <1>8

-----------------------------------------------------------------------------
\* The running totals.

\* The units of quantity that rest at tick t, each with its order.
Resting(t) ==
  {u \in Nodes \X (Nat \ {0}) :
     nodes[u[1]].level = t /\ u[2] <= nodes[u[1]].remaining_quantity}

TotalsExact ==
  \A t \in Ticks : IsFiniteSet(Resting(t))
                   /\ levels_[t].total_quantity = Cardinality(Resting(t))

\* Some units of one order are as many as their numbers.
LEMMA UnitsCounted ==
  ASSUME NEW n, NEW a \in Nat, NEW b \in Nat, a <= b
  PROVE  IsFiniteSet({n} \X ((a + 1) .. b)) /\ Cardinality({n} \X ((a + 1) .. b)) = b - a
<1>1. IsFiniteSet((a + 1) .. b) /\ Cardinality((a + 1) .. b) = b - a
  <2> DEFINE low == a + 1
  <2>1. low \in Int /\ b \in Int /\ (low > b => b - a = 0) /\ b - low + 1 = b - a
    OBVIOUS
  <2> HIDE DEF low
  <2>2. /\ IsFiniteSet(low .. b)
        /\ Cardinality(low .. b) = IF low > b THEN 0 ELSE b - low + 1
    BY <2>1, FS_Interval
  <2>3. IsFiniteSet(low .. b) /\ Cardinality(low .. b) = b - a
    BY <2>1, <2>2
  <2> QED BY <2>3 DEF low
<1>2. IsFiniteSet({n}) /\ Cardinality({n}) = 1
  BY FS_Singleton
<1>3. /\ IsFiniteSet({n} \X ((a + 1) .. b))
      /\ Cardinality({n} \X ((a + 1) .. b)) = Cardinality({n}) * Cardinality((a + 1) .. b)
  BY <1>1, <1>2, FS_Product
<1> QED BY <1>1, <1>2, <1>3

\* All of them are as many as the last number.
LEMMA AllUnitsCounted ==
  ASSUME NEW n, NEW b \in Nat
  PROVE  IsFiniteSet({n} \X (1 .. b)) /\ Cardinality({n} \X (1 .. b)) = b
<1>1. ASSUME NEW a \in Nat, a = 0 PROVE a <= b /\ a + 1 = 1 /\ b - a = b
  BY <1>1
<1>2. ASSUME NEW a \in Nat, a = 0
      PROVE  IsFiniteSet({n} \X (1 .. b)) /\ Cardinality({n} \X (1 .. b)) = b
  <2>1. a <= b /\ a + 1 = 1 /\ b - a = b
    BY <1>1, <1>2
  <2>2. /\ IsFiniteSet({n} \X ((a + 1) .. b))
        /\ Cardinality({n} \X ((a + 1) .. b)) = b - a
    BY <2>1, UnitsCounted
  <2> QED BY <2>1, <2>2, Zenon
<1> QED BY <1>2

\* Parts that share nothing add up.
LEMMA PartsCounted ==
  ASSUME NEW S, NEW T, IsFiniteSet(S), IsFiniteSet(T), S \cap T = {}
  PROVE  IsFiniteSet(S \cup T) /\ Cardinality(S \cup T) = Cardinality(S) + Cardinality(T)
<1>1. /\ IsFiniteSet(S \cup T)
      /\ Cardinality(S \cup T) = Cardinality(S) + Cardinality(T) - Cardinality(S \cap T)
  BY FS_Union
<1>2. Cardinality(S \cap T) = 0
  BY FS_EmptySet
<1>3. Cardinality(S) \in Nat /\ Cardinality(T) \in Nat
  BY FS_CardinalityType
<1> QED BY <1>1, <1>2, <1>3

\* Two sets of pairs that together make a third and share nothing.
LEMMA PairsSplit ==
  ASSUME NEW A, NEW B, NEW R \in SUBSET (A \X B), NEW S \in SUBSET (A \X B),
         NEW T \in SUBSET (A \X B),
         \A x \in A, y \in B : <<x, y>> \in R <=> <<x, y>> \in S \/ <<x, y>> \in T,
         \A x \in A, y \in B : ~ (<<x, y>> \in S /\ <<x, y>> \in T)
  PROVE  R = S \cup T /\ S \cap T = {}
<1>1. ASSUME NEW u \in A \X B
      PROVE  (u \in R <=> u \in S \/ u \in T) /\ ~ (u \in S /\ u \in T)
  <2>1. PICK x \in A, y \in B : u = <<x, y>>
    OBVIOUS
  <2>2. (<<x, y>> \in R <=> <<x, y>> \in S \/ <<x, y>> \in T)
        /\ ~ (<<x, y>> \in S /\ <<x, y>> \in T)
    OBVIOUS
  <2> QED BY <2>1, <2>2, Zenon
<1> QED BY <1>1

\* Nothing rests on an empty side.
LEMMA TotalsStart ==
  Init => TotalsExact
<1> SUFFICES ASSUME Init, NEW t \in Ticks
             PROVE  IsFiniteSet(Resting(t))
                    /\ levels_[t].total_quantity = Cardinality(Resting(t))
  BY DEF TotalsExact
<1>1. \A n \in Nodes : nodes[n].level # t
  BY GridAssumption DEF Init, FreeNode, kInvalidTick, Ticks
<1>2. Resting(t) = {}
  BY <1>1 DEF Resting
<1>3. levels_[t].total_quantity = 0
  BY DEF Init, EmptyLevel
<1> QED BY <1>2, <1>3, FS_EmptySet

\* An operation that changes only order n, at tick t, changes only what rests
\* there.
LEMMA OtherTicks ==
  ASSUME NEW t \in Ticks, NEW n \in Nodes,
         nodes[n].level = t \/ nodes[n].level \notin Ticks,
         nodes'[n].level = t \/ nodes'[n].level \notin Ticks,
         \A m \in Nodes : m # n => SameOrder(m),
         \A u \in Ticks : u # t => levels_'[u] = levels_[u],
         NEW u \in Ticks, u # t
  PROVE  AtTick(u)' = AtTick(u) /\ Resting(u)' = Resting(u) /\ n \notin AtTick(u)
<1>1. nodes[n].level # u /\ nodes'[n].level # u
  OBVIOUS
<1>2. \A m \in Nodes : m # n => /\ nodes'[m].level = nodes[m].level
                                /\ nodes'[m].remaining_quantity = nodes[m].remaining_quantity
  BY DEF SameOrder
<1> QED BY <1>1, <1>2 DEF AtTick, Resting

\* Adding, filling and removing keep the totals exact.  What is added rests
\* nowhere before.
LEMMA TotalsAdd ==
  ASSUME Inv, TotalsExact, NEW t \in Ticks, NEW n \in Nodes, NEW quantity \in Quantities,
         AddOrder(t, n, quantity)
  PROVE  TotalsExact'
<1>1. /\ quantity \in Nat /\ nodes[n].level \notin Ticks
      /\ nodes'[n].level = t /\ nodes'[n].remaining_quantity = quantity
      /\ \A m \in Nodes : m # n => SameOrder(m)
      /\ levels_'[t].total_quantity = levels_[t].total_quantity + quantity
      /\ \A u \in Ticks : u # t => levels_'[u] = levels_[u]
  BY AddEffect
<1> DEFINE units == {n} \X (1 .. quantity)
<1>2. IsFiniteSet(units) /\ Cardinality(units) = quantity
  BY <1>1, AllUnitsCounted
<1>3. Resting(t)' = Resting(t) \cup units
  <2>1. \A m \in Nodes : m # n => /\ nodes'[m].level = nodes[m].level
                                  /\ nodes'[m].remaining_quantity = nodes[m].remaining_quantity
    BY <1>1 DEF SameOrder
  <2> QED BY <1>1, <2>1 DEF Resting
<1>4. Resting(t) \cap units = {}
  BY <1>1 DEF Resting
<1> HIDE DEF units
<1>5. IsFiniteSet(Resting(t)') /\ levels_'[t].total_quantity = Cardinality(Resting(t)')
  <2>1. IsFiniteSet(Resting(t)) /\ levels_[t].total_quantity = Cardinality(Resting(t))
    BY DEF TotalsExact
  <2>2. /\ IsFiniteSet(Resting(t) \cup units)
        /\ Cardinality(Resting(t) \cup units) = Cardinality(Resting(t)) + Cardinality(units)
    BY <1>2, <1>4, <2>1, PartsCounted
  <2>3. levels_'[t].total_quantity = levels_[t].total_quantity + quantity
    BY <1>1
  <2> QED BY <1>2, <1>3, <2>1, <2>2, <2>3
<1>6. ASSUME NEW u \in Ticks, u # t
      PROVE  IsFiniteSet(Resting(u)') /\ levels_'[u].total_quantity = Cardinality(Resting(u)')
  <2>1. Resting(u)' = Resting(u)
    BY <1>1, <1>6, OtherTicks
  <2> QED BY <2>1, <1>1, <1>6 DEF TotalsExact
<1> QED BY <1>5, <1>6 DEF TotalsExact

\* What is filled is the last units of the order.
LEMMA TotalsFill ==
  ASSUME Inv, TotalsExact, NEW n \in Nodes, NEW quantity \in Quantities,
         ApplyFill(n, quantity)
  PROVE  TotalsExact'
<1>1. PICK t \in Ticks, rest \in Nat :
        /\ nodes[n].level = t /\ rest = nodes[n].remaining_quantity - quantity
        /\ quantity \in Nat /\ nodes[n].remaining_quantity \in Nat
        /\ nodes'[n].level = t /\ nodes'[n].remaining_quantity = rest
        /\ \A m \in Nodes : m # n => SameOrder(m)
        /\ levels_'[t].total_quantity = levels_[t].total_quantity - quantity
        /\ \A u \in Ticks : u # t => levels_'[u] = levels_[u]
  BY FillEffect
<1> DEFINE filled == {n} \X ((rest + 1) .. nodes[n].remaining_quantity)
<1>2. IsFiniteSet(filled) /\ Cardinality(filled) = quantity
  <2>1. rest <= nodes[n].remaining_quantity /\ nodes[n].remaining_quantity - rest = quantity
    BY <1>1
  <2> QED BY <1>1, <2>1, UnitsCounted
<1>3. Resting(t) = Resting(t)' \cup filled /\ Resting(t)' \cap filled = {}
  <2>1. \A m \in Nodes : m # n => /\ nodes'[m].level = nodes[m].level
                                  /\ nodes'[m].remaining_quantity = nodes[m].remaining_quantity
    BY <1>1 DEF SameOrder
  <2>2. rest <= nodes[n].remaining_quantity /\ nodes[n].level = t
    BY <1>1
  <2>3. rest \in Nat /\ nodes[n].remaining_quantity \in Nat /\ nodes'[n].level = t
        /\ nodes'[n].remaining_quantity = rest
    BY <1>1
  <2>4. ASSUME NEW m \in Nodes, NEW k \in Nat \ {0}
        PROVE  <<m, k>> \in Resting(t) <=> <<m, k>> \in Resting(t)' \/ <<m, k>> \in filled
    BY <2>1, <2>2, <2>3 DEF Resting
  <2>5. ASSUME NEW m \in Nodes, NEW k \in Nat \ {0}
        PROVE  ~ (<<m, k>> \in Resting(t)' /\ <<m, k>> \in filled)
    BY <2>2, <2>3 DEF Resting
  <2>6. filled \subseteq Nodes \X (Nat \ {0})
    BY <2>3
  <2>7. Resting(t) \subseteq Nodes \X (Nat \ {0}) /\ Resting(t)' \subseteq Nodes \X (Nat \ {0})
    BY DEF Resting
  <2> HIDE DEF filled
  <2> QED BY <2>4, <2>5, <2>6, <2>7, PairsSplit
<1> HIDE DEF filled
<1>4. IsFiniteSet(Resting(t)') /\ levels_'[t].total_quantity = Cardinality(Resting(t)')
  <2>1. IsFiniteSet(Resting(t)) /\ levels_[t].total_quantity = Cardinality(Resting(t))
    BY <1>1 DEF TotalsExact
  <2>2. IsFiniteSet(Resting(t)')
    <3>1. Resting(t)' \in SUBSET Resting(t)
      BY <1>3
    <3> QED BY <2>1, <3>1, FS_Subset
  <2>3. Cardinality(Resting(t)' \cup filled) = Cardinality(Resting(t)') + Cardinality(filled)
    BY <1>2, <1>3, <2>2, PartsCounted
  <2>4. Cardinality(Resting(t)') \in Nat
    BY <2>2, FS_CardinalityType
  <2> QED BY <1>1, <1>2, <1>3, <2>1, <2>2, <2>3, <2>4
<1>5. ASSUME NEW u \in Ticks, u # t
      PROVE  IsFiniteSet(Resting(u)') /\ levels_'[u].total_quantity = Cardinality(Resting(u)')
  <2>1. Resting(u)' = Resting(u)
    BY <1>1, <1>5, OtherTicks
  <2> QED BY <2>1, <1>1, <1>5 DEF TotalsExact
<1> QED BY <1>4, <1>5, Zenon DEF TotalsExact

\* What is removed is all the units of the order; a slot that is emptied
\* starts again from nothing.
LEMMA TotalsRemove ==
  ASSUME Inv, TotalsExact, NEW n \in Nodes, RemoveOrder(n)
  PROVE  TotalsExact'
<1>1. PICK t \in Ticks, rest \in Nat :
        /\ nodes[n].level = t /\ rest = nodes[n].remaining_quantity
        /\ nodes'[n].level \notin Ticks
        /\ \A m \in Nodes : m # n => SameOrder(m)
        /\ \/ levels_'[t].total_quantity = levels_[t].total_quantity - rest
           \/ levels_'[t].total_quantity = 0 /\ AtTick(t) = {n}
        /\ \A u \in Ticks : u # t => levels_'[u] = levels_[u]
  BY RemoveEffect
<1> DEFINE removed == {n} \X (1 .. rest)
<1>2. IsFiniteSet(removed) /\ Cardinality(removed) = rest
  <2> QED BY <1>1, AllUnitsCounted
<1>3. \A m \in Nodes : m # n => /\ nodes'[m].level = nodes[m].level
                                /\ nodes'[m].remaining_quantity = nodes[m].remaining_quantity
  BY <1>1 DEF SameOrder
<1>4. Resting(t) = Resting(t)' \cup removed /\ Resting(t)' \cap removed = {}
  <2>1. nodes[n].level = t /\ nodes[n].remaining_quantity = rest /\ nodes'[n].level # t
    BY <1>1
  <2>2. ASSUME NEW m \in Nodes, NEW k \in Nat \ {0}
        PROVE  <<m, k>> \in Resting(t) <=> <<m, k>> \in Resting(t)' \/ <<m, k>> \in removed
    BY <1>1, <1>3, <2>1 DEF Resting
  <2>3. ASSUME NEW m \in Nodes, NEW k \in Nat \ {0}
        PROVE  ~ (<<m, k>> \in Resting(t)' /\ <<m, k>> \in removed)
    BY <2>1 DEF Resting
  <2>4. removed \subseteq Nodes \X (Nat \ {0})
    OBVIOUS
  <2>5. Resting(t) \subseteq Nodes \X (Nat \ {0}) /\ Resting(t)' \subseteq Nodes \X (Nat \ {0})
    BY DEF Resting
  <2> HIDE DEF removed
  <2> QED BY <2>2, <2>3, <2>4, <2>5, PairsSplit
<1> HIDE DEF removed
<1>5. IsFiniteSet(Resting(t)') /\ levels_'[t].total_quantity = Cardinality(Resting(t)')
  <2>1. IsFiniteSet(Resting(t)) /\ levels_[t].total_quantity = Cardinality(Resting(t))
    BY <1>1 DEF TotalsExact
  <2>2. IsFiniteSet(Resting(t)')
    <3>1. Resting(t)' \in SUBSET Resting(t)
      BY <1>4
    <3> QED BY <2>1, <3>1, FS_Subset
  <2>3. Cardinality(Resting(t)' \cup removed) = Cardinality(Resting(t)') + Cardinality(removed)
    BY <1>2, <1>4, <2>2, PartsCounted
  <2>4. Cardinality(Resting(t)') \in Nat
    BY <2>2, FS_CardinalityType
  <2>5. CASE levels_'[t].total_quantity = levels_[t].total_quantity - rest
    BY <1>1, <1>2, <1>4, <2>1, <2>2, <2>3, <2>4, <2>5
  <2>6. CASE levels_'[t].total_quantity = 0 /\ AtTick(t) = {n}
    <3>1. \A m \in Nodes : nodes'[m].level # t
      <4>1. \A m \in Nodes : m # n => nodes[m].level # t
        BY <2>6 DEF AtTick
      <4> QED BY <4>1, <1>1, <1>3
    <3>2. Resting(t)' = {}
      BY <3>1 DEF Resting
    <3> QED BY <3>2, <2>6, FS_EmptySet
  <2> QED BY <1>1, <2>5, <2>6
<1>6. ASSUME NEW u \in Ticks, u # t
      PROVE  IsFiniteSet(Resting(u)') /\ levels_'[u].total_quantity = Cardinality(Resting(u)')
  <2>1. Resting(u)' = Resting(u)
    BY <1>1, <1>6, OtherTicks
  <2> QED BY <2>1, <1>1, <1>6 DEF TotalsExact
<1> QED BY <1>5, <1>6, Zenon DEF TotalsExact

\* Every step keeps them.
LEMMA TotalsStep ==
  ASSUME Inv, TotalsExact, [Next]_vars
  PROVE  TotalsExact'
<1>1. ASSUME NEW t \in Ticks, NEW n \in Nodes, NEW quantity \in Quantities,
             AddOrder(t, n, quantity)
      PROVE  TotalsExact'
  BY <1>1, TotalsAdd
<1>2. ASSUME NEW n \in Nodes, NEW quantity \in Quantities, ApplyFill(n, quantity)
      PROVE  TotalsExact'
  BY <1>2, TotalsFill
<1>3. ASSUME NEW n \in Nodes, RemoveOrder(n) PROVE TotalsExact'
  BY <1>3, TotalsRemove
<1>4. CASE UNCHANGED vars
  BY <1>4 DEF vars, TotalsExact, Resting
<1> QED BY <1>1, <1>2, <1>3, <1>4 DEF Next

\* The total of every tick is the quantity left of the orders that rest there.
THEOREM TotalsCorrect ==
  Spec => []TotalsExact
<1>1. Inv /\ TotalsExact /\ [Next]_vars => TotalsExact'
  BY TotalsStep
<1> QED BY Invariance, TotalsStart, <1>1, PTL DEF Spec

-----------------------------------------------------------------------------
\* What the side shows.

\* The queue of a tick as BookSide sees it.
Waiting(q) ==
  [i \in DOMAIN q |-> [order |-> q[i], quantity |-> nodes[q[i]].remaining_quantity]]

\* The entries of a list of the orders of a tick.
LEMMA EntriesAre ==
  ASSUME TypeOK, NEW t \in Ticks, NEW q, Lists(q, t)
  PROVE  LET c == Cardinality(AtTick(t)) IN
         /\ Entries[q] = Waiting(q) /\ DOMAIN q = 1 .. c /\ c \in Nat
         /\ Waiting(q) \in [1 .. c -> [order : Nodes, quantity : Nat]]
         /\ Waiting(q) \in Seq([order : Nodes, quantity : Nat]) /\ Len(Waiting(q)) = c
<1> DEFINE c == Cardinality(AtTick(t))
<1>1. c \in Nat /\ q \in [1 .. c -> AtTick(t)] /\ AtTick(t) \subseteq Nodes
  BY AtTickFinite DEF Lists, AtTick
<1> HIDE DEF c
<1>2. q \in [1 .. c -> Nodes] /\ DOMAIN q = 1 .. c
  BY <1>1
<1>3. q \in Seq(Nodes)
  BY <1>1, <1>2, SeqDef
<1>4. Entries[q] = Waiting(q)
  BY <1>3 DEF Entries, Waiting
<1>5. \A i \in 1 .. c : nodes[q[i]].remaining_quantity \in Nat
  BY <1>2 DEF TypeOK, Node
<1>6. Waiting(q) \in [1 .. c -> [order : Nodes, quantity : Nat]]
  BY <1>2, <1>5 DEF Waiting
<1>7. Waiting(q) \in Seq([order : Nodes, quantity : Nat])
  <2> DEFINE w == Waiting(q)
             E == [order : Nodes, quantity : Nat]
  <2>1. w \in [1 .. c -> E]
    BY <1>6
  <2> HIDE DEF w, E
  <2>2. w \in Seq(E)
    BY <2>1, <1>1, SeqDef
  <2> QED BY <2>2 DEF w, E
<1>8. Len(Waiting(q)) = c
  <2>1. DOMAIN Waiting(q) = 1 .. c /\ DOMAIN Waiting(q) = 1 .. Len(Waiting(q))
        /\ Len(Waiting(q)) \in Nat
    BY <1>6, <1>7, LenProperties
  <2> QED BY <2>1, <1>1
<1> QED BY <1>1, <1>2, <1>4, <1>6, <1>7, <1>8 DEF c

\* So the queue of a tick is whatever lists its orders.
LEMMA QueueIs ==
  TypeOK /\ Linked =>
    \A t \in Ticks : \A q : Lists(q, t) => Entries[Walk(t)] = Waiting(q)
<1> SUFFICES ASSUME TypeOK, Linked, NEW t \in Ticks, NEW q, Lists(q, t)
             PROVE  Entries[Walk(t)] = Waiting(q)
  OBVIOUS
<1>1. Walk(t) = q
  BY WalkIsList
<1>2. Entries[q] = Waiting(q)
  BY EntriesAre
<1> QED BY <1>1, <1>2, Zenon

\* A step later as well.
LEMMA QueueIsNext ==
  (TypeOK /\ Linked =>
     \A t \in Ticks : \A q : Lists(q, t) => Entries[Walk(t)] = Waiting(q))'
BY QueueIs, PTL

\* The same of one tick and one list.
LEMMA QueueNext ==
  ASSUME TypeOK', Linked', NEW t \in Ticks, NEW q, Lists(q, t)'
  PROVE  Entries[Walk(t)]' = Waiting(q)'
BY QueueIsNext

\* A tick has a queue if and only if its slot is not empty.
LEMMA OccupiedHasOrders ==
  ASSUME Inv, NEW t \in Ticks
  PROVE  t \in Occupied <=> AtTick(t) # {}
<1>1. ASSUME t \in Occupied PROVE AtTick(t) # {}
  <2>1. levels_[t].first_order # Null /\ EndsAt(t) /\ levels_[t].first_order \in Nodes \cup {Null}
    BY <1>1 DEF Occupied, IsEmpty, Inv, Linked, TypeOK, Level
  <2> QED BY <2>1 DEF EndsAt, AtTick
<1>2. ASSUME AtTick(t) # {} PROVE t \in Occupied
  <2>1. PICK n \in Nodes : nodes[n].level = t
    BY <1>2 DEF AtTick
  <2>2. InBook(n)
    BY <2>1, GridAssumption DEF InBook, Ticks, kInvalidTick
  <2> QED BY <2>1, <2>2, NotEmpty DEF Inv, Occupied
<1> QED BY <1>1, <1>2

\* BookSide counts as this module does.
LEMMA SameCount ==
  ASSUME NEW S
  PROVE  side!Cardinality(S) = Cardinality(S)
BY Zenon DEF side!Cardinality, Cardinality, side!IsFiniteSet, IsFiniteSet

\* The best tick and the totals shown follow from the queues.
LEMMA ShownHolds ==
  Inv /\ TotalsExact => side!Shown
<1> SUFFICES ASSUME Inv, TotalsExact PROVE side!Shown
  OBVIOUS
<1> DEFINE queue == [t \in Ticks |-> Entries[Walk(t)]]
           total == [t \in Ticks |-> levels_[t].total_quantity]
<1>1. ASSUME NEW t \in Ticks
      PROVE  /\ queue[t] # << >> <=> t \in Occupied
             /\ total[t] = side!QuantityOf[queue[t]]
  <2> DEFINE q == Walk(t)
             c == Cardinality(AtTick(t))
  <2>1. Lists(q, t)
    BY WalkLists
  <2>2. /\ Entries[q] = Waiting(q) /\ DOMAIN q = 1 .. c /\ c \in Nat
        /\ Waiting(q) \in [1 .. c -> [order : Nodes, quantity : Nat]]
        /\ Waiting(q) \in Seq([order : Nodes, quantity : Nat])
    BY <2>1, EntriesAre DEF Inv
  <2>3. queue[t] = Waiting(q)
    BY <2>2
  <2>4. c = 0 <=> AtTick(t) = {}
    BY AtTickFinite, FS_EmptySet
  <2>5. \A n \in AtTick(t) : \E i \in 1 .. c : q[i] = n
    BY <2>1, Chain DEF Inv
  <2>6. \A i \in 1 .. c : q[i] \in AtTick(t)
    BY <2>1 DEF Lists
  <2> HIDE DEF q, c, queue
  <2>7. Waiting(q) = << >> <=> c = 0
    BY <2>2
  <2>8. UNION {side!Units(Waiting(q)[i].order, Waiting(q)[i].quantity) : i \in DOMAIN Waiting(q)}
          = Resting(t)
    <3> DEFINE units(i) == {q[i]} \X (1 .. nodes[q[i]].remaining_quantity)
    <3>1. DOMAIN Waiting(q) = 1 .. c
          /\ \A i \in 1 .. c : side!Units(Waiting(q)[i].order, Waiting(q)[i].quantity) = units(i)
      BY <2>2 DEF Waiting, side!Units
    <3>2. ASSUME NEW u \in Resting(t) PROVE \E i \in 1 .. c : u \in units(i)
      <4>1. u[1] \in AtTick(t) /\ u = <<u[1], u[2]>> /\ u[2] \in 1 .. nodes[u[1]].remaining_quantity
        BY DEF Resting, AtTick, Inv, TypeOK, Node
      <4> QED BY <4>1, <2>5
    <3>3. ASSUME NEW i \in 1 .. c, NEW u \in units(i) PROVE u \in Resting(t)
      BY <2>6 DEF Resting, AtTick
    <3> HIDE DEF units
    <3> QED BY <3>1, <3>2, <3>3
  <2>9. side!QuantityOf[Waiting(q)] = Cardinality(Resting(t))
    <3>1. \A w \in Seq([order : Nodes, quantity : Nat]) :
            side!QuantityOf[w] =
              Cardinality(UNION {side!Units(w[i].order, w[i].quantity) : i \in DOMAIN w})
      BY SameCount DEF side!QuantityOf
    <3>2. side!QuantityOf[Waiting(q)] =
            Cardinality(UNION {side!Units(Waiting(q)[i].order, Waiting(q)[i].quantity) :
                                 i \in DOMAIN Waiting(q)})
      BY <2>2, <3>1
    <3> QED BY <2>8, <3>2, Zenon
  <2> QED BY <2>3, <2>4, <2>7, <2>9, OccupiedHasOrders DEF TotalsExact
<1> HIDE DEF queue, total
<1>2. best_tick_ = kInvalidTick \/ queue[best_tick_] # << >>
  <2>1. best_tick_ # kInvalidTick => best_tick_ \in Occupied /\ best_tick_ \in Ticks
    BY DEF Inv, BestExact, Occupied
  <2> QED BY <2>1, <1>1
<1>3. ASSUME NEW t \in Ticks, queue[t] # << >>
      PROVE  /\ best_tick_ # kInvalidTick
             /\ IF side_ = "BUY" THEN best_tick_ >= t ELSE best_tick_ <= t
  <2>1. t \in Occupied
    BY <1>1, <1>3
  <2>2. best_tick_ \in Occupied /\ ~ IsBetter(t, best_tick_)
    BY <2>1 DEF Inv, BestExact
  <2>3. t \in Int /\ best_tick_ \in Int /\ best_tick_ # kInvalidTick
    BY <2>2, GridAssumption DEF Occupied, Ticks, kInvalidTick
  <2> QED BY <2>2, <2>3 DEF IsBetter
<1>4. /\ best_tick_ = kInvalidTick \/ queue[best_tick_] # << >>
      /\ \A t \in Ticks : queue[t] # << >> =>
           /\ best_tick_ # kInvalidTick
           /\ IF side_ = "BUY" THEN best_tick_ >= t ELSE best_tick_ <= t
      /\ \A t \in Ticks : total[t] = side!QuantityOf[queue[t]]
  BY <1>1, <1>2, <1>3
<1> QED BY <1>4, Zenon DEF side!Shown, queue, total

\* A step later as well.
LEMMA ShownNext ==
  (Inv /\ TotalsExact => side!Shown)'
BY ShownHolds, PTL

-----------------------------------------------------------------------------
\* Every operation is the operation of BookSide.

\* A sequence is a function on the numbers up to its length.
LEMMA SeqIsFunction ==
  ASSUME NEW E, NEW s \in Seq(E), NEW n, Len(s) = n
  PROVE  s = [i \in 1 .. n |-> s[i]]
<1>1. s \in [1 .. n -> E]
  BY LenProperties, Zenon
<1> QED BY <1>1

\* The queue of a tick whose orders keep their priorities is read as before,
\* and shows the same if nothing of them is filled.
LEMMA UntouchedTick ==
  ASSUME Inv, Inv', NEW t \in Ticks, AtTick(t)' = AtTick(t),
         \A n \in AtTick(t) : nodes'[n].priority = nodes[n].priority
  PROVE  /\ Lists(Walk(t), t) /\ Entries[Walk(t)] = Waiting(Walk(t))
         /\ Entries[Walk(t)]' =
              [i \in DOMAIN Walk(t) |->
                 [order |-> Walk(t)[i], quantity |-> nodes'[Walk(t)[i]].remaining_quantity]]
         /\ (\A n \in AtTick(t) : SameOrder(n)) => Entries[Walk(t)]' = Entries[Walk(t)]
<1>1. PICK q : Lists(q, t) /\ Walk(t) = q
  BY WalkLists
<1>2. Entries[Walk(t)] = Waiting(q)
  BY <1>1, QueueIs DEF Inv
<1>3. Lists(q, t)'
  BY <1>1 DEF Lists
<1>4. Entries[Walk(t)]' = Waiting(q)'
  BY <1>3, QueueNext DEF Inv
<1>5. Waiting(q)' =
        [i \in DOMAIN q |-> [order |-> q[i], quantity |-> nodes'[q[i]].remaining_quantity]]
  BY DEF Waiting
<1>6. ASSUME \A n \in AtTick(t) : SameOrder(n) PROVE Waiting(q)' = Waiting(q)
  <2>1. \A i \in DOMAIN q : q[i] \in AtTick(t)
    BY <1>1 DEF Lists
  <2>2. \A i \in DOMAIN q : nodes'[q[i]].remaining_quantity = nodes[q[i]].remaining_quantity
    BY <2>1, <1>6 DEF SameOrder
  <2> QED BY <2>2 DEF Waiting
<1>7. Entries[Walk(t)]' =
        [i \in DOMAIN Walk(t) |->
           [order |-> Walk(t)[i], quantity |-> nodes'[Walk(t)[i]].remaining_quantity]]
  BY <1>1, <1>4, <1>5, Zenon
<1>8. (\A n \in AtTick(t) : SameOrder(n)) => Entries[Walk(t)]' = Entries[Walk(t)]
  BY <1>2, <1>4, <1>6
<1> QED BY <1>1, <1>2, <1>7, <1>8, Zenon

\* An operation of BookSide: what it does at one tick, the others untouched.
LEMMA StepAt ==
  ASSUME Inv, Inv', TotalsExact', NEW t \in Ticks, side_' = side_,
         \A u \in Ticks : u # t => Entries[Walk(u)]' = Entries[Walk(u)],
         side!Operation(t)
  PROVE  side!Next
<1>1. side!Shown'
  BY ShownNext
<1>2. (side_ = "BUY")' = (side_ = "BUY")
  OBVIOUS
<1>3. \A u \in Ticks \ {t} :
        [v \in Ticks |-> Entries[Walk(v)]]'[u] = [v \in Ticks |-> Entries[Walk(v)]][u]
  OBVIOUS
<1> QED BY <1>1, <1>2, <1>3 DEF side!Next

\* AddOrder appends an order that waits nowhere.
LEMMA AddIsAdd ==
  ASSUME Inv, Inv', TotalsExact', NEW t \in Ticks, NEW n \in Nodes,
         NEW quantity \in Quantities, AddOrder(t, n, quantity)
  PROVE  side!Next
<1>1. /\ quantity \in Nat /\ nodes[n].level \notin Ticks
      /\ nodes'[n].level = t /\ nodes'[n].remaining_quantity = quantity
      /\ nodes'[n].priority = levels_[t].next_priority
      /\ \A m \in Nodes : m # n => SameOrder(m)
      /\ \A u \in Ticks : u # t => levels_'[u] = levels_[u]
      /\ side_' = side_
  BY AddEffect
<1>2. ASSUME NEW u \in Ticks, u # t PROVE Entries[Walk(u)]' = Entries[Walk(u)]
  <2>1. AtTick(u)' = AtTick(u) /\ n \notin AtTick(u)
    BY <1>1, <1>2, OtherTicks
  <2>2. \A m \in AtTick(u) : SameOrder(m) /\ nodes'[m].priority = nodes[m].priority
    BY <1>1, <2>1 DEF AtTick, SameOrder
  <2> QED BY <2>1, <2>2, UntouchedTick
<1>3. PICK q : q = Walk(t) /\ Lists(q, t)
  BY WalkLists
<1>4. PICK c \in Nat : c = Cardinality(AtTick(t))
  BY AtTickFinite
<1>5. /\ Entries[Walk(t)] = Waiting(q) /\ DOMAIN q = 1 .. c
      /\ Waiting(q) \in [1 .. c -> [order : Nodes, quantity : Nat]]
      /\ Waiting(q) \in Seq([order : Nodes, quantity : Nat]) /\ Len(Waiting(q)) = c
  BY <1>3, <1>4, EntriesAre DEF Inv
<1>6. AtTick(t)' = AtTick(t) \cup {n} /\ n \notin AtTick(t)
  BY <1>1 DEF AtTick, SameOrder
<1>7. Cardinality(AtTick(t))' = c + 1
  BY <1>4, <1>6, AtTickFinite, FS_AddElement
<1> DEFINE r == [i \in 1 .. (c + 1) |-> IF i = c + 1 THEN n ELSE q[i]]
<1>8. q \in [1 .. c -> AtTick(t)]
      /\ \A i, j \in 1 .. c : i < j =>
           q[i] # q[j] /\ nodes[q[i]].priority <= nodes[q[j]].priority
  BY <1>3, <1>4 DEF Lists
<1>9. \A i \in 1 .. (c + 1) : r[i] = (IF i = c + 1 THEN n ELSE q[i]) /\ (i # c + 1 => i \in 1 .. c)
  OBVIOUS
<1>10. r \in [1 .. (c + 1) -> AtTick(t)']
  BY <1>6, <1>8
<1>11. \A i \in 1 .. c : /\ q[i] \in AtTick(t) /\ q[i] # n
                         /\ nodes'[q[i]].priority = nodes[q[i]].priority
                         /\ nodes'[q[i]].remaining_quantity = nodes[q[i]].remaining_quantity
                         /\ nodes[q[i]].priority <= nodes'[n].priority
  <2> SUFFICES ASSUME NEW i \in 1 .. c
               PROVE  /\ q[i] \in AtTick(t) /\ q[i] # n
                      /\ nodes'[q[i]].priority = nodes[q[i]].priority
                      /\ nodes'[q[i]].remaining_quantity = nodes[q[i]].remaining_quantity
                      /\ nodes[q[i]].priority <= nodes'[n].priority
    OBVIOUS
  <2>1. q[i] \in AtTick(t) /\ q[i] # n /\ q[i] \in Nodes
    BY <1>6, <1>8 DEF AtTick
  <2>2. SameOrder(q[i])
    BY <2>1, <1>1
  <2>3. LinkedAt(q[i], t)
    BY <2>1 DEF Inv, Linked, AtTick
  <2>4. nodes[q[i]].priority \in Nat /\ levels_[t].next_priority \in Nat
    BY <2>1 DEF Inv, TypeOK, Node, Level
  <2> QED BY <2>1, <2>2, <2>3, <2>4, <1>1 DEF SameOrder, LinkedAt
<1> HIDE DEF r
<1>12. ASSUME NEW i \in 1 .. (c + 1), NEW j \in 1 .. (c + 1), i < j
       PROVE  r[i] # r[j] /\ nodes'[r[i]].priority <= nodes'[r[j]].priority
  <2>1. i \in 1 .. c /\ i # c + 1
    BY <1>12
  <2>2. CASE j = c + 1
    BY <2>1, <2>2, <1>9, <1>11
  <2>3. CASE j # c + 1
    BY <2>1, <2>3, <1>8, <1>9, <1>11, <1>12
  <2> QED BY <2>2, <2>3
<1>13. Lists(r, t)'
  BY <1>7, <1>10, <1>12 DEF Lists
<1>14. Entries[Walk(t)]' = Waiting(r)'
  BY <1>13, QueueNext DEF Inv
<1> DEFINE entry == [order |-> n, quantity |-> quantity]
           w == Waiting(q)
<1>15. \A i \in 1 .. c : w[i] = [order |-> q[i], quantity |-> nodes[q[i]].remaining_quantity]
  BY <1>5 DEF Waiting
<1>16. Waiting(r)' = [i \in 1 .. (c + 1) |-> IF i = c + 1 THEN entry ELSE w[i]]
  <2>1. Waiting(r)' = [i \in 1 .. (c + 1) |->
                         [order |-> r[i], quantity |-> nodes'[r[i]].remaining_quantity]]
    BY <1>10 DEF Waiting
  <2>2. \A i \in 1 .. (c + 1) :
          [order |-> r[i], quantity |-> nodes'[r[i]].remaining_quantity] =
            IF i = c + 1 THEN entry ELSE w[i]
    <3> HIDE DEF w
    <3> QED BY <1>1, <1>9, <1>11, <1>15
  <2> HIDE DEF w, entry
  <2> QED BY <2>1, <2>2
<1>17. Append(w, entry) = [i \in 1 .. (c + 1) |-> IF i = c + 1 THEN entry ELSE w[i]]
  <2> DEFINE E == [order : Nodes, quantity : Nat]
  <2>1. w \in Seq(E) /\ entry \in E /\ Len(w) = c
    BY <1>1, <1>5
  <2> HIDE DEF w, entry, E
  <2> DEFINE a == Append(w, entry)
  <2>2. /\ a \in Seq(E) /\ Len(a) = c + 1 /\ a[c + 1] = entry
        /\ \A i \in 1 .. c : a[i] = w[i]
    BY <2>1, AppendProperties
  <2>3. \A i \in 1 .. (c + 1) : a[i] = IF i = c + 1 THEN entry ELSE w[i]
    BY <2>2
  <2> HIDE DEF a
  <2>4. a = [i \in 1 .. (c + 1) |-> a[i]]
    BY <2>2, SeqIsFunction, Zenon
  <2>5. a = [i \in 1 .. (c + 1) |-> IF i = c + 1 THEN entry ELSE w[i]]
    BY <2>3, <2>4
  <2> QED BY <2>5 DEF a
<1> HIDE DEF entry, w
<1>18. Entries[Walk(t)]' = Append(Entries[Walk(t)], entry)
  BY <1>5, <1>14, <1>16, <1>17, Zenon DEF w
<1>19. ~ side!Waits(n)
  <2> SUFFICES ASSUME NEW u \in Ticks, NEW i \in DOMAIN Entries[Walk(u)],
                      Entries[Walk(u)][i].order = n
               PROVE  FALSE
    BY DEF side!Waits
  <2>1. PICK p : p = Walk(u) /\ Lists(p, u)
    BY WalkLists
  <2>2. Entries[Walk(u)] = Waiting(p) /\ DOMAIN p = 1 .. Cardinality(AtTick(u))
    BY <2>1, EntriesAre DEF Inv
  <2>3. p[i] = n /\ p[i] \in AtTick(u)
    BY <2>1, <2>2 DEF Waiting, Lists
  <2> QED BY <2>3, <1>1 DEF AtTick
<1>20. side!Operation(t)
  <2>1. [v \in Ticks |-> Entries[Walk(v)]][t] = Entries[Walk(t)]
        /\ [v \in Ticks |-> Entries[Walk(v)]]'[t] = Entries[Walk(t)]'
    OBVIOUS
  <2>2. Entries[Walk(t)]' = side!AddOrder(Entries[Walk(t)], n, quantity)
    BY <1>18 DEF side!AddOrder, entry
  <2> QED BY <2>1, <2>2, <1>19 DEF side!Operation
<1> QED BY <1>1, <1>2, <1>20, StepAt

\* ApplyFill takes the quantity from the entry of the order.
LEMMA FillIsFill ==
  ASSUME Inv, Inv', TotalsExact', NEW n \in Nodes, NEW quantity \in Quantities,
         ApplyFill(n, quantity)
  PROVE  side!Next
<1>1. PICK t \in Ticks, rest \in Nat :
        /\ nodes[n].level = t /\ rest = nodes[n].remaining_quantity - quantity
        /\ quantity \in Nat /\ nodes[n].remaining_quantity \in Nat
        /\ nodes'[n].level = t /\ nodes'[n].priority = nodes[n].priority
        /\ nodes'[n].remaining_quantity = rest
        /\ \A m \in Nodes : m # n => SameOrder(m)
        /\ \A u \in Ticks : u # t => levels_'[u] = levels_[u]
        /\ side_' = side_
  BY FillEffect
<1>2. ASSUME NEW u \in Ticks, u # t PROVE Entries[Walk(u)]' = Entries[Walk(u)]
  <2>1. AtTick(u)' = AtTick(u) /\ n \notin AtTick(u)
    BY <1>1, <1>2, OtherTicks
  <2>2. \A m \in AtTick(u) : SameOrder(m) /\ nodes'[m].priority = nodes[m].priority
    BY <1>1, <2>1 DEF AtTick, SameOrder
  <2> QED BY <2>1, <2>2, UntouchedTick
<1>3. AtTick(t)' = AtTick(t)
      /\ \A m \in AtTick(t) : nodes'[m].priority = nodes[m].priority
  BY <1>1 DEF AtTick, SameOrder
<1>4. PICK q : q = Walk(t) /\ Lists(q, t)
  BY WalkLists
<1>5. /\ Entries[Walk(t)] = Waiting(q)
      /\ Entries[Walk(t)]' =
           [i \in DOMAIN q |-> [order |-> q[i], quantity |-> nodes'[q[i]].remaining_quantity]]
  BY <1>3, <1>4, UntouchedTick, Zenon
<1>6. \A i \in DOMAIN q : q[i] \in Nodes
  BY <1>4 DEF Lists, AtTick
<1>7. PICK k \in DOMAIN q : q[k] = n
  <2>1. n \in AtTick(t)
    BY <1>1 DEF AtTick
  <2>2. DOMAIN q = 1 .. Cardinality(AtTick(t))
    BY <1>4 DEF Lists
  <2>3. \A m \in AtTick(t) : \E i \in 1 .. Cardinality(AtTick(t)) : q[i] = m
    BY <1>4, Chain DEF Inv
  <2> QED BY <2>1, <2>2, <2>3
<1>8. \A i \in DOMAIN q : i # k => q[i] # n
  <2>1. DOMAIN q = 1 .. Cardinality(AtTick(t)) /\ Cardinality(AtTick(t)) \in Nat
    BY <1>4, AtTickFinite DEF Lists
  <2>2. \A i, j \in DOMAIN q : i < j => q[i] # q[j]
    BY <1>4, <2>1 DEF Lists
  <2> QED BY <1>7, <2>1, <2>2
<1> DEFINE w == Waiting(q)
<1>9. /\ DOMAIN w = DOMAIN q
      /\ \A i \in DOMAIN q :
           w[i] = [order |-> q[i], quantity |-> nodes[q[i]].remaining_quantity]
  BY DEF Waiting
<1>10. [w EXCEPT ![k].quantity = @ - quantity] =
         [i \in DOMAIN q |-> [order |-> q[i], quantity |-> nodes'[q[i]].remaining_quantity]]
  <2>1. [w EXCEPT ![k].quantity = @ - quantity] =
          [i \in DOMAIN q |-> IF i = k THEN [w[k] EXCEPT !.quantity = @ - quantity] ELSE w[i]]
    <3>1. w = [i \in DOMAIN q |-> w[i]]
      BY DEF Waiting
    <3> HIDE DEF w
    <3> QED BY <1>9, <3>1
  <2>2. [w[k] EXCEPT !.quantity = @ - quantity] = [order |-> n, quantity |-> rest]
    <3> HIDE DEF w
    <3> QED BY <1>1, <1>7, <1>9
  <2>3. \A i \in DOMAIN q :
          [order |-> q[i], quantity |-> nodes'[q[i]].remaining_quantity] =
            IF i = k THEN [order |-> n, quantity |-> rest] ELSE w[i]
    <3>1. ASSUME NEW i \in DOMAIN q, i # k
          PROVE  nodes'[q[i]].remaining_quantity = nodes[q[i]].remaining_quantity
      BY <1>1, <1>6, <1>8, <3>1 DEF SameOrder
    <3> HIDE DEF w
    <3> QED BY <1>1, <1>7, <1>9, <3>1
  <2> HIDE DEF w
  <2> QED BY <2>1, <2>2, <2>3
<1>11. side!Operation(t)
  <2>1. [v \in Ticks |-> Entries[Walk(v)]][t] = w
        /\ [v \in Ticks |-> Entries[Walk(v)]]'[t] = Entries[Walk(t)]'
    BY <1>5
  <2>2. Entries[Walk(t)]' = side!FillOrder(w, k, quantity)
    BY <1>5, <1>10, Zenon DEF side!FillOrder
  <2>3. k \in DOMAIN w /\ quantity <= w[k].quantity
    BY <1>1, <1>7, <1>9
  <2> HIDE DEF w
  <2> QED BY <2>1, <2>2, <2>3 DEF side!Operation
<1> QED BY <1>1, <1>2, <1>11, StepAt

\* RemoveOrder takes the entry of the order out, wherever it stands.
LEMMA RemoveIsRemove ==
  ASSUME Inv, Inv', TotalsExact', NEW n \in Nodes, RemoveOrder(n)
  PROVE  side!Next
<1>1. PICK t \in Ticks :
        /\ nodes[n].level = t
        /\ nodes'[n].level \notin Ticks
        /\ \A m \in Nodes : m # n => SameOrder(m)
        /\ \A u \in Ticks : u # t => levels_'[u] = levels_[u]
        /\ side_' = side_
  BY RemoveEffect
<1>2. ASSUME NEW u \in Ticks, u # t PROVE Entries[Walk(u)]' = Entries[Walk(u)]
  <2>1. AtTick(u)' = AtTick(u) /\ n \notin AtTick(u)
    BY <1>1, <1>2, OtherTicks
  <2>2. \A m \in AtTick(u) : SameOrder(m) /\ nodes'[m].priority = nodes[m].priority
    BY <1>1, <2>1 DEF AtTick, SameOrder
  <2> QED BY <2>1, <2>2, UntouchedTick
<1>3. AtTick(t)' = AtTick(t) \ {n} /\ n \in AtTick(t)
  BY <1>1 DEF AtTick, SameOrder
<1>4. PICK q : q = Walk(t) /\ Lists(q, t)
  BY WalkLists
<1>5. PICK c \in Nat : c = Cardinality(AtTick(t))
  BY AtTickFinite
<1>6. /\ Entries[Walk(t)] = Waiting(q) /\ DOMAIN q = 1 .. c
      /\ Waiting(q) \in Seq([order : Nodes, quantity : Nat]) /\ Len(Waiting(q)) = c
  BY <1>4, <1>5, EntriesAre DEF Inv
<1>7. Cardinality(AtTick(t))' = c - 1
  BY <1>3, <1>5, AtTickFinite, FS_RemoveElement
<1>8. /\ q \in [1 .. c -> AtTick(t)]
      /\ \A i, j \in 1 .. c : i < j =>
           q[i] # q[j] /\ nodes[q[i]].priority <= nodes[q[j]].priority
  BY <1>4, <1>5 DEF Lists
<1>9. PICK k \in 1 .. c : q[k] = n
  BY <1>3, <1>4, <1>5, Chain DEF Inv
<1>10. \A i \in 1 .. c : i # k => /\ q[i] \in AtTick(t) /\ q[i] # n
                                 /\ nodes'[q[i]].priority = nodes[q[i]].priority
                                 /\ nodes'[q[i]].remaining_quantity = nodes[q[i]].remaining_quantity
  <2> SUFFICES ASSUME NEW i \in 1 .. c, i # k
               PROVE  /\ q[i] \in AtTick(t) /\ q[i] # n
                      /\ nodes'[q[i]].priority = nodes[q[i]].priority
                      /\ nodes'[q[i]].remaining_quantity = nodes[q[i]].remaining_quantity
    OBVIOUS
  <2>1. q[i] \in AtTick(t) /\ q[i] # n
    BY <1>8, <1>9
  <2>2. SameOrder(q[i])
    BY <2>1, <1>1 DEF AtTick
  <2> QED BY <2>1, <2>2 DEF SameOrder
<1> DEFINE past(i) == IF i < k THEN i ELSE i + 1
           r == [i \in 1 .. (c - 1) |-> q[past(i)]]
<1>11. \A i \in 1 .. (c - 1) : past(i) \in 1 .. c /\ past(i) # k
  OBVIOUS
<1>12. \A i, j \in 1 .. (c - 1) : i < j => past(i) < past(j)
  OBVIOUS
<1>13. Lists(r, t)'
  <2>1. r \in [1 .. (c - 1) -> AtTick(t)']
    <3> HIDE DEF past
    <3> QED BY <1>3, <1>10, <1>11
  <2>2. ASSUME NEW i \in 1 .. (c - 1), NEW j \in 1 .. (c - 1), i < j
        PROVE  r[i] # r[j] /\ nodes'[r[i]].priority <= nodes'[r[j]].priority
    <3>1. /\ past(i) \in 1 .. c /\ past(j) \in 1 .. c /\ past(i) < past(j)
          /\ past(i) # k /\ past(j) # k
      BY <2>2, <1>11, <1>12
    <3> HIDE DEF past
    <3>2. r[i] = q[past(i)] /\ r[j] = q[past(j)]
      OBVIOUS
    <3> QED BY <3>1, <3>2, <1>8, <1>10
  <2> HIDE DEF r
  <2> QED BY <2>1, <2>2, <1>7 DEF Lists
<1>14. Entries[Walk(t)]' = Waiting(r)'
  BY <1>13, QueueNext DEF Inv
<1> DEFINE w == Waiting(q)
<1>15. \A i \in 1 .. c : w[i] = [order |-> q[i], quantity |-> nodes[q[i]].remaining_quantity]
  BY <1>6 DEF Waiting
<1>16. Waiting(r)' = [i \in 1 .. (c - 1) |-> w[past(i)]]
  <2>1. \A i \in 1 .. (c - 1) :
          [order |-> r[i], quantity |-> nodes'[r[i]].remaining_quantity] = w[past(i)]
    <3> SUFFICES ASSUME NEW i \in 1 .. (c - 1)
                 PROVE  [order |-> r[i], quantity |-> nodes'[r[i]].remaining_quantity] = w[past(i)]
      OBVIOUS
    <3>1. past(i) \in 1 .. c /\ past(i) # k
      BY <1>11
    <3> HIDE DEF w, past
    <3>2. r[i] = q[past(i)]
      OBVIOUS
    <3> QED BY <3>1, <3>2, <1>10, <1>15
  <2>2. DOMAIN r = 1 .. (c - 1)
    OBVIOUS
  <2> HIDE DEF r, w, past
  <2> QED BY <2>1, <2>2 DEF Waiting
<1>17. SubSeq(w, 1, k - 1) \o SubSeq(w, k + 1, Len(w)) = [i \in 1 .. (c - 1) |-> w[past(i)]]
  <2> DEFINE E == [order : Nodes, quantity : Nat]
             a == SubSeq(w, 1, k - 1)
             b == SubSeq(w, k + 1, Len(w))
  <2>1. w \in Seq(E) /\ Len(w) = c /\ \A i \in 1 .. c : w[i] \in E
    <3>1. w \in Seq(E) /\ Len(w) = c
      BY <1>6
    <3> HIDE DEF w, E
    <3> QED BY <3>1, LenProperties
  <2> HIDE DEF w, E
  <2>2. a \in Seq(E) /\ Len(a) = k - 1 /\ \A i \in 1 .. (k - 1) : a[i] = w[i]
    BY <2>1, SubSeqProperties
  <2>3. b \in Seq(E) /\ Len(b) = c - k /\ \A i \in 1 .. (c - k) : b[i] = w[k + i]
    BY <2>1, SubSeqProperties
  <2> HIDE DEF a, b
  <2> DEFINE s == a \o b
  <2>4. /\ s \in Seq(E) /\ Len(s) = c - 1
        /\ \A i \in 1 .. (c - 1) : s[i] = IF i < k THEN a[i] ELSE b[i - (k - 1)]
    <3>1. /\ s \in Seq(E) /\ Len(s) = Len(a) + Len(b)
          /\ \A i \in 1 .. Len(a) + Len(b) : s[i] = IF i <= Len(a) THEN a[i] ELSE b[i - Len(a)]
      BY <2>2, <2>3, ConcatProperties
    <3>2. Len(a) = k - 1 /\ Len(b) = c - k /\ (k - 1) + (c - k) = c - 1
          /\ \A i \in 1 .. (c - 1) : i <= k - 1 <=> i < k
      BY <2>2, <2>3
    <3> HIDE DEF s
    <3> QED BY <3>1, <3>2
  <2> HIDE DEF s
  <2>5. s = [i \in 1 .. (c - 1) |-> s[i]]
    BY <2>4, SeqIsFunction, Zenon
  <2>6. \A i \in 1 .. (c - 1) : s[i] = w[past(i)]
    BY <2>2, <2>3, <2>4
  <2> HIDE DEF past
  <2>7. s = [i \in 1 .. (c - 1) |-> w[past(i)]]
    BY <2>5, <2>6
  <2> QED BY <2>7 DEF s, a, b
<1> HIDE DEF w, past, r
<1>18. side!Operation(t)
  <2>1. [v \in Ticks |-> Entries[Walk(v)]][t] = w
        /\ [v \in Ticks |-> Entries[Walk(v)]]'[t] = Entries[Walk(t)]'
    BY <1>6 DEF w
  <2>2. Entries[Walk(t)]' = side!RemoveOrder(w, k)
    BY <1>14, <1>16, <1>17, Zenon DEF side!RemoveOrder, side!RemoveAt
  <2>3. k \in DOMAIN w
    BY <1>6 DEF w
  <2> QED BY <2>1, <2>2, <2>3 DEF side!Operation
<1> QED BY <1>1, <1>2, <1>18, StepAt

-----------------------------------------------------------------------------
\* The side of a book, whatever is added, filled and cancelled in whatever
\* order, is one side of the abstract book: no order lost or listed twice,
\* arrival order kept, totals and best tick those of the queues.
THEOREM BookSideImplemented ==
  Spec => ImplementsBookSide
<1>1. Inv /\ Inv' /\ TotalsExact /\ TotalsExact' /\ [Next]_vars => [side!Next]_(side!vars)
  <2> SUFFICES ASSUME Inv, Inv', TotalsExact, TotalsExact', [Next]_vars
               PROVE  [side!Next]_(side!vars)
    OBVIOUS
  <2>1. ASSUME NEW t \in Ticks, NEW n \in Nodes, NEW quantity \in Quantities,
               AddOrder(t, n, quantity)
        PROVE  side!Next
    BY <2>1, AddIsAdd
  <2>2. ASSUME NEW n \in Nodes, NEW quantity \in Quantities, ApplyFill(n, quantity)
        PROVE  side!Next
    BY <2>2, FillIsFill
  <2>3. ASSUME NEW n \in Nodes, RemoveOrder(n) PROVE side!Next
    BY <2>3, RemoveIsRemove
  <2>4. CASE UNCHANGED vars
    <3>1. side_' = side_ /\ levels_' = levels_ /\ nodes' = nodes /\ best_tick_' = best_tick_
      BY <2>4 DEF vars, bitmaps
    <3>2. \A t \in Ticks : Walk(t)' = Walk(t)
      BY <3>1 DEF Walk
    <3>3. Entries' = Entries
      BY <3>1 DEF Entries
    <3> QED BY <3>1, <3>2, <3>3 DEF side!vars
  <2> QED BY <2>1, <2>2, <2>3, <2>4 DEF Next
<1>2. Init => side!Init
  <2> SUFFICES ASSUME Init PROVE side!Init
    OBVIOUS
  <2>1. Inv /\ side!Shown
    BY InitInv, TotalsStart, ShownHolds
  <2>2. ASSUME NEW t \in Ticks PROVE Entries[Walk(t)] = << >>
    <3>1. PICK q : q = Walk(t) /\ Lists(q, t)
      BY <2>1, WalkLists
    <3>2. AtTick(t) = {}
      BY GridAssumption DEF AtTick, Init, FreeNode, kInvalidTick, Ticks
    <3>3. Cardinality(AtTick(t)) = 0
      BY <3>2, FS_EmptySet
    <3>4. Entries[q] = Waiting(q) /\ DOMAIN q = 1 .. 0
      BY <2>1, <3>1, <3>3, EntriesAre DEF Inv
    <3>5. Waiting(q) = << >>
      BY <3>4 DEF Waiting
    <3> QED BY <3>1, <3>4, <3>5, Zenon
  <2> QED BY <2>1, <2>2 DEF side!Init
<1> QED BY <1>1, <1>2, Invariance, TotalsCorrect, PTL DEF Spec, ImplementsBookSide, side!Spec
=============================================================================
