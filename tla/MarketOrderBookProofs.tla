----------------------- MODULE MarketOrderBookProofs -----------------------
(***************************************************************************)
(* The client's book keeps what it promises, for any band of prices, any   *)
(* orders and sizes:                                                       *)
(*   - the ring of a side visits its prices from the best to the worst     *)
(*     (SortedRings);                                                      *)
(*   - rings, tables and the kept best prices implement the queues of      *)
(*     ClientBook (BookImplemented).                                       *)
(* The inductive invariant says of a ring of levels where every link leads *)
(* in terms of the set of its prices, and of a ring of orders that there   *)
(* is a list of the orders of the price that it goes round.  The walks     *)
(* along the links are then shown to be these lists.                       *)
(***************************************************************************)
EXTENDS MarketOrderBook, FiniteSetTheorems, SequenceTheorems, WellFoundedInduction,
        TLAPS

-----------------------------------------------------------------------------
\* Lists of finite sets.

\* A non-empty set of numbers has a least one.
LEMMA LeastExists ==
  ASSUME NEW T \in SUBSET Nat, T # {}
  PROVE  \E x \in T : \A y \in T : x <= y
<1>1. PICK m \in T : \A k \in T : <<k, m>> \notin OpToRel(<, Nat)
  BY WFMin, NatLessThanWellFounded, Zenon
<1>2. \A k \in T : ~ (k < m)
  BY <1>1, Zenon DEF OpToRel
<1> QED BY <1>2

\* A finite set every part of which has an element before all the others can
\* be enumerated in that order.
LEMMA Enumerable ==
  ASSUME NEW S, IsFiniteSet(S), NEW R,
         \A T \in SUBSET S : T # {} => \E m \in T : \A x \in T \ {m} : <<m, x>> \in R
  PROVE  \E q \in [1 .. Cardinality(S) -> S] :
           \A i, j \in 1 .. Cardinality(S) : i < j => <<q[i], q[j]>> \in R
<1> DEFINE Enumerates(q, T) ==
             /\ q \in [1 .. Cardinality(T) -> T]
             /\ \A i, j \in 1 .. Cardinality(T) : i < j => <<q[i], q[j]>> \in R
           Bad == {n \in Nat : \E T \in SUBSET S :
                                 Cardinality(T) = n /\ ~ \E q : Enumerates(q, T)}
<1>1. \A T \in SUBSET S : IsFiniteSet(T) /\ Cardinality(T) \in Nat
  BY FS_Subset, FS_CardinalityType
<1>2. SUFFICES ASSUME Bad # {} PROVE FALSE
  BY <1>1
<1>3. PICK n \in Bad : \A k \in Bad : n <= k
  BY <1>2, LeastExists, Zenon
<1>4. PICK T \in SUBSET S : Cardinality(T) = n /\ ~ \E q : Enumerates(q, T)
  BY <1>3
<1>5. n \in Nat
  BY <1>3
<1>6. CASE T = {}
  <2>1. n = 0
    BY <1>4, <1>6, FS_EmptySet
  <2>2. Enumerates(<< >>, T)
    BY <2>1, <1>4, <1>6
  <2> QED BY <2>2, <1>4
<1>7. CASE T # {}
  <2>1. PICK m \in T : \A x \in T \ {m} : <<m, x>> \in R
    BY <1>7
  <2> DEFINE U == T \ {m}
  <2>2. U \in SUBSET S /\ Cardinality(U) = n - 1 /\ n - 1 \in Nat
    <3>1. IsFiniteSet(T)
      BY <1>1
    <3>2. Cardinality(U) = n - 1
      BY <3>1, <1>4, <2>1, FS_RemoveElement
    <3>3. U \in SUBSET S
      OBVIOUS
    <3> HIDE DEF U
    <3> QED BY <3>2, <3>3, <1>1, <1>5
  <2>3. n - 1 \notin Bad
    BY <1>3, <2>2
  <2>4. PICK q : Enumerates(q, U)
    BY <2>2, <2>3
  <2>5. /\ q \in [1 .. (n - 1) -> U]
        /\ \A i, j \in 1 .. (n - 1) : i < j => <<q[i], q[j]>> \in R
    BY <2>2, <2>4
  <2> HIDE DEF Enumerates, Bad
  <2> DEFINE r == [i \in 1 .. n |-> IF i = 1 THEN m ELSE q[i - 1]]
  <2>6. \A i \in 1 .. n : i # 1 => i - 1 \in 1 .. (n - 1) /\ q[i - 1] \in U
    BY <1>5, <2>5
  <2>7. r \in [1 .. n -> T]
    BY <2>1, <2>6
  <2>8. ASSUME NEW i \in 1 .. n, NEW j \in 1 .. n, i < j
        PROVE  <<r[i], r[j]>> \in R
    <3>1. j # 1 /\ j - 1 \in 1 .. (n - 1) /\ q[j - 1] \in U /\ r[j] = q[j - 1]
      BY <2>6, <2>8, <1>5
    <3>2. CASE i = 1
      BY <3>1, <3>2, <2>1
    <3>3. CASE i # 1
      <4>1. i - 1 \in 1 .. (n - 1) /\ r[i] = q[i - 1] /\ i - 1 < j - 1
        BY <3>3, <2>6, <2>8, <1>5
      <4> QED BY <4>1, <3>1, <2>5
    <3> QED BY <3>2, <3>3
  <2> HIDE DEF r
  <2>9. Enumerates(r, T)
    BY <2>7, <2>8, <1>4 DEF Enumerates
  <2> QED BY <2>9, <1>4
<1> QED BY <1>6, <1>7

\* Such an enumeration has every element.
LEMMA EnumerationComplete ==
  ASSUME NEW S, IsFiniteSet(S), NEW q \in [1 .. Cardinality(S) -> S],
         \A i, j \in 1 .. Cardinality(S) : i < j => q[i] # q[j]
  PROVE  \A x \in S : \E i \in 1 .. Cardinality(S) : q[i] = x
<1> DEFINE c == Cardinality(S)
<1>1. c \in Nat
  BY FS_CardinalityType
<1>2. \A i, j \in 1 .. c : i # j => q[i] # q[j]
  BY <1>1
<1>3. q \in Injection(1 .. c, S)
  BY <1>2 DEF Injection, IsInjective
<1>4. IsFiniteSet(1 .. c) /\ Cardinality(1 .. c) = c
  BY <1>1, FS_Interval
<1>5. q \in Surjection(1 .. c, S)
  BY <1>3, <1>4, FS_Injection
<1> QED BY <1>5 DEF Surjection

-----------------------------------------------------------------------------
\* The invariant, of given tables.

Typed(orders, levels, bests) ==
  /\ orders \in [OrderIds -> Order \cup {None}]
  /\ levels \in [Prices -> Level \cup {None}]
  /\ bests \in [Sides -> Prices \cup {None}]

\* The links of a set of prices: from every one to the best of the worse ones,
\* or round to the best of all, and back.
LinksOf(L, side, next, prev, best) ==
  /\ best \in L /\ \A q \in L : q = best \/ Worse(side, q, best)
  /\ \A p \in L : next[p] \in L /\ prev[p] \in L
  /\ \A p \in L : prev[next[p]] = p /\ next[prev[p]] = p
  /\ \A p \in L : (\A q \in L : ~ Worse(side, q, p)) => next[p] = best
  /\ \A p, q \in L : Worse(side, q, p) => /\ Worse(side, next[p], p)
                                          /\ q = next[p] \/ Worse(side, q, next[p])
LevelsLinked(levels, side, best) ==
  LET L == LevelsOf(levels, side)
  IN /\ L = {} => best = None
     /\ L # {} => LinksOf(L, side, [p \in L |-> levels[p].next_entry_],
                          [p \in L |-> levels[p].prev_entry_], best)

\* The places round a ring of k.
After(k, i) == IF i = k THEN 1 ELSE i + 1
Before(k, i) == IF i = 1 THEN k ELSE i - 1

\* q lists k orders, the orders of price p: the ring goes round them in that
\* order.
Goes(orders, first, k, q) ==
  /\ k \in Nat \ {0} /\ q \in [1 .. k -> OrderIds]
  /\ \A i, j \in 1 .. k : q[i] = q[j] => i = j
  /\ q[1] = first
  /\ \A i \in 1 .. k :
       /\ orders[q[i]].next_order_ = q[After(k, i)]
       /\ orders[q[i]].prev_order_ = q[Before(k, i)]
OrdersListed(orders, first, p, k, q) ==
  /\ Goes(orders, first, k, q)
  /\ HeldAt(orders, p) = {q[i] : i \in 1 .. k}
OrdersLinked(orders, levels, p) ==
  /\ levels[p] = None => HeldAt(orders, p) = {}
  /\ levels[p] # None => \E k, q : OrdersListed(orders, levels[p].first_mkt_order_, p, k, q)
  /\ \A o \in HeldAt(orders, p) : orders[o].side = levels[p].side

ShownIsBest(orders, levels, bests, shown) ==
  shown = [side \in Sides |-> BestShown(orders, levels, bests[side])]

Inv == /\ Typed(oid_to_order_, price_orders_at_price_, by_price_)
       /\ \A side \in Sides : LevelsLinked(price_orders_at_price_, side, by_price_[side])
       /\ \A p \in Prices : OrdersLinked(oid_to_order_, price_orders_at_price_, p)
       /\ ShownIsBest(oid_to_order_, price_orders_at_price_, by_price_, bbo_)

-----------------------------------------------------------------------------
\* Prices, from the better to the worse.

\* Any two prices of a side are ordered.
LEMMA WorseOrder ==
  ASSUME NEW side \in Sides
  PROVE  /\ \A p \in Prices : ~ Worse(side, p, p)
         /\ \A p, q \in Prices : p = q \/ Worse(side, p, q) \/ Worse(side, q, p)
         /\ \A p, q, r \in Prices : Worse(side, p, q) /\ Worse(side, q, r) => Worse(side, p, r)
<1>1. CASE side = "BUY"
  BY <1>1, MarketOrderBookAssumption DEF Worse
<1>2. CASE side # "BUY"
  BY <1>2, MarketOrderBookAssumption DEF Worse
<1> QED BY <1>1, <1>2

\* A set of prices has a best one, and one only.
LEMMA BestExists ==
  ASSUME NEW side \in Sides, NEW S \in SUBSET Prices, S # {}
  PROVE  \E p \in S : \A q \in S : ~ Worse(side, p, q)
<1>0. S \in SUBSET Nat
  BY MarketOrderBookAssumption
<1>1. CASE side # "BUY"
  <2>1. PICK p \in S : \A q \in S : p <= q
    BY <1>0, LeastExists, Zenon
  <2> QED BY <2>1, <1>0, <1>1 DEF Worse
<1>2. CASE side = "BUY"
  <2> DEFINE R == {e \in S \X S : e[1] < e[2]}
             c == Cardinality(S)
  <2>1. IsFiniteSet(S) /\ c \in Nat /\ c # 0
    BY FS_Subset, FS_CardinalityType, FS_EmptySet, MarketOrderBookAssumption
  <2>2. ASSUME NEW T \in SUBSET S, T # {}
        PROVE  \E m \in T : \A x \in T \ {m} : <<m, x>> \in R
    <3>1. PICK m \in T : \A x \in T : m <= x
      BY <1>0, <2>2, LeastExists, Zenon
    <3> QED BY <3>1, <1>0
  <2>3. PICK q \in [1 .. c -> S] : \A i, j \in 1 .. c : i < j => <<q[i], q[j]>> \in R
    <3> HIDE DEF R
    <3> QED BY <2>1, <2>2, Enumerable
  <2>4. \A i, j \in 1 .. c : i < j => q[i] < q[j]
    BY <2>3
  <2>5. \A x \in S : \E i \in 1 .. c : q[i] = x
    <3>1. \A i \in 1 .. c : q[i] \in Nat
      BY <1>0
    <3>2. \A i, j \in 1 .. c : i < j => q[i] # q[j]
      <4> HIDE DEF c
      <4> QED BY <2>4, <3>1
    <3> QED BY <2>1, <3>2, EnumerationComplete
  <2>6. c \in 1 .. c /\ q[c] \in S
    BY <2>1
  <2>7. \A x \in S : x <= q[c]
    <3>1. \A i \in 1 .. c : i = c \/ i < c
      BY <2>1
    <3>2. \A i \in 1 .. c : q[i] \in Nat
      BY <1>0
    <3> HIDE DEF c
    <3>3. \A i \in 1 .. c : q[i] <= q[c]
      BY <2>4, <2>6, <3>1, <3>2
    <3> QED BY <2>5, <3>3
  <2>8. \A x \in S : ~ Worse(side, q[c], x)
    <3>1. q[c] \in Nat /\ \A x \in S : x \in Nat
      BY <1>0, <2>6
    <3> HIDE DEF c
    <3> QED BY <2>7, <3>1, <1>2 DEF Worse
  <2> QED BY <2>6, <2>8, Zenon
<1> QED BY <1>1, <1>2

-----------------------------------------------------------------------------
\* The ring of a side as a list.

\* r lists the prices of a side from the best to the worst.
Ranks(levels, side, r) ==
  LET L == LevelsOf(levels, side)
  IN /\ r \in [1 .. Cardinality(L) -> L]
     /\ \A n, k \in 1 .. Cardinality(L) : n < k => Worse(side, r[k], r[n])
     /\ \A p \in L : \E n \in 1 .. Cardinality(L) : r[n] = p

LEMMA LevelsFinite ==
  ASSUME NEW levels, NEW side
  PROVE  /\ LevelsOf(levels, side) \in SUBSET Prices
         /\ IsFiniteSet(LevelsOf(levels, side))
         /\ Cardinality(LevelsOf(levels, side)) \in Nat
         /\ Cardinality(LevelsOf(levels, side)) = 0 <=> LevelsOf(levels, side) = {}
<1>1. LevelsOf(levels, side) \in SUBSET Prices
  BY DEF LevelsOf
<1>2. IsFiniteSet(LevelsOf(levels, side))
  BY <1>1, FS_Subset, MarketOrderBookAssumption
<1> QED BY <1>1, <1>2, FS_CardinalityType, FS_EmptySet

\* There is such a list.
LEMMA Ranked ==
  ASSUME NEW levels, NEW side \in Sides
  PROVE  \E r : Ranks(levels, side, r)
<1> DEFINE L == LevelsOf(levels, side)
           c == Cardinality(L)
           R == {e \in L \X L : Worse(side, e[2], e[1])}
<1>1. IsFiniteSet(L) /\ L \in SUBSET Prices
  BY LevelsFinite
<1>2. ASSUME NEW T \in SUBSET L, T # {}
      PROVE  \E m \in T : \A x \in T \ {m} : <<m, x>> \in R
  <2> HIDE DEF L
  <2>1. T \in SUBSET Prices
    BY <1>1
  <2>2. PICK m \in T : \A x \in T : ~ Worse(side, m, x)
    BY <2>1, <1>2, BestExists
  <2> QED BY <2>1, <2>2, WorseOrder
<1>3. \A x, y : <<x, y>> \in R => x \in L /\ y \in L /\ Worse(side, y, x)
  OBVIOUS
<1> HIDE DEF R, L
<1>4. PICK r \in [1 .. c -> L] : \A i, j \in 1 .. c : i < j => <<r[i], r[j]>> \in R
  BY <1>1, <1>2, Enumerable
<1>5. \A i, j \in 1 .. c : i < j => Worse(side, r[j], r[i]) /\ r[i] # r[j]
  BY <1>1, <1>3, <1>4, WorseOrder
<1>6. \A x \in L : \E i \in 1 .. c : r[i] = x
  <2>1. \A i, j \in 1 .. c : i < j => r[i] # r[j]
    BY <1>5
  <2> HIDE DEF R
  <2> QED BY ONLY <1>1, <1>4, <2>1, EnumerationComplete
<1> QED BY <1>5, <1>6 DEF Ranks, L

\* In a ranked list a worse price comes later.
LEMMA RankedLater ==
  ASSUME NEW levels, NEW side \in Sides, NEW r, Ranks(levels, side, r),
         NEW n \in 1 .. Cardinality(LevelsOf(levels, side)),
         NEW k \in 1 .. Cardinality(LevelsOf(levels, side)),
         Worse(side, r[k], r[n])
  PROVE  n < k
<1>1. r[n] \in Prices /\ r[k] \in Prices
  BY LevelsFinite DEF Ranks
<1>2. \A i, j \in 1 .. Cardinality(LevelsOf(levels, side)) : i < j => Worse(side, r[j], r[i])
  BY DEF Ranks
<1>3. CASE k < n
  BY <1>1, <1>2, <1>3, WorseOrder
<1>4. CASE k = n
  BY <1>1, <1>4, WorseOrder
<1> QED BY <1>3, <1>4, LevelsFinite

\* Linked levels are linked in that order.
LEMMA LinksFollowRank ==
  ASSUME NEW levels, NEW side \in Sides, NEW best, LevelsLinked(levels, side, best),
         NEW r, Ranks(levels, side, r)
  PROVE  LET c == Cardinality(LevelsOf(levels, side))
         IN /\ c # 0 => r[1] = best
            /\ \A n \in 1 .. c : n # c => levels[r[n]].next_entry_ = r[n + 1]
<1> DEFINE L == LevelsOf(levels, side)
           c == Cardinality(L)
<1>1. c \in Nat /\ (c = 0 <=> L = {}) /\ L \in SUBSET Prices /\ r \in [1 .. c -> L]
  BY LevelsFinite DEF Ranks
<1>2. /\ \A n, k \in 1 .. c : n < k => Worse(side, r[k], r[n])
      /\ \A p \in L : \E n \in 1 .. c : r[n] = p
  BY DEF Ranks
<1>3. ASSUME c # 0 PROVE r[1] = best
  <2>1. best \in L /\ \A q \in L : q = best \/ Worse(side, q, best)
    BY <1>1, <1>3 DEF LevelsLinked, LinksOf
  <2>2. PICK n \in 1 .. c : r[n] = best
    BY <1>2, <2>1
  <2>3. 1 \in 1 .. c /\ ~ n < 1 /\ r[1] \in L
    BY <1>1, <1>3
  <2>4. ~ Worse(side, r[1], r[n])
    BY <2>3, RankedLater
  <2> QED BY <2>1, <2>2, <2>3, <2>4
<1>4. ASSUME NEW n \in 1 .. c, n # c PROVE levels[r[n]].next_entry_ = r[n + 1]
  <2> DEFINE next == levels[r[n]].next_entry_
  <2>1. n + 1 \in 1 .. c /\ n < n + 1 /\ r[n] \in L /\ r[n + 1] \in L
    BY <1>1, <1>4
  <2>2. Worse(side, r[n + 1], r[n])
    BY <1>2, <2>1
  <2>3. /\ next \in L /\ Worse(side, next, r[n])
        /\ r[n + 1] = next \/ Worse(side, r[n + 1], next)
    BY <2>1, <2>2 DEF LevelsLinked, LinksOf
  <2> HIDE DEF next, c, L
  <2>4. PICK k \in 1 .. c : r[k] = next
    BY <1>2, <2>3
  <2>6. n < k
    BY <2>3, <2>4, RankedLater DEF c, L
  <2>7. Worse(side, r[n + 1], r[k]) => k < n + 1
    BY <2>1, RankedLater DEF c, L
  <2>8. k < n + 1 => FALSE
    BY <2>6, <1>1
  <2> QED BY <2>3, <2>4, <2>7, <2>8 DEF next
<1> QED BY <1>3, <1>4

\* The walk along the links reads the list they lead along.
LEMMA LevelRingIs ==
  ASSUME NEW levels, NEW side \in Sides, NEW best, LevelsLinked(levels, side, best),
         NEW r, Ranks(levels, side, r)
  PROVE  LevelRing(levels, side, best) = r
<1> DEFINE c == Cardinality(LevelsOf(levels, side))
           Reads(f) == f = [n \in 1 .. c |-> IF n = 1 THEN best
                                             ELSE levels[f[n - 1]].next_entry_]
<1>1. c \in Nat /\ r = [n \in 1 .. c |-> r[n]]
  BY LevelsFinite DEF Ranks
<1>2. /\ c # 0 => r[1] = best
      /\ \A n \in 1 .. c : n # c => levels[r[n]].next_entry_ = r[n + 1]
  BY LinksFollowRank
<1> HIDE DEF c
<1>3. Reads(r)
  <2>1. \A n \in 1 .. c : r[n] = IF n = 1 THEN best ELSE levels[r[n - 1]].next_entry_
    <3> SUFFICES ASSUME NEW n \in 1 .. c
                 PROVE  r[n] = IF n = 1 THEN best ELSE levels[r[n - 1]].next_entry_
      OBVIOUS
    <3>1. CASE n = 1
      BY <3>1, <1>1, <1>2
    <3>2. CASE n # 1
      <4>1. n - 1 \in 1 .. c /\ n - 1 # c /\ (n - 1) + 1 = n
        BY <3>2, <1>1
      <4> QED BY <4>1, <3>2, <1>2
    <3> QED BY <3>1, <3>2
  <2> QED BY <2>1, <1>1
<1>4. ASSUME NEW f, Reads(f) PROVE f = r
  <2>1. /\ f = [n \in 1 .. c |-> f[n]]
        /\ \A n \in 1 .. c : f[n] = IF n = 1 THEN best ELSE levels[f[n - 1]].next_entry_
    BY <1>4
  <2>2. \A n \in 1 .. c : r[n] = IF n = 1 THEN best ELSE levels[r[n - 1]].next_entry_
    BY <1>3
  <2>3. \A n \in 1 .. c : f[n] = r[n]
    <3> DEFINE Bad == {n \in Nat : n \in 1 .. c /\ f[n] # r[n]}
    <3> SUFFICES ASSUME Bad # {} PROVE FALSE
      BY <1>1
    <3>1. PICK n \in Bad : \A k \in Bad : n <= k
      BY LeastExists, Zenon
    <3>2. n \in 1 .. c /\ f[n] # r[n]
      OBVIOUS
    <3>3. n # 1 => n - 1 \in 1 .. c /\ f[n - 1] = r[n - 1]
      BY <3>1, <3>2, <1>1
    <3> HIDE DEF Bad
    <3>4. f[n] = IF n = 1 THEN best ELSE levels[f[n - 1]].next_entry_
      BY <3>2, <2>1
    <3>5. r[n] = IF n = 1 THEN best ELSE levels[r[n - 1]].next_entry_
      BY <3>2, <2>2
    <3>6. n = 1 => f[n] = r[n]
      BY <3>4, <3>5
    <3>7. n # 1 => f[n] = r[n]
      BY <3>3, <3>4, <3>5
    <3> QED BY <3>2, <3>6, <3>7
  <2> QED BY <2>1, <2>3, <1>1
<1>5. (CHOOSE f : Reads(f)) = r
  <2> HIDE DEF Reads
  <2> QED BY <1>3, <1>4, Zenon
<1> QED BY <1>5 DEF LevelRing, c

\* The ring of a side as its walk reads it.
LEMMA RingRanked ==
  ASSUME NEW levels, NEW side \in Sides, NEW best, LevelsLinked(levels, side, best)
  PROVE  Ranks(levels, side, LevelRing(levels, side, best))
<1>1. PICK r : Ranks(levels, side, r)
  BY Ranked
<1>2. LevelRing(levels, side, best) = r
  BY <1>1, LevelRingIs
<1> QED BY <1>1, <1>2, Zenon

\* What the search for the place of a new price finds: the best of the worse
\* ones, or the best of all.
LEMMA FollowerFound ==
  ASSUME NEW side \in Sides, NEW price \in Prices,
         LevelsLinked(price_orders_at_price_, side, by_price_[side]),
         price \notin LevelsOf(price_orders_at_price_, side)
  PROVE  LET L == LevelsOf(price_orders_at_price_, side)
             after == Follower(side, price)
         IN /\ (\A q \in L : ~ Worse(side, q, price)) => after = by_price_[side]
            /\ \A q \in L : Worse(side, q, price) =>
                 /\ after \in L /\ Worse(side, after, price)
                 /\ q = after \/ Worse(side, q, after)
<1> DEFINE L == LevelsOf(price_orders_at_price_, side)
           c == Cardinality(L)
           r == LevelRing(price_orders_at_price_, side, by_price_[side])
           notWorse == {n \in DOMAIN r : ~ Worse(side, price, r[n])}
           first == CHOOSE n \in notWorse : \A k \in notWorse : n <= k
<1>1. Ranks(price_orders_at_price_, side, r)
  BY RingRanked
<1>2. c \in Nat /\ L \in SUBSET Prices
  BY LevelsFinite
<1>3. /\ DOMAIN r = 1 .. c /\ r \in [1 .. c -> L]
      /\ \A p \in L : \E n \in 1 .. c : r[n] = p
      /\ \A n, k \in 1 .. c : n < k => Worse(side, r[k], r[n])
  BY <1>1 DEF Ranks
<1>4. Follower(side, price) = IF notWorse = {} THEN by_price_[side] ELSE r[first]
  BY DEF Follower
<1> HIDE DEF r, c
<1>5. \A n \in 1 .. c : n \in notWorse <=> Worse(side, r[n], price)
  <2> SUFFICES ASSUME NEW n \in 1 .. c PROVE n \in notWorse <=> Worse(side, r[n], price)
    OBVIOUS
  <2>1. r[n] \in L /\ r[n] \in Prices /\ r[n] # price
    BY <1>2, <1>3
  <2>2. ~ Worse(side, price, r[n]) <=> Worse(side, r[n], price)
    BY <2>1, WorseOrder
  <2> QED BY <2>2, <1>3
<1>6. notWorse \in SUBSET (1 .. c)
  BY <1>3
<1> HIDE DEF notWorse, L
<1>7. ASSUME \A q \in L : ~ Worse(side, q, price) PROVE Follower(side, price) = by_price_[side]
  <2>1. notWorse = {}
    BY <1>3, <1>5, <1>6, <1>7
  <2> QED BY <2>1, <1>4
<1>8. ASSUME NEW q \in L, Worse(side, q, price)
      PROVE  LET after == Follower(side, price)
             IN /\ after \in L /\ Worse(side, after, price)
                /\ q = after \/ Worse(side, q, after)
  <2>1. PICK n \in 1 .. c : r[n] = q
    BY <1>3
  <2>2. n \in notWorse
    BY <1>5, <1>8, <2>1
  <2>3. \E m \in notWorse : \A k \in notWorse : m <= k
    <3>1. notWorse \in SUBSET Nat
      BY <1>2, <1>6
    <3> QED BY <3>1, <2>2, LeastExists
  <2>4. first \in notWorse /\ \A k \in notWorse : first <= k
    BY <2>3, Zenon
  <2> HIDE DEF first
  <2>5. Follower(side, price) = r[first] /\ first \in 1 .. c /\ first <= n
    BY <1>4, <1>6, <2>2, <2>4
  <2>6. first = n \/ first < n
    BY <1>2, <2>5
  <2> QED BY <1>3, <1>5, <2>1, <2>4, <2>5, <2>6
<1> QED BY <1>7, <1>8 DEF L

\* Linked rings are sorted.
LEMMA LinkedSorted ==
  ASSUME \A side \in Sides : LevelsLinked(price_orders_at_price_, side, by_price_[side]),
         \A side \in Sides : by_price_[side] \in Prices \cup {None}
  PROVE  LevelsSorted
<1> SUFFICES ASSUME NEW side \in Sides
             PROVE  LET levels == LevelsOf(price_orders_at_price_, side)
                        ring == LevelRing(price_orders_at_price_, side, by_price_[side])
                    IN /\ levels = {} <=> by_price_[side] = None
                       /\ \A n \in DOMAIN ring : ring[n] \in levels
                       /\ \A n \in 2 .. Len(ring) : Worse(side, ring[n], ring[n - 1])
                       /\ \A p \in levels :
                            price_orders_at_price_[price_orders_at_price_[p].next_entry_].prev_entry_ = p
  BY Zenon DEF LevelsSorted
<1> DEFINE L == LevelsOf(price_orders_at_price_, side)
           c == Cardinality(L)
           r == LevelRing(price_orders_at_price_, side, by_price_[side])
<1>1. Ranks(price_orders_at_price_, side, r) /\ c \in Nat
  BY RingRanked, LevelsFinite
<1>2. /\ DOMAIN r = 1 .. c /\ r \in [1 .. c -> L]
      /\ \A n, k \in 1 .. c : n < k => Worse(side, r[k], r[n])
  BY <1>1 DEF Ranks
<1>3. L = {} <=> by_price_[side] = None
  <2>1. L \in SUBSET Prices /\ None \notin Prices
    BY LevelsFinite, MarketOrderBookAssumption
  <2> QED BY <2>1 DEF LevelsLinked, LinksOf
<1>4. \A p \in L : price_orders_at_price_[price_orders_at_price_[p].next_entry_].prev_entry_ = p
  BY DEF LevelsLinked, LinksOf
<1> HIDE DEF r, c, L
<1>5. Len(r) = c
  BY <1>1, <1>2, LenProperties
<1>6. \A n \in 2 .. c : Worse(side, r[n], r[n - 1])
  <2>1. \A n \in 2 .. c : n \in 1 .. c /\ n - 1 \in 1 .. c /\ n - 1 < n
    BY <1>1
  <2> QED BY <2>1, <1>2
<1> QED BY <1>2, <1>3, <1>4, <1>5, <1>6 DEF r, L

-----------------------------------------------------------------------------
\* A level joins a ring, or leaves it.

\* Where a price belongs: before the best of the worse ones, or of all.
Placed(side, L, best, price, after) ==
  /\ (\A q \in L : ~ Worse(side, q, price)) => after = best
  /\ \A q \in L : Worse(side, q, price) => /\ Worse(side, after, price)
                                           /\ q = after \/ Worse(side, q, after)

\* The links when it has been put there.
Joins(L, price, after, next, prev, next2, prev2) ==
  /\ next2[price] = after /\ prev2[price] = prev[after]
  /\ \A p \in L : next2[p] = IF p = prev[after] THEN price ELSE next[p]
  /\ \A p \in L : prev2[p] = IF p = after THEN price ELSE prev[p]

\* A price that is put where it belongs, and becomes the best if it is better.
LEMMA LinkJoins ==
  ASSUME NEW side \in Sides, NEW L \in SUBSET Prices, NEW best, NEW next, NEW prev,
         LinksOf(L, side, next, prev, best),
         NEW price \in Prices \ L, NEW after \in L,
         Placed(side, L, best, price, after),
         NEW next2, NEW prev2, Joins(L, price, after, next, prev, next2, prev2)
  PROVE  LinksOf(L \cup {price}, side, next2, prev2,
                 IF Worse(side, best, price) THEN price ELSE best)
<1> DEFINE before == prev[after]
           best2 == IF Worse(side, best, price) THEN price ELSE best
           M == L \cup {price}
<1> USE DEF Placed, Joins
<1>1. /\ best \in L /\ \A q \in L : q = best \/ Worse(side, q, best)
      /\ \A p \in L : next[p] \in L /\ prev[p] \in L
      /\ \A p \in L : prev[next[p]] = p /\ next[prev[p]] = p
      /\ \A p \in L : (\A q \in L : ~ Worse(side, q, p)) => next[p] = best
      /\ \A p, q \in L : Worse(side, q, p) => /\ Worse(side, next[p], p)
                                              /\ q = next[p] \/ Worse(side, q, next[p])
  BY DEF LinksOf
<1>2. /\ \A p \in M : ~ Worse(side, p, p)
      /\ \A p, q \in M : p = q \/ Worse(side, p, q) \/ Worse(side, q, p)
      /\ \A p, q, r \in M : Worse(side, p, q) /\ Worse(side, q, r) => Worse(side, p, r)
  BY WorseOrder
<1>3. before \in L /\ next[before] = after /\ price \notin L
  BY <1>1
<1> HIDE DEF before
<1>4. \A p \in L : p # before => next[p] # after
  BY <1>1 DEF before
<1>5. best2 \in M /\ \A q \in M : q = best2 \/ Worse(side, q, best2)
  BY <1>1, <1>2
<1>6. \A p \in M : next2[p] \in M /\ prev2[p] \in M
  BY <1>1, <1>3 DEF before
<1>7. ASSUME NEW p \in M PROVE prev2[next2[p]] = p /\ next2[prev2[p]] = p
  <2>1. CASE p = price
    BY <2>1, <1>3 DEF before
  <2>2. CASE p = before
    BY <2>2, <1>1, <1>3, <1>4 DEF before
  <2>3. CASE p # price /\ p # before
    <3>1. p \in L /\ next2[p] = next[p] /\ next[p] # after /\ next[p] \in L
      BY <2>3, <1>1, <1>4 DEF before
    <3>2. prev2[next2[p]] = p
      BY <3>1, <1>1
    <3>3. CASE p = after
      BY <3>1, <3>3, <3>2
    <3>4. CASE p # after
      <4>1. prev2[p] = prev[p] /\ prev[p] \in L /\ next[prev[p]] = p
        BY <3>1, <3>4, <1>1
      <4>2. prev[p] # before
        BY <4>1, <3>4, <1>3
      <4> QED BY <4>1, <4>2, <3>2 DEF before
    <3> QED BY <3>3, <3>4
  <2>4. CASE p = after
    <3>1. prev2[p] = price /\ next2[price] = p
      BY <2>4
    <3> QED BY <3>1, <2>1, <2>2, <2>3
  <2> QED BY <2>1, <2>2, <2>3
<1>8. ASSUME NEW p \in M, \A q \in M : ~ Worse(side, q, p) PROVE next2[p] = best2
  <2>1. CASE p = price
    BY <2>1, <1>1, <1>8
  <2>2. CASE p # price
    <3>1. p \in L /\ next[p] = best
      BY <2>2, <1>1, <1>8
    <3>2. Worse(side, price, p) \/ Worse(side, p, price)
      BY <2>2, <1>2
    <3>3. Worse(side, p, price)
      BY <3>2, <1>8
    <3>4. p = after \/ Worse(side, p, after)
      BY <3>1, <3>3
    <3> QED BY <3>1, <3>3, <3>4, <1>1, <1>2, <1>3, <1>4, <1>8 DEF before
  <2> QED BY <2>1, <2>2
<1>9. ASSUME NEW p \in M, NEW q \in M, Worse(side, q, p)
      PROVE  Worse(side, next2[p], p) /\ (q = next2[p] \/ Worse(side, q, next2[p]))
  <2>1. CASE p = price
    BY <2>1, <1>2, <1>9
  <2>2. CASE p = before /\ Worse(side, price, p)
    <3>1. next2[p] = price
      BY <2>2, <1>3 DEF before
    <3>2. CASE q = price
      BY <3>1, <3>2, <2>2
    <3>3. CASE q # price
      <4>1. q \in L /\ Worse(side, after, p) /\ (q = after \/ Worse(side, q, after))
        BY <3>3, <2>2, <1>1, <1>3, <1>9
      <4>2. Worse(side, after, price)
        BY <4>1, <1>1, <1>2, <1>3
      <4> QED BY <4>1, <4>2, <3>1, <2>2, <1>2
    <3> QED BY <3>2, <3>3
  <2>3. CASE p = before /\ ~ Worse(side, price, p)
    <3>1. next2[p] = price /\ Worse(side, p, price) /\ p \in L
      BY <2>3, <1>2, <1>3 DEF before
    <3>2. q \in L
      BY <2>3, <1>9
    <3>3. Worse(side, after, p)
      BY <3>1, <3>2, <1>1, <1>3, <1>9, <2>3
    <3>4. p = after \/ Worse(side, p, after)
      BY <3>1
    <3> QED BY <3>1, <3>3, <3>4, <1>2
  <2>4. CASE p # price /\ p # before
    <3>1. p \in L /\ next2[p] = next[p] /\ next[p] # after /\ next[p] \in L
      BY <2>4, <1>1, <1>4 DEF before
    <3>2. CASE q # price
      BY <3>1, <3>2, <1>1, <1>9
    <3>3. CASE q = price
      <4>1. Worse(side, price, p)
        BY <3>3, <1>9
      <4>2. ASSUME Worse(side, next[p], price) PROVE FALSE
        <5>1. Worse(side, after, price) /\ Worse(side, next[p], after)
          BY <4>2, <3>1
        <5>2. Worse(side, after, p)
          BY <5>1, <4>1, <1>2
        <5>3. after = next[p] \/ Worse(side, after, next[p])
          BY <5>2, <3>1, <1>1
        <5> QED BY <5>1, <5>3, <3>1, <1>2
      <4>3. price = next[p] \/ Worse(side, price, next[p])
        BY <4>2, <3>1, <1>2
      <4>4. Worse(side, next[p], p)
        BY <3>1, <1>1, <4>1, <4>3, <1>2
      <4> QED BY <3>1, <3>3, <4>3, <4>4
    <3> QED BY <3>2, <3>3
  <2> QED BY <2>1, <2>2, <2>3, <2>4
<1> HIDE DEF best2, M
<1>10. LinksOf(M, side, next2, prev2, best2)
  BY <1>5, <1>6, <1>7, <1>8, <1>9 DEF LinksOf
<1> QED BY <1>10 DEF M, best2

\* A ring of one level is that of its only price.
LEMMA LinkAlone ==
  ASSUME NEW side \in Sides, NEW L \in SUBSET Prices, NEW best, NEW next, NEW prev,
         LinksOf(L, side, next, prev, best), NEW price \in L
  PROVE  next[price] = price <=> L = {price}
<1>1. /\ best \in L /\ \A q \in L : q = best \/ Worse(side, q, best)
      /\ \A p \in L : next[p] \in L
      /\ \A p \in L : (\A q \in L : ~ Worse(side, q, p)) => next[p] = best
      /\ \A p, q \in L : Worse(side, q, p) => Worse(side, next[p], p)
  BY DEF LinksOf
<1>2. \A p \in L : ~ Worse(side, p, p)
  BY WorseOrder
<1>3. ASSUME next[price] = price PROVE L = {price}
  <2>1. \A q \in L : ~ Worse(side, q, price)
    BY <1>1, <1>2, <1>3
  <2>2. price = best
    BY <2>1, <1>1, <1>3
  <2> QED BY <2>1, <2>2, <1>1
<1> QED BY <1>1, <1>3

\* A price that is taken out; the next one becomes the best in its place.
LEMMA LinkLeaves ==
  ASSUME NEW side \in Sides, NEW L \in SUBSET Prices, NEW best, NEW next, NEW prev,
         LinksOf(L, side, next, prev, best),
         NEW price \in L, next[price] # price,
         NEW M, M = L \ {price}, NEW next2, NEW prev2,
         \A p \in M : next2[p] = IF p = prev[price] THEN next[price] ELSE next[p],
         \A p \in M : prev2[p] = IF p = next[price] THEN prev[price] ELSE prev[p]
  PROVE  LinksOf(M, side, next2, prev2, IF best = price THEN next[price] ELSE best)
<1> DEFINE before == prev[price]
           after == next[price]
           best2 == IF best = price THEN after ELSE best
<1>1. /\ best \in L /\ \A q \in L : q = best \/ Worse(side, q, best)
      /\ \A p \in L : next[p] \in L /\ prev[p] \in L
      /\ \A p \in L : prev[next[p]] = p /\ next[prev[p]] = p
      /\ \A p \in L : (\A q \in L : ~ Worse(side, q, p)) => next[p] = best
      /\ \A p, q \in L : Worse(side, q, p) => /\ Worse(side, next[p], p)
                                              /\ q = next[p] \/ Worse(side, q, next[p])
  BY DEF LinksOf
<1>2. /\ \A p \in L : ~ Worse(side, p, p)
      /\ \A p, q \in L : p = q \/ Worse(side, p, q) \/ Worse(side, q, p)
      /\ \A p, q, r \in L : Worse(side, p, q) /\ Worse(side, q, r) => Worse(side, p, r)
  BY WorseOrder
<1>3. before \in M /\ after \in M /\ next[before] = price /\ prev[after] = price
  BY <1>1
<1>4. /\ \A p \in M : next2[p] = IF p = before THEN after ELSE next[p]
      /\ \A p \in M : prev2[p] = IF p = after THEN before ELSE prev[p]
      /\ \A p \in M : p # before => next[p] \in M
      /\ \A p \in M : p # after => prev[p] \in M
  BY <1>1
<1>5. \A p \in M : p \in L /\ p # price
  OBVIOUS
<1>6. \A p \in L : p = price \/ p \in M
  OBVIOUS
<1> HIDE DEF before, after
<1>7. best2 \in M /\ \A q \in M : q = best2 \/ Worse(side, q, best2)
  <2>1. CASE best = price
    <3>1. \A q \in M : q = after \/ Worse(side, q, after)
      BY <2>1, <1>1, <1>3, <1>5 DEF after
    <3> QED BY <2>1, <3>1, <1>3
  <2>2. CASE best # price
    BY <2>2, <1>1, <1>5, <1>6
  <2> QED BY <2>1, <2>2
<1>8. \A p \in M : next2[p] \in M /\ prev2[p] \in M
  BY <1>3, <1>4
<1>9. ASSUME NEW p \in M PROVE prev2[next2[p]] = p /\ next2[prev2[p]] = p
  <2>1. prev2[next2[p]] = p
    <3>1. CASE p = before
      BY <3>1, <1>3, <1>4
    <3>2. CASE p # before
      <4>1. next2[p] = next[p] /\ next[p] \in M /\ prev[next[p]] = p
        BY <3>2, <1>1, <1>4, <1>5
      <4>2. next[p] # after
        BY <4>1, <1>3, <1>5
      <4> QED BY <4>1, <4>2, <1>4
    <3> QED BY <3>1, <3>2
  <2>2. next2[prev2[p]] = p
    <3>1. CASE p = after
      BY <3>1, <1>3, <1>4
    <3>2. CASE p # after
      <4>1. prev2[p] = prev[p] /\ prev[p] \in M /\ next[prev[p]] = p
        BY <3>2, <1>1, <1>4, <1>5
      <4>2. prev[p] # before
        BY <4>1, <1>3, <1>5
      <4> QED BY <4>1, <4>2, <1>4
    <3> QED BY <3>1, <3>2
  <2> QED BY <2>1, <2>2
<1>10. ASSUME NEW p \in M, \A q \in M : ~ Worse(side, q, p) PROVE next2[p] = best2
  <2>1. CASE Worse(side, price, p)
    <3>1. Worse(side, next[p], p)
      BY <2>1, <1>1, <1>5
    <3>2. next[p] = price
      BY <3>1, <1>1, <1>5, <1>6, <1>10
    <3>3. p = before
      BY <3>2, <1>1, <1>5 DEF before
    <3>4. \A q \in L : ~ Worse(side, q, price)
      BY <2>1, <1>2, <1>5, <1>6, <1>10
    <3>5. after = best /\ best # price
      BY <3>4, <1>1, <1>3, <1>5 DEF after
    <3> QED BY <3>3, <3>5, <1>4
  <2>2. CASE ~ Worse(side, price, p)
    <3>1. next[p] = best
      BY <2>2, <1>1, <1>5, <1>6, <1>10
    <3>2. CASE p = before
      BY <3>1, <3>2, <1>3, <1>4
    <3>3. CASE p # before
      BY <3>1, <3>3, <1>4, <1>5
    <3> QED BY <3>2, <3>3
  <2> QED BY <2>1, <2>2
<1>11. ASSUME NEW p \in M, NEW q \in M, Worse(side, q, p)
       PROVE  Worse(side, next2[p], p) /\ (q = next2[p] \/ Worse(side, q, next2[p]))
  <2>1. Worse(side, next[p], p) /\ (q = next[p] \/ Worse(side, q, next[p]))
    BY <1>1, <1>5, <1>11
  <2>2. CASE p # before
    BY <2>1, <2>2, <1>4
  <2>3. CASE p = before
    <3>1. next2[p] = after /\ Worse(side, price, p) /\ Worse(side, q, price)
      BY <2>1, <2>3, <1>3, <1>4, <1>5
    <3>2. Worse(side, after, price) /\ (q = after \/ Worse(side, q, after))
      BY <3>1, <1>1, <1>5 DEF after
    <3> QED BY <3>1, <3>2, <1>2, <1>3, <1>5
  <2> QED BY <2>2, <2>3
<1> HIDE DEF best2
<1>12. LinksOf(M, side, next2, prev2, best2)
  BY <1>7, <1>8, <1>9, <1>10, <1>11 DEF LinksOf
<1> QED BY <1>12 DEF best2, after

\* A side none of whose links changes.
LEMMA LevelsKept ==
  ASSUME NEW levels, NEW levels2, NEW side, NEW best, LevelsLinked(levels, side, best),
         LevelsOf(levels2, side) = LevelsOf(levels, side),
         \A p \in LevelsOf(levels, side) :
           /\ levels2[p].next_entry_ = levels[p].next_entry_
           /\ levels2[p].prev_entry_ = levels[p].prev_entry_
  PROVE  LevelsLinked(levels2, side, best)
<1> DEFINE L == LevelsOf(levels, side)
<1> HIDE DEF L
<1>1. [p \in L |-> levels2[p].next_entry_] = [p \in L |-> levels[p].next_entry_]
  BY DEF L
<1>2. [p \in L |-> levels2[p].prev_entry_] = [p \in L |-> levels[p].prev_entry_]
  BY DEF L
<1> QED BY <1>1, <1>2, Zenon DEF LevelsLinked, L

\* What an update leaves of a level: its side and its first order.
SameLevel(p) ==
  /\ price_orders_at_price_'[p] = None <=> price_orders_at_price_[p] = None
  /\ price_orders_at_price_[p] # None =>
       /\ price_orders_at_price_'[p].side = price_orders_at_price_[p].side
       /\ price_orders_at_price_'[p].first_mkt_order_ = price_orders_at_price_[p].first_mkt_order_

TablesTyped == Typed(oid_to_order_, price_orders_at_price_, by_price_)
RingsLinked == \A side \in Sides : LevelsLinked(price_orders_at_price_, side, by_price_[side])

\* A level is a record with a side.
LEMMA LevelFields ==
  ASSUME TablesTyped, NEW p \in Prices, price_orders_at_price_[p] # None
  PROVE  /\ price_orders_at_price_[p] \in Level
         /\ p \in LevelsOf(price_orders_at_price_, price_orders_at_price_[p].side)
BY DEF TablesTyped, Typed, Level, LevelsOf

\* addOrdersAtPrice.
LEMMA LevelJoins ==
  ASSUME TablesTyped, RingsLinked,
         NEW side \in Sides, NEW price \in Prices, NEW order \in OrderIds,
         price_orders_at_price_[price] = None,
         AddOrdersAtPrice(side, price, order)
  PROVE  /\ price_orders_at_price_' \in [Prices -> Level \cup {None}]
         /\ RingsLinked'
         /\ price_orders_at_price_'[price] # None
         /\ price_orders_at_price_'[price].side = side
         /\ price_orders_at_price_'[price].first_mkt_order_ = order
         /\ \A p \in Prices \ {price} : SameLevel(p)
         /\ by_price_' = [by_price_ EXCEPT ![side] =
                            IF by_price_[side] = None \/ Worse(side, by_price_[side], price)
                            THEN price ELSE @]
<1> DEFINE lv == price_orders_at_price_
           best == by_price_[side]
           L == LevelsOf(lv, side)
           after == Follower(side, price)
           before == lv[after].prev_entry_
           NewLevel(b, a) == [side |-> side, first_mkt_order_ |-> order,
                              prev_entry_ |-> b, next_entry_ |-> a]
           lv2 == price_orders_at_price_'
<1>1. /\ lv \in [Prices -> Level \cup {None}] /\ by_price_ \in [Sides -> Prices \cup {None}]
      /\ None \notin Level /\ None \notin Prices
  BY MarketOrderBookAssumption DEF TablesTyped, Typed
<1>2. LevelsLinked(lv, side, best) /\ L \in SUBSET Prices /\ price \notin L
  BY LevelsFinite DEF RingsLinked, LevelsOf
<1>3. \A p \in L : lv[p] \in Level /\ lv[p] # None /\ lv[p].side = side
  BY <1>1 DEF LevelsOf
<1>4. L = {} <=> best = None
  BY <1>1, <1>2 DEF LevelsLinked, LinksOf
<1>5. CASE best = None
  <2>1. /\ lv2 = [lv EXCEPT ![price] = NewLevel(price, price)]
        /\ by_price_' = [by_price_ EXCEPT ![side] = price]
    BY <1>5 DEF AddOrdersAtPrice
  <2>2. NewLevel(price, price) \in Level
    BY DEF Level
  <2>3. lv2 \in [Prices -> Level \cup {None}] /\ lv2[price] = NewLevel(price, price)
    BY <2>1, <2>2, <1>1
  <2>4. \A p \in Prices \ {price} : lv2[p] = lv[p]
    BY <2>1, <1>1
  <2>5. by_price_'[side] = price /\ \A s \in Sides : s # side => by_price_'[s] = by_price_[s]
    BY <2>1, <1>1
  <2>6. LevelsOf(lv2, side) = {price}
    BY <1>4, <1>5, <2>3, <2>4, <1>1, <2>2 DEF LevelsOf
  <2>7. LevelsLinked(lv2, side, by_price_'[side])
    <3>1. /\ [p \in {price} |-> lv2[p].next_entry_][price] = price
          /\ [p \in {price} |-> lv2[p].prev_entry_][price] = price
      BY <2>3
    <3>2. ~ Worse(side, price, price)
      BY WorseOrder
    <3> DEFINE next == [p \in {price} |-> lv2[p].next_entry_]
               prev == [p \in {price} |-> lv2[p].prev_entry_]
    <3> HIDE DEF next, prev
    <3>3. LinksOf({price}, side, next, prev, price)
      BY <3>1, <3>2 DEF LinksOf, next, prev
    <3> QED BY <3>3, <2>5, <2>6, Zenon DEF LevelsLinked, next, prev
  <2>8. ASSUME NEW s \in Sides, s # side PROVE LevelsLinked(lv2, s, by_price_'[s])
    <3>1. LevelsOf(lv2, s) = LevelsOf(lv, s)
      BY <2>3, <2>4, <2>8, <1>1 DEF LevelsOf
    <3>2. \A p \in LevelsOf(lv, s) : lv2[p] = lv[p]
      BY <2>4, <1>1 DEF LevelsOf
    <3>3. LevelsLinked(lv, s, by_price_[s])
      BY DEF RingsLinked
    <3> HIDE DEF lv, lv2
    <3> QED BY <3>1, <3>2, <3>3, <2>5, <2>8, LevelsKept
  <2>9. RingsLinked'
    BY <2>7, <2>8 DEF RingsLinked
  <2> QED BY <1>1, <1>5, <2>1, <2>2, <2>3, <2>4, <2>9 DEF SameLevel
<1>6. CASE best # None
  <2>1. /\ lv2 = [lv EXCEPT ![price] = NewLevel(before, after),
                            ![before].next_entry_ = price, ![after].prev_entry_ = price]
        /\ by_price_' = [by_price_ EXCEPT ![side] = IF Worse(side, best, price) THEN price ELSE @]
    BY <1>6, Zenon DEF AddOrdersAtPrice
  <2> DEFINE next == [p \in L |-> lv[p].next_entry_]
             prev == [p \in L |-> lv[p].prev_entry_]
             M == L \cup {price}
             next2 == [p \in M |-> lv2[p].next_entry_]
             prev2 == [p \in M |-> lv2[p].prev_entry_]
  <2>2. LinksOf(L, side, next, prev, best)
    BY <1>2, <1>4, <1>6 DEF LevelsLinked
  <2>3. best \in L
    BY <2>2 DEF LinksOf
  <2>4. /\ (\A q \in L : ~ Worse(side, q, price)) => after = best
        /\ \A q \in L : Worse(side, q, price) => /\ after \in L /\ Worse(side, after, price)
                                                 /\ q = after \/ Worse(side, q, after)
    BY <1>2, FollowerFound
  <2> HIDE DEF after
  <2>5. after \in L
    BY <2>3, <2>4
  <2>6. before \in L /\ prev[after] = before
    BY <2>2, <2>5 DEF LinksOf
  <2> HIDE DEF before
  <2>7. /\ after \in Prices /\ before \in Prices /\ after # price /\ before # price
        /\ NewLevel(before, after) \in Level
    BY <1>2, <2>5, <2>6 DEF Level
  <2>8. /\ lv2 \in [Prices -> Level \cup {None}]
        /\ lv2[price] = NewLevel(before, after)
        /\ \A p \in Prices : lv[p] = None /\ p # price => lv2[p] = None
        /\ \A p \in Prices : lv[p] # None =>
             /\ lv2[p] \in Level
             /\ lv2[p].side = lv[p].side /\ lv2[p].first_mkt_order_ = lv[p].first_mkt_order_
             /\ lv2[p].next_entry_ = IF p = before THEN price ELSE lv[p].next_entry_
             /\ lv2[p].prev_entry_ = IF p = after THEN price ELSE lv[p].prev_entry_
    <3> DEFINE m1 == [lv EXCEPT ![price] = NewLevel(before, after)]
               m2 == [m1 EXCEPT ![before].next_entry_ = price]
    <3>1. lv2 = [m2 EXCEPT ![after].prev_entry_ = price]
      BY <2>1
    <3>2. /\ m1 \in [Prices -> Level \cup {None}] /\ m1[price] = NewLevel(before, after)
          /\ \A p \in Prices : p # price => m1[p] = lv[p]
      BY <1>1, <2>7
    <3>3. m1[before] \in Level /\ m1[after] \in Level
      BY <3>2, <2>5, <2>6, <2>7, <1>3
    <3> HIDE DEF m1
    <3>4. /\ m2 \in [Prices -> Level \cup {None}]
          /\ \A p \in Prices : p # before => m2[p] = m1[p]
          /\ m2[before] = [m1[before] EXCEPT !.next_entry_ = price]
      <4>1. [m1[before] EXCEPT !.next_entry_ = price] \in Level
        BY <3>3 DEF Level
      <4> QED BY <3>2, <4>1, <2>7
    <3>5. /\ m2[before] \in Level /\ m2[before].next_entry_ = price
          /\ m2[before].side = m1[before].side
          /\ m2[before].first_mkt_order_ = m1[before].first_mkt_order_
          /\ m2[before].prev_entry_ = m1[before].prev_entry_
      BY <3>3, <3>4 DEF Level
    <3>6. m2[after] \in Level
      BY <3>3, <3>4, <3>5, <2>7
    <3> HIDE DEF m2
    <3>7. /\ lv2 \in [Prices -> Level \cup {None}]
          /\ \A p \in Prices : p # after => lv2[p] = m2[p]
          /\ lv2[after] = [m2[after] EXCEPT !.prev_entry_ = price]
      <4>1. [m2[after] EXCEPT !.prev_entry_ = price] \in Level
        BY <3>6 DEF Level
      <4> QED BY <3>1, <3>4, <4>1, <2>7
    <3>8. /\ lv2[after] \in Level /\ lv2[after].prev_entry_ = price
          /\ lv2[after].side = m2[after].side
          /\ lv2[after].first_mkt_order_ = m2[after].first_mkt_order_
          /\ lv2[after].next_entry_ = m2[after].next_entry_
      BY <3>6, <3>7 DEF Level
    <3> HIDE DEF lv2
    <3>9. lv2[price] = NewLevel(before, after)
      BY <3>2, <3>4, <3>7, <2>7
    <3>10. ASSUME NEW p \in Prices, lv[p] = None, p # price PROVE lv2[p] = None
      <4>1. p # before /\ p # after
        BY <3>10, <2>5, <2>6, <1>3
      <4> QED BY <4>1, <3>10, <3>2, <3>4, <3>7
    <3>11. ASSUME NEW p \in Prices, lv[p] # None
           PROVE  /\ lv2[p] \in Level
                  /\ lv2[p].side = lv[p].side /\ lv2[p].first_mkt_order_ = lv[p].first_mkt_order_
                  /\ lv2[p].next_entry_ = IF p = before THEN price ELSE lv[p].next_entry_
                  /\ lv2[p].prev_entry_ = IF p = after THEN price ELSE lv[p].prev_entry_
      <4>1. m1[p] = lv[p] /\ m1[p] \in Level
        BY <3>2, <3>11, <1>1
      <4>2. /\ m2[p] \in Level /\ m2[p].side = lv[p].side
            /\ m2[p].first_mkt_order_ = lv[p].first_mkt_order_
            /\ m2[p].next_entry_ = IF p = before THEN price ELSE lv[p].next_entry_
            /\ m2[p].prev_entry_ = lv[p].prev_entry_
        BY <4>1, <3>4, <3>5
      <4> QED BY <4>2, <3>7, <3>8
    <3> QED BY <3>7, <3>9, <3>10, <3>11
  <2>9. by_price_'[side] = (IF Worse(side, best, price) THEN price ELSE best)
        /\ \A s \in Sides : s # side => by_price_'[s] = by_price_[s]
    BY <2>1, <1>1
  <2>10. LevelsOf(lv2, side) = M
    <3>1. lv2[price] # None /\ lv2[price].side = side
      BY <2>7, <2>8, <1>1
    <3> HIDE DEF lv2, lv
    <3> QED BY <3>1, <2>8, <1>1 DEF LevelsOf
  <2>11. LevelsLinked(lv2, side, by_price_'[side])
    <3>1. next2[price] = after /\ prev2[price] = prev[after]
      BY <2>6, <2>8
    <3>2. /\ \A p \in L : next2[p] = IF p = prev[after] THEN price ELSE next[p]
          /\ \A p \in L : prev2[p] = IF p = after THEN price ELSE prev[p]
      <4> HIDE DEF lv2, lv
      <4>1. \A p \in L : p \in Prices /\ p \in M
        BY <1>2
      <4> QED BY <2>6, <2>8, <1>3, <4>1
    <3>3. after \in L /\ price \in Prices \ L
      BY <1>2, <2>5
    <3> HIDE DEF next2, prev2, next, prev, L
    <3> HIDE DEF best
    <3>4. LinksOf(L \cup {price}, side, next2, prev2,
                  IF Worse(side, best, price) THEN price ELSE best)
      <4>1. L \in SUBSET Prices
        BY <1>2
      <4>2. Placed(side, L, best, price, after)
        BY <2>4, Zenon DEF Placed
      <4>3. Joins(L, price, after, next, prev, next2, prev2)
        BY <3>1, <3>2, Zenon DEF Joins
      <4>4. side \in Sides
        OBVIOUS
      <4> HIDE DEF M
      <4> QED BY ONLY <4>1, <4>2, <4>3, <4>4, <2>2, <3>3, LinkJoins, Zenon
    <3>5. M # {} /\ LinksOf(M, side, next2, prev2, by_price_'[side])
      BY <3>4, <2>9
    <3> HIDE DEF M
    <3> QED BY <3>5, <2>10, Zenon DEF LevelsLinked, next2, prev2
  <2>12. ASSUME NEW s \in Sides, s # side PROVE LevelsLinked(lv2, s, by_price_'[s])
    <3>1. LevelsOf(lv2, s) = LevelsOf(lv, s)
      <4>1. lv2[price].side # s
        BY <2>8, <2>12
      <4> HIDE DEF lv2, lv
      <4> QED BY <4>1, <2>8, <1>1 DEF LevelsOf
    <3>2. \A p \in LevelsOf(lv, s) : /\ lv2[p].next_entry_ = lv[p].next_entry_
                                     /\ lv2[p].prev_entry_ = lv[p].prev_entry_
      <4>1. \A p \in LevelsOf(lv, s) : p \in Prices /\ lv[p] # None /\ p # before /\ p # after
        BY <2>5, <2>6, <2>12, <1>3 DEF LevelsOf
      <4> HIDE DEF lv2, lv
      <4> QED BY <4>1, <2>8
    <3>3. LevelsLinked(lv, s, by_price_[s])
      BY DEF RingsLinked
    <3> HIDE DEF lv, lv2
    <3> QED BY <3>1, <3>2, <3>3, <2>9, <2>12, LevelsKept
  <2>13. RingsLinked'
    BY <2>11, <2>12 DEF RingsLinked
  <2>14. \A p \in Prices \ {price} : SameLevel(p)
    BY <2>8, <1>1 DEF SameLevel
  <2> QED BY <1>1, <1>6, <2>1, <2>7, <2>8, <2>13, <2>14
<1> QED BY <1>5, <1>6

\* removeOrdersAtPrice.
LEMMA LevelLeaves ==
  ASSUME TablesTyped, RingsLinked,
         NEW side \in Sides, NEW price \in Prices, price_orders_at_price_[price] # None,
         side = price_orders_at_price_[price].side,
         price_orders_at_price_' = LevelsWithout(price),
         by_price_' = [by_price_ EXCEPT ![side] = BestWithout(side, price)]
  PROVE  /\ price_orders_at_price_' \in [Prices -> Level \cup {None}]
         /\ by_price_' \in [Sides -> Prices \cup {None}]
         /\ RingsLinked'
         /\ price_orders_at_price_'[price] = None
         /\ \A p \in Prices \ {price} : SameLevel(p)
         /\ \A s \in Sides : by_price_[s] # price => by_price_'[s] = by_price_[s]
<1> DEFINE lv == price_orders_at_price_
           best == by_price_[side]
           L == LevelsOf(lv, side)
           after == lv[price].next_entry_
           before == lv[price].prev_entry_
           lv2 == price_orders_at_price_'
           next == [p \in L |-> lv[p].next_entry_]
           prev == [p \in L |-> lv[p].prev_entry_]
           M == L \ {price}
<1>1. /\ lv \in [Prices -> Level \cup {None}] /\ by_price_ \in [Sides -> Prices \cup {None}]
      /\ None \notin Level /\ None \notin Prices
  BY MarketOrderBookAssumption DEF TablesTyped, Typed
<1>2. L \in SUBSET Prices /\ price \in L
  BY LevelsFinite DEF LevelsOf
<1>3. \A p \in L : lv[p] \in Level /\ lv[p] # None /\ lv[p].side = side
  BY <1>1 DEF LevelsOf
<1>4. LinksOf(L, side, next, prev, best)
  BY <1>2 DEF RingsLinked, LevelsLinked
<1>5. /\ after \in L /\ before \in L /\ next[price] = after /\ prev[price] = before
      /\ next[before] = price /\ prev[after] = price /\ best \in L
  BY <1>2, <1>4 DEF LinksOf
<1>6. after \in Prices /\ before \in Prices
  BY <1>2, <1>5
<1>7. after = price <=> L = {price}
  <2>1. L \in SUBSET Prices /\ price \in L
    BY <1>2
  <2> HIDE DEF L, next, prev
  <2>2. next[price] = price <=> L = {price}
    BY <2>1, <1>4, LinkAlone
  <2> QED BY <2>2, <1>5
<1>8. after # price => before # price
  BY <1>2, <1>5
<1>9. /\ by_price_'[side] = IF after = price THEN None ELSE IF best = price THEN after ELSE best
      /\ \A s \in Sides : s # side => by_price_'[s] = by_price_[s]
      /\ by_price_' \in [Sides -> Prices \cup {None}]
  BY <1>1, <1>6 DEF BestWithout
<1>10. CASE after = price
  <2>1. lv2 = [lv EXCEPT ![price] = None]
    BY <1>10 DEF LevelsWithout
  <2>2. /\ lv2 \in [Prices -> Level \cup {None}] /\ lv2[price] = None
        /\ \A p \in Prices \ {price} : lv2[p] = lv[p]
    BY <2>1, <1>1
  <2>3. LevelsOf(lv2, side) = {}
    <3>1. L = {price}
      BY <1>7, <1>10
    <3> QED BY <3>1, <2>2 DEF LevelsOf
  <2>4. LevelsLinked(lv2, side, by_price_'[side])
    BY <2>3, <1>9, <1>10 DEF LevelsLinked
  <2>5. ASSUME NEW s \in Sides, s # side PROVE LevelsLinked(lv2, s, by_price_'[s])
    <3>1. LevelsOf(lv2, s) = LevelsOf(lv, s)
      BY <2>2, <2>5, <1>1 DEF LevelsOf
    <3>2. \A p \in LevelsOf(lv, s) : lv2[p] = lv[p]
      BY <2>2, <2>5, <1>3, <1>2 DEF LevelsOf
    <3>3. LevelsLinked(lv, s, by_price_[s])
      BY DEF RingsLinked
    <3> HIDE DEF lv, lv2
    <3> QED BY <3>1, <3>2, <3>3, <2>5, <1>9, LevelsKept
  <2>6. RingsLinked'
    BY <2>4, <2>5 DEF RingsLinked
  <2>7. best = price
    BY <1>5, <1>7, <1>10
  <2>8. \A p \in Prices \ {price} : SameLevel(p)
    BY <2>2 DEF SameLevel
  <2> QED BY <2>2, <2>6, <2>7, <2>8, <1>9
<1>11. CASE after # price
  <2>1. lv2 = [[lv EXCEPT ![before].next_entry_ = after, ![after].prev_entry_ = before]
               EXCEPT ![price] = None]
    BY <1>11, Zenon DEF LevelsWithout
  <2>2. before # price /\ lv[before] \in Level /\ lv[after] \in Level
    BY <1>3, <1>5, <1>8, <1>11
  <2> HIDE DEF before, after
  <2>3. /\ lv2 \in [Prices -> Level \cup {None}]
        /\ lv2[price] = None
        /\ \A p \in Prices : lv[p] = None => lv2[p] = None
        /\ \A p \in Prices : lv[p] # None /\ p # price =>
             /\ lv2[p] \in Level
             /\ lv2[p].side = lv[p].side /\ lv2[p].first_mkt_order_ = lv[p].first_mkt_order_
             /\ lv2[p].next_entry_ = IF p = before THEN after ELSE lv[p].next_entry_
             /\ lv2[p].prev_entry_ = IF p = after THEN before ELSE lv[p].prev_entry_
    <3> DEFINE m1 == [lv EXCEPT ![before].next_entry_ = after]
               m2 == [m1 EXCEPT ![after].prev_entry_ = before]
    <3>1. lv2 = [m2 EXCEPT ![price] = None]
      BY <2>1
    <3>2. /\ m1 \in [Prices -> Level \cup {None}]
          /\ \A p \in Prices : p # before => m1[p] = lv[p]
          /\ m1[before] = [lv[before] EXCEPT !.next_entry_ = after]
      <4>1. [lv[before] EXCEPT !.next_entry_ = after] \in Level
        BY <2>2, <1>6 DEF Level
      <4> QED BY <4>1, <1>1, <1>6
    <3>3. /\ m1[before] \in Level /\ m1[before].next_entry_ = after
          /\ m1[before].side = lv[before].side
          /\ m1[before].first_mkt_order_ = lv[before].first_mkt_order_
          /\ m1[before].prev_entry_ = lv[before].prev_entry_
      BY <2>2, <3>2, <1>6 DEF Level
    <3>4. m1[after] \in Level
      BY <2>2, <3>2, <3>3, <1>6
    <3> HIDE DEF m1
    <3>5. /\ m2 \in [Prices -> Level \cup {None}]
          /\ \A p \in Prices : p # after => m2[p] = m1[p]
          /\ m2[after] = [m1[after] EXCEPT !.prev_entry_ = before]
      <4>1. [m1[after] EXCEPT !.prev_entry_ = before] \in Level
        BY <3>4, <1>6 DEF Level
      <4> QED BY <4>1, <3>2, <1>6
    <3>6. /\ m2[after] \in Level /\ m2[after].prev_entry_ = before
          /\ m2[after].side = m1[after].side
          /\ m2[after].first_mkt_order_ = m1[after].first_mkt_order_
          /\ m2[after].next_entry_ = m1[after].next_entry_
      BY <3>4, <3>5, <1>6 DEF Level
    <3> HIDE DEF m2
    <3>7. /\ lv2 \in [Prices -> Level \cup {None}] /\ lv2[price] = None
          /\ \A p \in Prices : p # price => lv2[p] = m2[p]
      BY <3>1, <3>5
    <3> HIDE DEF lv2
    <3>8. ASSUME NEW p \in Prices, lv[p] = None PROVE lv2[p] = None
      <4>1. p # before /\ p # after /\ p # price
        BY <3>8, <1>2, <1>3, <1>5
      <4> QED BY <4>1, <3>8, <3>2, <3>5, <3>7
    <3>9. ASSUME NEW p \in Prices, lv[p] # None, p # price
          PROVE  /\ lv2[p] \in Level
                 /\ lv2[p].side = lv[p].side /\ lv2[p].first_mkt_order_ = lv[p].first_mkt_order_
                 /\ lv2[p].next_entry_ = IF p = before THEN after ELSE lv[p].next_entry_
                 /\ lv2[p].prev_entry_ = IF p = after THEN before ELSE lv[p].prev_entry_
      <4>1. lv[p] \in Level
        BY <3>9, <1>1
      <4>2. /\ m1[p] \in Level /\ m1[p].side = lv[p].side
            /\ m1[p].first_mkt_order_ = lv[p].first_mkt_order_
            /\ m1[p].next_entry_ = IF p = before THEN after ELSE lv[p].next_entry_
            /\ m1[p].prev_entry_ = lv[p].prev_entry_
        BY <4>1, <3>2, <3>3
      <4>3. /\ m2[p] \in Level /\ m2[p].side = m1[p].side
            /\ m2[p].first_mkt_order_ = m1[p].first_mkt_order_
            /\ m2[p].next_entry_ = m1[p].next_entry_
            /\ m2[p].prev_entry_ = IF p = after THEN before ELSE m1[p].prev_entry_
        BY <4>2, <3>5, <3>6
      <4> QED BY <4>2, <4>3, <3>7, <3>9
    <3> QED BY <3>7, <3>8, <3>9
  <2>4. LevelsOf(lv2, side) = M
    <3> HIDE DEF lv2, lv
    <3> QED BY <2>3, <1>1 DEF LevelsOf, lv
  <2>5. LevelsLinked(lv2, side, by_price_'[side])
    <3>1. PICK next2, prev2 : /\ next2 = [p \in M |-> lv2[p].next_entry_]
                              /\ prev2 = [p \in M |-> lv2[p].prev_entry_]
      OBVIOUS
    <3>2. /\ \A p \in M : next2[p] = IF p = prev[price] THEN next[price] ELSE next[p]
          /\ \A p \in M : prev2[p] = IF p = next[price] THEN prev[price] ELSE prev[p]
      <4>1. \A p \in M : p \in Prices /\ p \in L /\ p # price
        BY <1>2
      <4> HIDE DEF lv2, lv
      <4> QED BY <2>3, <1>3, <1>5, <3>1, <4>1
    <3>3. L \in SUBSET Prices /\ price \in L /\ next[price] # price
      BY <1>2, <1>5, <1>11
    <3> HIDE DEF next, prev, best
    <3>4. LinksOf(M, side, next2, prev2, IF best = price THEN next[price] ELSE best)
      <4> HIDE DEF L
      <4>1. M = L \ {price}
        OBVIOUS
      <4> HIDE DEF M
      <4>2. PICK n, b, top : n = next /\ b = prev /\ top = best
        OBVIOUS
      <4>3. LinksOf(L, side, n, b, top) /\ n[price] # price
        BY <4>2, <1>4, <3>3, Zenon
      <4>4. /\ \A p \in M : next2[p] = IF p = b[price] THEN n[price] ELSE n[p]
            /\ \A p \in M : prev2[p] = IF p = n[price] THEN b[price] ELSE b[p]
        BY <4>2, <3>2, Zenon
      <4>5. LinksOf(M, side, next2, prev2, IF top = price THEN n[price] ELSE top)
        <5>1. side \in Sides
          OBVIOUS
        <5> QED BY ONLY <5>1, <4>1, <4>3, <4>4, <3>3, LinkLeaves
      <4> QED BY <4>2, <4>5, Zenon
    <3>5. M # {} /\ LinksOf(M, side, next2, prev2, by_price_'[side])
      BY <3>4, <1>5, <1>9, <1>11
    <3> HIDE DEF M
    <3> QED BY <3>1, <3>5, <2>4, Zenon DEF LevelsLinked
  <2>6. ASSUME NEW s \in Sides, s # side PROVE LevelsLinked(lv2, s, by_price_'[s])
    <3>1. LevelsOf(lv2, s) = LevelsOf(lv, s)
      <4>1. lv[price].side # s
        BY <2>6
      <4> HIDE DEF lv2, lv
      <4> QED BY <4>1, <2>3, <1>1 DEF LevelsOf
    <3>2. \A p \in LevelsOf(lv, s) : /\ lv2[p].next_entry_ = lv[p].next_entry_
                                     /\ lv2[p].prev_entry_ = lv[p].prev_entry_
      <4>1. \A p \in LevelsOf(lv, s) : p \in Prices /\ lv[p] # None /\ p # before
                                       /\ p # after /\ p # price
        BY <1>3, <1>5, <2>6 DEF LevelsOf
      <4> HIDE DEF lv2, lv
      <4> QED BY <4>1, <2>3
    <3>3. LevelsLinked(lv, s, by_price_[s])
      BY DEF RingsLinked
    <3> HIDE DEF lv, lv2
    <3> QED BY <3>1, <3>2, <3>3, <1>9, <2>6, LevelsKept
  <2>7. RingsLinked'
    BY <2>5, <2>6 DEF RingsLinked
  <2>8. \A p \in Prices \ {price} : SameLevel(p)
    BY <2>3, <1>1 DEF SameLevel
  <2> QED BY <2>3, <2>7, <2>8, <1>9, <1>11
<1> QED BY <1>10, <1>11

-----------------------------------------------------------------------------
\* The ring of a price as a list.

\* A list of the orders of a price has as many places as there are orders.
LEMMA ListCounts ==
  ASSUME NEW orders, NEW first, NEW p, NEW k, NEW q, OrdersListed(orders, first, p, k, q)
  PROVE  Cardinality(HeldAt(orders, p)) = k
<1>1. /\ k \in Nat /\ q \in [1 .. k -> OrderIds] /\ HeldAt(orders, p) = {q[i] : i \in 1 .. k}
      /\ \A i, j \in 1 .. k : q[i] = q[j] => i = j
  BY DEF OrdersListed, Goes
<1> DEFINE S == {q[i] : i \in 1 .. k}
<1>2. q \in [1 .. k -> S] /\ \A x \in S : \E i \in 1 .. k : q[i] = x
  BY <1>1
<1> HIDE DEF S
<1>3. q \in Bijection(1 .. k, S)
  BY <1>1, <1>2 DEF Bijection, Injection, Surjection, IsInjective
<1>4. IsFiniteSet(1 .. k) /\ Cardinality(1 .. k) = k
  BY <1>1, FS_Interval
<1>5. ExistsBijection(1 .. k, S)
  BY <1>3 DEF ExistsBijection
<1>6. Cardinality(S) = k
  BY <1>4, <1>5, FS_Bijection
<1> QED BY <1>1, <1>6 DEF S

\* The walk along the ring reads it.
LEMMA QueueAtIs ==
  ASSUME NEW orders, NEW levels, NEW p, NEW k, NEW q,
         OrdersListed(orders, levels[p].first_mkt_order_, p, k, q)
  PROVE  QueueAt(orders, levels, p) = q
<1> DEFINE first == levels[p].first_mkt_order_
           Reads(f) == f = [n \in 1 .. k |-> IF n = 1 THEN first
                                             ELSE orders[f[n - 1]].next_order_]
<1>1. k \in Nat /\ q = [n \in 1 .. k |-> q[n]]
  BY DEF OrdersListed, Goes
<1>2. /\ q[1] = first
      /\ \A n \in 1 .. k : n # k => orders[q[n]].next_order_ = q[n + 1]
  BY DEF OrdersListed, Goes, After
<1> HIDE DEF first
<1>3. Reads(q)
  <2>1. \A n \in 1 .. k : q[n] = IF n = 1 THEN first ELSE orders[q[n - 1]].next_order_
    <3> SUFFICES ASSUME NEW n \in 1 .. k
                 PROVE  q[n] = IF n = 1 THEN first ELSE orders[q[n - 1]].next_order_
      OBVIOUS
    <3>1. CASE n = 1
      BY <3>1, <1>2
    <3>2. CASE n # 1
      <4>1. n - 1 \in 1 .. k /\ n - 1 # k /\ (n - 1) + 1 = n
        BY <3>2, <1>1
      <4> QED BY <4>1, <3>2, <1>2
    <3> QED BY <3>1, <3>2
  <2> QED BY <2>1, <1>1
<1>4. ASSUME NEW f, Reads(f) PROVE f = q
  <2>1. /\ f = [n \in 1 .. k |-> f[n]]
        /\ \A n \in 1 .. k : f[n] = IF n = 1 THEN first ELSE orders[f[n - 1]].next_order_
    BY <1>4
  <2>2. \A n \in 1 .. k : q[n] = IF n = 1 THEN first ELSE orders[q[n - 1]].next_order_
    BY <1>3
  <2>3. \A n \in 1 .. k : f[n] = q[n]
    <3> DEFINE Bad == {n \in Nat : n \in 1 .. k /\ f[n] # q[n]}
    <3>1. \A n \in 1 .. k : n \in Nat
      BY <1>1
    <3>2. SUFFICES ASSUME Bad # {} PROVE FALSE
      BY <3>1, Zenon
    <3>3. PICK n \in Bad : \A m \in Bad : n <= m
      BY <3>2, LeastExists, Zenon
    <3>4. n \in 1 .. k /\ f[n] # q[n]
      OBVIOUS
    <3>5. n # 1 => n - 1 \in 1 .. k /\ f[n - 1] = q[n - 1]
      BY <3>3, <3>4, <1>1
    <3> HIDE DEF Bad, Reads
    <3> QED BY ONLY <3>4, <3>5, <2>1, <2>2
  <2> QED BY <2>1, <2>3, <1>1
<1>5. (CHOOSE f : Reads(f)) = q
  <2> HIDE DEF Reads
  <2> QED BY <1>3, <1>4, Zenon
<1>6. Cardinality(HeldAt(orders, p)) = k
  BY ListCounts
<1> QED BY <1>5, <1>6, Zenon DEF QueueAt, first

\* A ring nothing changes in.
LEMMA RingKept ==
  ASSUME NEW orders, NEW orders2, NEW first, NEW p, NEW k, NEW q,
         OrdersListed(orders, first, p, k, q),
         HeldAt(orders2, p) = HeldAt(orders, p),
         \A o \in HeldAt(orders, p) :
           /\ orders2[o].next_order_ = orders[o].next_order_
           /\ orders2[o].prev_order_ = orders[o].prev_order_
  PROVE  OrdersListed(orders2, first, p, k, q)
<1>1. \A i \in 1 .. k : q[i] \in HeldAt(orders, p)
  BY DEF OrdersListed
<1> QED BY <1>1 DEF OrdersListed, Goes

\* An order joins at the end.
Longer(k, q, order) == [i \in 1 .. (k + 1) |-> IF i = k + 1 THEN order ELSE q[i]]
LEMMA OrderJoins ==
  ASSUME NEW orders, NEW orders2, NEW first, NEW p, NEW k, NEW q,
         OrdersListed(orders, first, p, k, q),
         NEW order \in OrderIds, order \notin HeldAt(orders, p),
         HeldAt(orders2, p) = HeldAt(orders, p) \cup {order},
         orders2[order].next_order_ = first,
         orders2[order].prev_order_ = orders[first].prev_order_,
         \A o \in HeldAt(orders, p) :
           /\ orders2[o].next_order_ = IF o = orders[first].prev_order_ THEN order
                                       ELSE orders[o].next_order_
           /\ orders2[o].prev_order_ = IF o = first THEN order ELSE orders[o].prev_order_
  PROVE  OrdersListed(orders2, first, p, k + 1, Longer(k, q, order))
<1> DEFINE r == Longer(k, q, order)
<1>1. /\ k \in Nat \ {0} /\ q \in [1 .. k -> OrderIds] /\ q[1] = first
      /\ \A i, j \in 1 .. k : q[i] = q[j] => i = j
      /\ \A i \in 1 .. k : /\ orders[q[i]].next_order_ = q[After(k, i)]
                           /\ orders[q[i]].prev_order_ = q[Before(k, i)]
      /\ HeldAt(orders, p) = {q[i] : i \in 1 .. k}
  BY DEF OrdersListed, Goes
<1>2. /\ r \in [1 .. (k + 1) -> OrderIds] /\ r[k + 1] = order
      /\ \A i \in 1 .. k : r[i] = q[i] /\ q[i] # order
      /\ \A i \in 1 .. (k + 1) : i = k + 1 \/ i \in 1 .. k
      /\ 1 \in 1 .. k /\ k \in 1 .. k /\ k + 1 \in 1 .. (k + 1)
  BY <1>1 DEF Longer
<1> HIDE DEF r
<1>3. orders[first].prev_order_ = q[k]
  BY <1>1, <1>2 DEF Before
<1>4. ASSUME NEW i \in 1 .. (k + 1)
      PROVE  /\ orders2[r[i]].next_order_ = r[After(k + 1, i)]
             /\ orders2[r[i]].prev_order_ = r[Before(k + 1, i)]
  <2>1. CASE i = k + 1
    <3>1. After(k + 1, i) = 1 /\ Before(k + 1, i) = k
      BY <2>1, <1>1 DEF After, Before
    <3> QED BY <2>1, <3>1, <1>1, <1>2, <1>3
  <2>2. CASE i # k + 1
    <3>1. i \in 1 .. k /\ r[i] = q[i] /\ q[i] \in HeldAt(orders, p)
      BY <2>2, <1>1, <1>2
    <3>2. orders2[r[i]].next_order_ = r[After(k + 1, i)]
      <4>1. CASE i = k
        <5>1. After(k + 1, i) = k + 1
          BY <4>1, <1>1 DEF After
        <5> QED BY <4>1, <5>1, <3>1, <1>2, <1>3
      <4>2. CASE i # k
        <5>1. After(k + 1, i) = i + 1 /\ After(k, i) = i + 1 /\ i + 1 \in 1 .. k
          BY <4>2, <3>1, <1>1 DEF After
        <5>2. q[i] # q[k]
          BY <4>2, <3>1, <1>1, <1>2
        <5> QED BY <5>1, <5>2, <3>1, <1>1, <1>2, <1>3
      <4> QED BY <4>1, <4>2
    <3>3. orders2[r[i]].prev_order_ = r[Before(k + 1, i)]
      <4>1. CASE i = 1
        <5>1. Before(k + 1, i) = k + 1
          BY <4>1 DEF Before
        <5> QED BY <4>1, <5>1, <3>1, <1>1, <1>2
      <4>2. CASE i # 1
        <5>1. Before(k + 1, i) = i - 1 /\ Before(k, i) = i - 1 /\ i - 1 \in 1 .. k
          BY <4>2, <3>1, <1>1 DEF Before
        <5>2. q[i] # first
          BY <4>2, <3>1, <1>1, <1>2
        <5> QED BY <5>1, <5>2, <3>1, <1>1, <1>2
      <4> QED BY <4>1, <4>2
    <3> QED BY <3>2, <3>3
  <2> QED BY <2>1, <2>2
<1>5. \A i, j \in 1 .. (k + 1) : r[i] = r[j] => i = j
  BY <1>1, <1>2
<1>6. HeldAt(orders2, p) = {r[i] : i \in 1 .. (k + 1)}
  <2>1. \A o : o \in HeldAt(orders2, p) <=> o = order \/ \E i \in 1 .. k : o = q[i]
    BY <1>1
  <2>2. \A i \in 1 .. k : i \in 1 .. (k + 1)
    BY <1>1
  <2> QED BY <2>1, <2>2, <1>2
<1>7. k + 1 \in Nat \ {0} /\ r[1] = first
  BY <1>1, <1>2
<1>8. Goes(orders2, first, k + 1, r)
  BY <1>2, <1>4, <1>5, <1>7 DEF Goes
<1> QED BY <1>6, <1>8, Zenon DEF OrdersListed, r

\* Round a ring without place j: the places after it move up.
Moved(j, i) == IF i < j THEN i ELSE i + 1
LEMMA PlacesWithout ==
  ASSUME NEW k \in Nat, k > 1, NEW j \in 1 .. k, NEW i \in 1 .. (k - 1)
  PROVE  /\ Moved(j, i) \in 1 .. k /\ Moved(j, i) # j
         /\ After(k - 1, i) \in 1 .. (k - 1) /\ Before(k - 1, i) \in 1 .. (k - 1)
         /\ Moved(j, After(k - 1, i)) = IF Moved(j, i) = Before(k, j) THEN After(k, j)
                                        ELSE After(k, Moved(j, i))
         /\ Moved(j, Before(k - 1, i)) = IF Moved(j, i) = After(k, j) THEN Before(k, j)
                                         ELSE Before(k, Moved(j, i))
BY DEF Moved, After, Before

\* The places of a ring.
LEMMA Places ==
  ASSUME NEW k \in Nat \ {0}, NEW i \in 1 .. k
  PROVE  /\ After(k, i) \in 1 .. k /\ Before(k, i) \in 1 .. k
         /\ Before(k, i) = i <=> k = 1
         /\ Before(k, After(k, i)) = i /\ After(k, Before(k, i)) = i
BY DEF After, Before

\* An order leaves a ring of several.
Shorter(k, q, j) == [i \in 1 .. (k - 1) |-> q[Moved(j, i)]]
LEMMA OrderLeaves ==
  ASSUME NEW orders, NEW orders2, NEW first, NEW p, NEW k, NEW q,
         OrdersListed(orders, first, p, k, q), k > 1, NEW j \in 1 .. k,
         HeldAt(orders2, p) = HeldAt(orders, p) \ {q[j]},
         \A o \in HeldAt(orders, p) : o # q[j] =>
           /\ orders2[o].next_order_ = IF o = orders[q[j]].prev_order_ THEN orders[q[j]].next_order_
                                       ELSE orders[o].next_order_
           /\ orders2[o].prev_order_ = IF o = orders[q[j]].next_order_ THEN orders[q[j]].prev_order_
                                       ELSE orders[o].prev_order_
  PROVE  OrdersListed(orders2, IF first = q[j] THEN orders[q[j]].next_order_ ELSE first,
                      p, k - 1, Shorter(k, q, j))
<1> DEFINE r == Shorter(k, q, j)
           first2 == IF first = q[j] THEN orders[q[j]].next_order_ ELSE first
<1>1. /\ k \in Nat \ {0} /\ q \in [1 .. k -> OrderIds] /\ q[1] = first
      /\ \A i, l \in 1 .. k : q[i] = q[l] => i = l
      /\ \A i \in 1 .. k : /\ orders[q[i]].next_order_ = q[After(k, i)]
                           /\ orders[q[i]].prev_order_ = q[Before(k, i)]
      /\ HeldAt(orders, p) = {q[i] : i \in 1 .. k}
  BY DEF OrdersListed, Goes
<1>2. /\ k - 1 \in Nat \ {0}
      /\ \A i \in 1 .. (k - 1) : Moved(j, i) \in 1 .. k /\ Moved(j, i) # j
  BY <1>1, PlacesWithout
<1>3. /\ r \in [1 .. (k - 1) -> OrderIds]
      /\ \A i \in 1 .. (k - 1) : r[i] = q[Moved(j, i)]
  BY <1>1, <1>2 DEF Shorter
<1> HIDE DEF r
<1>4. \A i, l \in 1 .. k : q[i] = q[l] <=> i = l
  BY <1>1
<1>5. \A i \in 1 .. k : After(k, i) \in 1 .. k /\ Before(k, i) \in 1 .. k
  BY <1>1, Places
<1>6. ASSUME NEW i \in 1 .. (k - 1)
      PROVE  /\ orders2[r[i]].next_order_ = r[After(k - 1, i)]
             /\ orders2[r[i]].prev_order_ = r[Before(k - 1, i)]
  <2> DEFINE s == Moved(j, i)
  <2>1. /\ s \in 1 .. k /\ s # j
        /\ After(k - 1, i) \in 1 .. (k - 1) /\ Before(k - 1, i) \in 1 .. (k - 1)
        /\ Moved(j, After(k - 1, i)) = IF s = Before(k, j) THEN After(k, j) ELSE After(k, s)
        /\ Moved(j, Before(k - 1, i)) = IF s = After(k, j) THEN Before(k, j) ELSE Before(k, s)
    BY <1>1, PlacesWithout
  <2>2. r[i] = q[s] /\ q[s] # q[j] /\ q[s] \in HeldAt(orders, p)
    BY <2>1, <1>1, <1>3
  <2> HIDE DEF s
  <2>3. /\ q[s] = q[After(k, j)] <=> s = After(k, j)
        /\ q[s] = q[Before(k, j)] <=> s = Before(k, j)
    BY <2>1, <1>4, <1>5
  <2>4. /\ orders[q[j]].next_order_ = q[After(k, j)] /\ orders[q[j]].prev_order_ = q[Before(k, j)]
        /\ orders[q[s]].next_order_ = q[After(k, s)] /\ orders[q[s]].prev_order_ = q[Before(k, s)]
    BY <2>1, <1>1
  <2>5. orders2[q[s]].next_order_ = IF s = Before(k, j) THEN q[After(k, j)] ELSE q[After(k, s)]
    BY <2>2, <2>3, <2>4
  <2>6. orders2[q[s]].prev_order_ = IF s = After(k, j) THEN q[Before(k, j)] ELSE q[Before(k, s)]
    BY <2>2, <2>3, <2>4
  <2>7. /\ r[After(k - 1, i)] = q[Moved(j, After(k - 1, i))]
        /\ r[Before(k - 1, i)] = q[Moved(j, Before(k - 1, i))]
    BY <2>1, <1>3
  <2> QED BY <2>1, <2>2, <2>5, <2>6, <2>7
<1>7. \A i, l \in 1 .. (k - 1) : r[i] = r[l] => i = l
  <2>1. \A i, l \in 1 .. (k - 1) : Moved(j, i) = Moved(j, l) => i = l
    BY <1>1 DEF Moved
  <2> QED BY <2>1, <1>2, <1>3, <1>4
<1>8. HeldAt(orders2, p) = {r[i] : i \in 1 .. (k - 1)}
  <2>1. \A i \in 1 .. (k - 1) : r[i] \in HeldAt(orders2, p)
    BY <1>1, <1>2, <1>3, <1>4
  <2>2. ASSUME NEW o \in HeldAt(orders2, p) PROVE \E i \in 1 .. (k - 1) : r[i] = o
    <3>1. PICK m \in 1 .. k : o = q[m] /\ m # j
      BY <1>1
    <3>2. CASE m < j
      <4>1. m \in 1 .. (k - 1) /\ Moved(j, m) = m
        BY <3>2, <1>1 DEF Moved
      <4> QED BY <4>1, <3>1, <1>3
    <3>3. CASE m > j
      <4>1. m - 1 \in 1 .. (k - 1) /\ Moved(j, m - 1) = m
        BY <3>3, <1>1 DEF Moved
      <4> QED BY <4>1, <3>1, <1>3
    <3> QED BY <3>1, <3>2, <3>3
  <2> QED BY <2>1, <2>2
<1>9. r[1] = first2
  <2>1. 1 \in 1 .. (k - 1) /\ 1 \in 1 .. k /\ r[1] = q[Moved(j, 1)]
    BY <1>1, <1>2, <1>3
  <2>2. CASE j = 1
    <3>1. Moved(j, 1) = 2 /\ After(k, j) = 2
      BY <2>2, <1>1 DEF Moved, After
    <3> QED BY <2>1, <2>2, <3>1, <1>1
  <2>3. CASE j # 1
    <3>1. Moved(j, 1) = 1 /\ q[1] # q[j]
      BY <2>1, <2>3, <1>4 DEF Moved
    <3> QED BY <2>1, <3>1, <1>1
  <2> QED BY <2>2, <2>3
<1> HIDE DEF first2
<1>10. Goes(orders2, first2, k - 1, r)
  BY <1>2, <1>3, <1>6, <1>7, <1>9 DEF Goes
<1> QED BY <1>8, <1>10, Zenon DEF OrdersListed, r, first2

-----------------------------------------------------------------------------
\* What the updates do to the tables.

OrdersAllLinked ==
  \A p \in Prices : OrdersLinked(oid_to_order_, price_orders_at_price_, p)

\* What an update leaves of an order: all but its links.
SameOrder(o) ==
  /\ oid_to_order_'[o] = None <=> oid_to_order_[o] = None
  /\ oid_to_order_[o] # None =>
       /\ oid_to_order_'[o].side = oid_to_order_[o].side
       /\ oid_to_order_'[o].price = oid_to_order_[o].price
       /\ oid_to_order_'[o].qty = oid_to_order_[o].qty
SameLinks(o) ==
  oid_to_order_[o] # None =>
    /\ oid_to_order_'[o].next_order_ = oid_to_order_[o].next_order_
    /\ oid_to_order_'[o].prev_order_ = oid_to_order_[o].prev_order_

\* Nothing happens at price p.
Untouched(p) ==
  /\ SameLevel(p)
  /\ HeldAt(oid_to_order_', p) = HeldAt(oid_to_order_, p)
  /\ \A o \in HeldAt(oid_to_order_, p) : SameOrder(o) /\ SameLinks(o)

\* Its ring stays as it is then.
LEMMA UntouchedListed ==
  ASSUME NEW p \in Prices, price_orders_at_price_[p] # None, Untouched(p),
         NEW k, NEW q,
         OrdersListed(oid_to_order_, price_orders_at_price_[p].first_mkt_order_, p, k, q)
  PROVE  OrdersListed(oid_to_order_', price_orders_at_price_'[p].first_mkt_order_, p, k, q)
<1>1. price_orders_at_price_'[p].first_mkt_order_ = price_orders_at_price_[p].first_mkt_order_
  BY DEF Untouched, SameLevel
<1>2. HeldAt(oid_to_order_', p) = HeldAt(oid_to_order_, p)
  BY DEF Untouched
<1>3. \A o \in HeldAt(oid_to_order_, p) :
        /\ oid_to_order_'[o].next_order_ = oid_to_order_[o].next_order_
        /\ oid_to_order_'[o].prev_order_ = oid_to_order_[o].prev_order_
  BY DEF Untouched, SameLinks, HeldAt
<1>4. PICK orders, orders2 : orders = oid_to_order_ /\ orders2 = oid_to_order_'
  OBVIOUS
<1>5. OrdersListed(orders2, price_orders_at_price_[p].first_mkt_order_, p, k, q)
  BY <1>2, <1>3, <1>4, RingKept
<1> QED BY <1>1, <1>4, <1>5, Zenon

LEMMA UntouchedLinked ==
  ASSUME NEW p \in Prices, Untouched(p),
         OrdersLinked(oid_to_order_, price_orders_at_price_, p)
  PROVE  OrdersLinked(oid_to_order_', price_orders_at_price_', p)
<1>1. CASE price_orders_at_price_[p] = None
  BY <1>1 DEF OrdersLinked, Untouched, SameLevel
<1>2. CASE price_orders_at_price_[p] # None
  <2>1. PICK k, q : OrdersListed(oid_to_order_, price_orders_at_price_[p].first_mkt_order_, p, k, q)
    BY <1>2 DEF OrdersLinked
  <2>2. OrdersListed(oid_to_order_', price_orders_at_price_'[p].first_mkt_order_, p, k, q)
    BY <1>2, <2>1, UntouchedListed
  <2>3. price_orders_at_price_'[p] # None
        /\ price_orders_at_price_'[p].side = price_orders_at_price_[p].side
    BY <1>2 DEF Untouched, SameLevel
  <2>4. \A o \in HeldAt(oid_to_order_', p) : oid_to_order_'[o].side = price_orders_at_price_'[p].side
    BY <2>3 DEF OrdersLinked, Untouched, SameOrder, HeldAt
  <2> QED BY <2>2, <2>3, <2>4 DEF OrdersLinked
<1> QED BY <1>1, <1>2

\* An order that is held is a record, rests at a price that has a level, on its
\* side, and is in the ring of that level.
LEMMA HeldOrder ==
  ASSUME TablesTyped, OrdersAllLinked, NEW order \in Held
  PROVE  LET it == oid_to_order_[order]
             level == price_orders_at_price_[it.price]
         IN /\ it \in Order /\ order \in OrderIds /\ order \in HeldAt(oid_to_order_, it.price)
            /\ level \in Level /\ level # None /\ level.side = it.side
            /\ \E k, q : /\ OrdersListed(oid_to_order_, level.first_mkt_order_, it.price, k, q)
                         /\ \E j \in 1 .. k : q[j] = order
<1> DEFINE it == oid_to_order_[order]
           level == price_orders_at_price_[it.price]
<1>1. it \in Order /\ order \in OrderIds /\ order \in HeldAt(oid_to_order_, it.price)
  BY DEF TablesTyped, Typed, Held, HeldAt
<1>2. it.price \in Prices
  BY <1>1 DEF Order
<1>3. OrdersLinked(oid_to_order_, price_orders_at_price_, it.price)
  BY <1>2 DEF OrdersAllLinked
<1>4. level # None /\ level.side = it.side
  BY <1>1, <1>3 DEF OrdersLinked
<1>5. level \in Level
  BY <1>2, <1>4 DEF TablesTyped, Typed
<1>6. PICK k, q : OrdersListed(oid_to_order_, level.first_mkt_order_, it.price, k, q)
  BY <1>3, <1>4 DEF OrdersLinked
<1>7. \E j \in 1 .. k : q[j] = order
  BY <1>1, <1>6 DEF OrdersListed
<1> QED BY <1>1, <1>4, <1>5, <1>6, <1>7

\* The list of an order alone.
Only(order) == [i \in 1 .. 1 |-> order]

\* addOrder, of a price that has no level.
LEMMA AddFirst ==
  ASSUME TablesTyped, RingsLinked, OrdersAllLinked,
         NEW order \in OrderIds \ Held, NEW side \in Sides, NEW price \in Prices,
         NEW qty \in Quantities, Add(order, side, price, qty),
         price_orders_at_price_[price] = None
  PROVE  /\ TablesTyped' /\ RingsLinked'
         /\ price_orders_at_price_'[price] # None /\ price_orders_at_price_'[price].side = side
         /\ OrdersListed(oid_to_order_', price_orders_at_price_'[price].first_mkt_order_,
                         price, 1, Only(order))
         /\ oid_to_order_'[order].qty = qty /\ oid_to_order_'[order].side = side
         /\ \A p \in Prices \ {price} : Untouched(p)
         /\ by_price_' = [by_price_ EXCEPT ![side] =
                            IF by_price_[side] = None \/ Worse(side, by_price_[side], price)
                            THEN price ELSE @]
<1> DEFINE new == [side |-> side, price |-> price, qty |-> qty,
                   prev_order_ |-> order, next_order_ |-> order]
<1>1. /\ oid_to_order_' = [oid_to_order_ EXCEPT ![order] = new]
      /\ AddOrdersAtPrice(side, price, order)
  BY Zenon DEF Add
<1>2. new \in Order /\ None \notin Order /\ oid_to_order_[order] = None
      /\ oid_to_order_ \in [OrderIds -> Order \cup {None}]
  BY MarketOrderBookAssumption DEF Order, Held, TablesTyped, Typed
<1>3. /\ price_orders_at_price_' \in [Prices -> Level \cup {None}]
      /\ RingsLinked'
      /\ price_orders_at_price_'[price] # None
      /\ price_orders_at_price_'[price].side = side
      /\ price_orders_at_price_'[price].first_mkt_order_ = order
      /\ \A p \in Prices \ {price} : SameLevel(p)
      /\ by_price_' = [by_price_ EXCEPT ![side] =
                         IF by_price_[side] = None \/ Worse(side, by_price_[side], price)
                         THEN price ELSE @]
  BY <1>1, LevelJoins
<1>4. /\ oid_to_order_' \in [OrderIds -> Order \cup {None}] /\ oid_to_order_'[order] = new
      /\ \A o \in OrderIds \ {order} : oid_to_order_'[o] = oid_to_order_[o]
  BY <1>1, <1>2
<1> HIDE DEF new
<1>5. by_price_' \in [Sides -> Prices \cup {None}]
  BY <1>3 DEF TablesTyped, Typed
<1>6. HeldAt(oid_to_order_', price) = {order}
  <2>1. HeldAt(oid_to_order_, price) = {}
    BY DEF OrdersAllLinked, OrdersLinked
  <2>2. new # None /\ new.price = price
    BY <1>2 DEF new
  <2> QED BY <2>1, <2>2, <1>2, <1>4 DEF HeldAt
<1>7. OrdersListed(oid_to_order_', order, price, 1, Only(order))
  <2>1. new.next_order_ = order /\ new.prev_order_ = order
    BY DEF new
  <2>2. Goes(oid_to_order_', order, 1, Only(order))
    BY <2>1, <1>4 DEF Goes, After, Before, Only
  <2> QED BY <2>2, <1>6 DEF OrdersListed, Only
<1>8. ASSUME NEW p \in Prices \ {price} PROVE Untouched(p)
  <2>1. new.price # p
    BY DEF new
  <2>2. HeldAt(oid_to_order_', p) = HeldAt(oid_to_order_, p)
    BY <2>1, <1>2, <1>4 DEF HeldAt
  <2>3. \A o \in HeldAt(oid_to_order_, p) : oid_to_order_'[o] = oid_to_order_[o]
    BY <1>2, <1>4 DEF HeldAt
  <2> QED BY <2>2, <2>3, <1>3 DEF Untouched, SameOrder, SameLinks
<1>9. new.qty = qty /\ new.side = side
  BY DEF new
<1> QED BY <1>3, <1>4, <1>5, <1>7, <1>8, <1>9 DEF TablesTyped, Typed

\* addOrder, of a price that has a level already.
LEMMA AddNext ==
  ASSUME TablesTyped, RingsLinked, OrdersAllLinked,
         NEW order \in OrderIds \ Held, NEW side \in Sides, NEW price \in Prices,
         NEW qty \in Quantities, Fits(side, price), Add(order, side, price, qty),
         price_orders_at_price_[price] # None,
         NEW k, NEW q,
         OrdersListed(oid_to_order_, price_orders_at_price_[price].first_mkt_order_, price, k, q)
  PROVE  /\ TablesTyped'
         /\ UNCHANGED <<price_orders_at_price_, by_price_>>
         /\ price_orders_at_price_[price].side = side
         /\ OrdersListed(oid_to_order_', price_orders_at_price_[price].first_mkt_order_,
                         price, k + 1, Longer(k, q, order))
         /\ oid_to_order_'[order].qty = qty /\ oid_to_order_'[order].side = side
         /\ \A o \in OrderIds \ {order} : SameOrder(o)
         /\ \A p \in Prices \ {price} : Untouched(p)
<1> DEFINE level == price_orders_at_price_[price]
           first == level.first_mkt_order_
           last == oid_to_order_[first].prev_order_
           new == [side |-> side, price |-> price, qty |-> qty,
                   prev_order_ |-> last, next_order_ |-> first]
           m1 == [oid_to_order_ EXCEPT ![order] = new]
           m2 == [m1 EXCEPT ![last].next_order_ = order]
           od == oid_to_order_
           od2 == oid_to_order_'
<1>1. /\ od2 = [m2 EXCEPT ![first].prev_order_ = order]
      /\ UNCHANGED <<price_orders_at_price_, by_price_>>
  BY Zenon DEF Add
<1>2. /\ od \in [OrderIds -> Order \cup {None}] /\ None \notin Order
      /\ od[order] = None /\ order \in OrderIds
  BY MarketOrderBookAssumption DEF TablesTyped, Typed, Held
<1>3. /\ k \in Nat \ {0} /\ q \in [1 .. k -> OrderIds] /\ q[1] = first
      /\ \A i \in 1 .. k : od[q[i]].prev_order_ = q[Before(k, i)]
      /\ HeldAt(od, price) = {q[i] : i \in 1 .. k}
  BY DEF OrdersListed, Goes
<1>4. first \in HeldAt(od, price) /\ last \in HeldAt(od, price)
  <2>1. 1 \in 1 .. k /\ k \in 1 .. k /\ Before(k, 1) = k
    BY <1>3 DEF Before
  <2> QED BY <2>1, <1>3
<1>5. /\ first \in OrderIds /\ last \in OrderIds /\ first # order /\ last # order
      /\ od[first] \in Order /\ od[last] \in Order
  BY <1>2, <1>4 DEF HeldAt
<1> HIDE DEF first, last
<1>6. /\ new \in Order /\ new # None /\ new.side = side /\ new.qty = qty /\ new.price = price
      /\ new.next_order_ = first /\ new.prev_order_ = last
  BY <1>2, <1>5 DEF Order
<1> HIDE DEF new
<1>7. /\ m1 \in [OrderIds -> Order \cup {None}] /\ m1[order] = new
      /\ \A o \in OrderIds : o # order => m1[o] = od[o]
  BY <1>2, <1>6
<1>8. m1[last] \in Order /\ m1[first] \in Order
  BY <1>5, <1>7
<1> HIDE DEF m1
<1>9. [m1[last] EXCEPT !.next_order_ = order] \in Order
  BY <1>2, <1>8 DEF Order
<1>10. /\ m2 \in [OrderIds -> Order \cup {None}]
       /\ \A o \in OrderIds : o # last => m2[o] = m1[o]
       /\ m2[last] = [m1[last] EXCEPT !.next_order_ = order]
  BY <1>5, <1>7, <1>9
<1>11. /\ m2[last] \in Order /\ m2[last].next_order_ = order
       /\ m2[last].side = m1[last].side /\ m2[last].price = m1[last].price
       /\ m2[last].qty = m1[last].qty /\ m2[last].prev_order_ = m1[last].prev_order_
  BY <1>8, <1>9, <1>10 DEF Order
<1>12. m2[first] \in Order
  BY <1>5, <1>8, <1>10, <1>11
<1> HIDE DEF m2
<1>13. [m2[first] EXCEPT !.prev_order_ = order] \in Order
  BY <1>2, <1>12 DEF Order
<1>14. /\ od2 \in [OrderIds -> Order \cup {None}]
       /\ \A o \in OrderIds : o # first => od2[o] = m2[o]
       /\ od2[first] = [m2[first] EXCEPT !.prev_order_ = order]
  BY <1>1, <1>5, <1>10, <1>13
<1>15. /\ od2[first] \in Order /\ od2[first].prev_order_ = order
       /\ od2[first].side = m2[first].side /\ od2[first].price = m2[first].price
       /\ od2[first].qty = m2[first].qty /\ od2[first].next_order_ = m2[first].next_order_
  BY <1>12, <1>13, <1>14 DEF Order
<1> HIDE DEF od2
<1>16. od2[order] = new
  BY <1>2, <1>5, <1>7, <1>10, <1>14
<1>17. ASSUME NEW o \in OrderIds, od[o] = None, o # order PROVE od2[o] = None
  <2>1. o # first /\ o # last
    BY <1>2, <1>5, <1>17
  <2> QED BY <2>1, <1>7, <1>10, <1>14, <1>17
<1>18. ASSUME NEW o \in OrderIds, od[o] # None
       PROVE  /\ od2[o] \in Order /\ od2[o].side = od[o].side
              /\ od2[o].price = od[o].price /\ od2[o].qty = od[o].qty
              /\ od2[o].next_order_ = IF o = last THEN order ELSE od[o].next_order_
              /\ od2[o].prev_order_ = IF o = first THEN order ELSE od[o].prev_order_
  <2>1. m1[o] = od[o] /\ m1[o] \in Order
    BY <1>2, <1>7, <1>18
  <2>2. /\ m2[o] \in Order /\ m2[o].side = od[o].side
        /\ m2[o].price = od[o].price /\ m2[o].qty = od[o].qty
        /\ m2[o].next_order_ = IF o = last THEN order ELSE od[o].next_order_
        /\ m2[o].prev_order_ = od[o].prev_order_
    BY <2>1, <1>10, <1>11
  <2> QED BY <2>2, <1>14, <1>15
<1>19. \A o \in OrderIds \ {order} : SameOrder(o)
  BY <1>2, <1>17, <1>18 DEF SameOrder, od2
<1>20. HeldAt(od2, price) = HeldAt(od, price) \cup {order}
  BY <1>2, <1>6, <1>16, <1>17, <1>18 DEF HeldAt
<1>21. \A p \in Prices \ {price} : HeldAt(od2, p) = HeldAt(od, p)
  BY <1>2, <1>6, <1>16, <1>17, <1>18 DEF HeldAt
<1>22. OrdersListed(od2, first, price, k + 1, Longer(k, q, order))
  <2>1. PICK orders, orders2 : orders = od /\ orders2 = od2
    OBVIOUS
  <2>2. orders[first].prev_order_ = last
    BY <2>1 DEF last, first
  <2>3. OrdersListed(orders, first, price, k, q)
    BY <2>1, Zenon DEF first
  <2>4. \A o \in HeldAt(orders, price) :
          /\ orders2[o].next_order_ = IF o = last THEN order ELSE orders[o].next_order_
          /\ orders2[o].prev_order_ = IF o = first THEN order ELSE orders[o].prev_order_
    BY <2>1, <1>18 DEF HeldAt
  <2>5. order \notin HeldAt(orders, price) /\ order \in OrderIds
    BY <2>1, <1>2 DEF HeldAt
  <2>6. /\ HeldAt(orders2, price) = HeldAt(orders, price) \cup {order}
        /\ orders2[order].next_order_ = first /\ orders2[order].prev_order_ = last
    BY <2>1, <1>6, <1>16, <1>20
  <2>7. OrdersListed(orders2, first, price, k + 1, Longer(k, q, order))
    BY ONLY <2>2, <2>3, <2>4, <2>5, <2>6, OrderJoins
  <2> QED BY <2>1, <2>7, Zenon
<1>23. level.side = side
  <2>1. level \in Level
    BY DEF TablesTyped, Typed
  <2>2. CASE level.side # side
    <3>1. price \in LevelsOf(price_orders_at_price_, IF side = "BUY" THEN "SELL" ELSE "BUY")
      BY <2>1, <2>2 DEF LevelsOf, Level, Sides
    <3>2. Worse(side, price, price)
      BY <3>1 DEF Fits
    <3> QED BY <3>2, WorseOrder
  <2> QED BY <2>2
<1>24. ASSUME NEW p \in Prices \ {price} PROVE Untouched(p)
  <2>1. \A o \in HeldAt(od, p) : o # order /\ o # first /\ o # last /\ od[o] # None /\ o \in OrderIds
    BY <1>2, <1>4 DEF HeldAt
  <2>2. \A o \in HeldAt(od, p) : SameOrder(o) /\ SameLinks(o)
    BY <2>1, <1>18, <1>19 DEF SameLinks, od2
  <2>3. SameLevel(p)
    BY <1>1 DEF SameLevel
  <2> QED BY <2>2, <2>3, <1>21 DEF Untouched, od2
<1>25. TablesTyped'
  BY <1>1, <1>14 DEF TablesTyped, Typed, od2
<1> QED BY <1>1, <1>6, <1>16, <1>19, <1>22, <1>23, <1>24, <1>25 DEF od2, first

\* MODIFY.
LEMMA ModifyEffect ==
  ASSUME TablesTyped, NEW order \in Held, NEW qty \in Quantities, Modify(order, qty)
  PROVE  /\ TablesTyped'
         /\ UNCHANGED <<price_orders_at_price_, by_price_>>
         /\ oid_to_order_'[order].qty = qty
         /\ \A o \in OrderIds :
              /\ oid_to_order_'[o] = None <=> oid_to_order_[o] = None
              /\ oid_to_order_[o] # None =>
                   /\ oid_to_order_'[o].side = oid_to_order_[o].side
                   /\ oid_to_order_'[o].price = oid_to_order_[o].price
              /\ SameLinks(o)
         /\ \A o \in OrderIds \ {order} : oid_to_order_'[o] = oid_to_order_[o]
         /\ \A p \in Prices : HeldAt(oid_to_order_', p) = HeldAt(oid_to_order_, p)
         /\ \A p \in Prices \ {oid_to_order_[order].price} : Untouched(p)
<1> DEFINE od == oid_to_order_
           od2 == oid_to_order_'
<1>1. /\ od2 = [od EXCEPT ![order].qty = qty]
      /\ UNCHANGED <<price_orders_at_price_, by_price_>>
  BY Zenon DEF Modify
<1>2. /\ od \in [OrderIds -> Order \cup {None}] /\ None \notin Order
      /\ order \in OrderIds /\ od[order] \in Order
  BY MarketOrderBookAssumption DEF TablesTyped, Typed, Held
<1>3. [od[order] EXCEPT !.qty = qty] \in Order
  BY <1>2 DEF Order
<1>4. /\ od2 \in [OrderIds -> Order \cup {None}]
      /\ od2[order] = [od[order] EXCEPT !.qty = qty]
      /\ \A o \in OrderIds \ {order} : od2[o] = od[o]
  BY <1>1, <1>2, <1>3
<1>5. /\ od2[order] \in Order /\ od2[order].qty = qty
      /\ od2[order].side = od[order].side /\ od2[order].price = od[order].price
      /\ od2[order].next_order_ = od[order].next_order_
      /\ od2[order].prev_order_ = od[order].prev_order_
  BY <1>2, <1>3, <1>4 DEF Order
<1> HIDE DEF od2
<1>6. \A o \in OrderIds :
        /\ od2[o] = None <=> od[o] = None
        /\ od[o] # None => /\ od2[o].side = od[o].side /\ od2[o].price = od[o].price
                           /\ od2[o].next_order_ = od[o].next_order_
                           /\ od2[o].prev_order_ = od[o].prev_order_
  BY <1>2, <1>4, <1>5
<1>7. \A p \in Prices : HeldAt(od2, p) = HeldAt(od, p)
  BY <1>6 DEF HeldAt
<1>8. ASSUME NEW p \in Prices, p # od[order].price PROVE Untouched(p)
  <2>1. \A o \in HeldAt(od, p) : o \in OrderIds /\ od2[o] = od[o]
    BY <1>4, <1>8 DEF HeldAt
  <2>2. \A o \in HeldAt(od, p) : SameOrder(o) /\ SameLinks(o)
    BY <2>1 DEF SameOrder, SameLinks, od2
  <2>3. SameLevel(p)
    BY <1>1 DEF SameLevel
  <2> QED BY <2>2, <2>3, <1>7 DEF Untouched, od2
<1>9. TablesTyped'
  BY <1>1, <1>4 DEF TablesTyped, Typed, od2
<1> QED BY <1>1, <1>4, <1>5, <1>6, <1>7, <1>8, <1>9 DEF SameLinks, od2

\* removeOrder, of the only order of its price.
LEMMA CancelOnly ==
  ASSUME TablesTyped, RingsLinked, NEW order \in Held, NEW price \in Prices,
         price = oid_to_order_[order].price, Cancel(order),
         oid_to_order_[order].prev_order_ = order,
         price_orders_at_price_[price] # None,
         price_orders_at_price_[price].side = oid_to_order_[order].side,
         NEW k, NEW q, NEW j \in 1 .. k, q[j] = order,
         OrdersListed(oid_to_order_, price_orders_at_price_[price].first_mkt_order_, price, k, q)
  PROVE  /\ TablesTyped' /\ RingsLinked'
         /\ k = 1
         /\ price_orders_at_price_'[price] = None
         /\ HeldAt(oid_to_order_', price) = {}
         /\ \A p \in Prices \ {price} : Untouched(p)
         /\ \A s \in Sides : by_price_[s] # price => by_price_'[s] = by_price_[s]
<1> DEFINE od == oid_to_order_
           od2 == oid_to_order_'
           side == od[order].side
<1>1. /\ od2 = [od EXCEPT ![order] = None]
      /\ price_orders_at_price_' = LevelsWithout(price)
      /\ by_price_' = [by_price_ EXCEPT ![side] = BestWithout(side, price)]
  BY Zenon DEF Cancel
<1>2. /\ od \in [OrderIds -> Order \cup {None}] /\ None \notin Order
      /\ order \in OrderIds /\ od[order] \in Order
  BY MarketOrderBookAssumption DEF TablesTyped, Typed, Held
<1>3. side \in Sides
  BY <1>2 DEF Order
<1>4. /\ k \in Nat \ {0} /\ q \in [1 .. k -> OrderIds]
      /\ \A i, l \in 1 .. k : q[i] = q[l] => i = l
      /\ od[q[j]].prev_order_ = q[Before(k, j)]
      /\ HeldAt(od, price) = {q[i] : i \in 1 .. k}
  BY DEF OrdersListed, Goes
<1>5. k = 1
  <2>1. Before(k, j) \in 1 .. k
    BY <1>4, Places
  <2>2. Before(k, j) = j
    BY <2>1, <1>4
  <2> QED BY <2>2, <1>4, Places
<1>6. HeldAt(od, price) = {order}
  BY <1>4, <1>5
<1>7. /\ od2 \in [OrderIds -> Order \cup {None}] /\ od2[order] = None
      /\ \A o \in OrderIds \ {order} : od2[o] = od[o]
  BY <1>1, <1>2
<1>8. /\ price_orders_at_price_' \in [Prices -> Level \cup {None}]
      /\ by_price_' \in [Sides -> Prices \cup {None}]
      /\ RingsLinked'
      /\ price_orders_at_price_'[price] = None
      /\ \A p \in Prices \ {price} : SameLevel(p)
      /\ \A s \in Sides : by_price_[s] # price => by_price_'[s] = by_price_[s]
  <2>1. PICK s \in Sides : s = side
    BY <1>3
  <2>2. /\ s = price_orders_at_price_[price].side
        /\ price_orders_at_price_' = LevelsWithout(price)
        /\ by_price_' = [by_price_ EXCEPT ![s] = BestWithout(s, price)]
    BY <2>1, <1>1, Zenon
  <2> QED BY ONLY <2>2, s \in Sides, price \in Prices, TablesTyped, RingsLinked,
                  price_orders_at_price_[price] # None, LevelLeaves
<1> HIDE DEF od2
<1>9. HeldAt(od2, price) = {}
  BY <1>6, <1>7 DEF HeldAt
<1>10. ASSUME NEW p \in Prices, p # price PROVE Untouched(p)
  <2>1. HeldAt(od2, p) = HeldAt(od, p)
    BY <1>2, <1>7, <1>10 DEF HeldAt
  <2>2. \A o \in HeldAt(od, p) : o \in OrderIds /\ od2[o] = od[o]
    BY <1>7, <1>10 DEF HeldAt
  <2>3. \A o \in HeldAt(od, p) : SameOrder(o) /\ SameLinks(o)
    BY <2>2 DEF SameOrder, SameLinks, od2
  <2> QED BY <2>1, <2>3, <1>8, <1>10 DEF Untouched, od2
<1>11. TablesTyped'
  BY <1>7, <1>8 DEF TablesTyped, Typed, od2
<1> QED BY <1>5, <1>8, <1>9, <1>10, <1>11 DEF od2

\* removeOrder, of one of several orders of a price.
LEMMA CancelOne ==
  ASSUME TablesTyped, RingsLinked, NEW order \in Held, NEW price \in Prices,
         price = oid_to_order_[order].price, Cancel(order),
         oid_to_order_[order].prev_order_ # order,
         price_orders_at_price_[price] # None,
         NEW k, NEW q, NEW j \in 1 .. k, q[j] = order,
         OrdersListed(oid_to_order_, price_orders_at_price_[price].first_mkt_order_, price, k, q)
  PROVE  /\ TablesTyped' /\ RingsLinked'
         /\ k > 1
         /\ price_orders_at_price_'[price] # None
         /\ price_orders_at_price_'[price].side = price_orders_at_price_[price].side
         /\ OrdersListed(oid_to_order_', price_orders_at_price_'[price].first_mkt_order_,
                         price, k - 1, Shorter(k, q, j))
         /\ oid_to_order_'[order] = None
         /\ \A o \in OrderIds \ {order} : SameOrder(o)
         /\ \A p \in Prices \ {price} : Untouched(p)
         /\ UNCHANGED by_price_
<1> DEFINE od == oid_to_order_
           od2 == oid_to_order_'
           lv == price_orders_at_price_
           lv2 == price_orders_at_price_'
           before == od[order].prev_order_
           after == od[order].next_order_
           m1 == [od EXCEPT ![before].next_order_ = after]
           m2 == [m1 EXCEPT ![after].prev_order_ = before]
<1>1. /\ od2 = [m2 EXCEPT ![order] = None]
      /\ lv2 = [lv EXCEPT ![price].first_mkt_order_ = IF @ = order THEN after ELSE @]
      /\ UNCHANGED by_price_
  BY Zenon DEF Cancel
<1>2. /\ od \in [OrderIds -> Order \cup {None}] /\ None \notin Order
      /\ order \in OrderIds /\ od[order] \in Order
      /\ lv \in [Prices -> Level \cup {None}] /\ None \notin Level /\ lv[price] \in Level
  BY MarketOrderBookAssumption DEF TablesTyped, Typed, Held
<1>3. /\ k \in Nat \ {0} /\ q \in [1 .. k -> OrderIds]
      /\ \A i, l \in 1 .. k : q[i] = q[l] => i = l
      /\ od[q[j]].prev_order_ = q[Before(k, j)] /\ od[q[j]].next_order_ = q[After(k, j)]
      /\ HeldAt(od, price) = {q[i] : i \in 1 .. k}
  BY DEF OrdersListed, Goes
<1>4. /\ Before(k, j) \in 1 .. k /\ After(k, j) \in 1 .. k /\ Before(k, j) # j
      /\ k > 1
  <2>1. /\ Before(k, j) \in 1 .. k /\ After(k, j) \in 1 .. k
        /\ Before(k, j) = j <=> k = 1
    BY <1>3, Places
  <2>2. Before(k, j) # j
    BY <1>3
  <2> QED BY <2>1, <2>2, <1>3
<1>5. before \in HeldAt(od, price) /\ after \in HeldAt(od, price) /\ before # order
  BY <1>3, <1>4
<1>6. after # order
  <2>1. After(k, j) # j
    BY <1>3, <1>4 DEF After
  <2> QED BY <2>1, <1>3, <1>4
<1>7. /\ before \in OrderIds /\ after \in OrderIds
      /\ od[before] \in Order /\ od[after] \in Order
  BY <1>2, <1>5 DEF HeldAt
<1> HIDE DEF before, after
<1>8. [od[before] EXCEPT !.next_order_ = after] \in Order
  BY <1>7 DEF Order
<1>9. /\ m1 \in [OrderIds -> Order \cup {None}]
      /\ \A o \in OrderIds : o # before => m1[o] = od[o]
      /\ m1[before] = [od[before] EXCEPT !.next_order_ = after]
  BY <1>2, <1>7, <1>8
<1>10. /\ m1[before] \in Order /\ m1[before].next_order_ = after
       /\ m1[before].side = od[before].side /\ m1[before].price = od[before].price
       /\ m1[before].qty = od[before].qty /\ m1[before].prev_order_ = od[before].prev_order_
  BY <1>7, <1>8, <1>9 DEF Order
<1>11. m1[after] \in Order
  BY <1>7, <1>9, <1>10
<1> HIDE DEF m1
<1>12. [m1[after] EXCEPT !.prev_order_ = before] \in Order
  BY <1>7, <1>11 DEF Order
<1>13. /\ m2 \in [OrderIds -> Order \cup {None}]
       /\ \A o \in OrderIds : o # after => m2[o] = m1[o]
       /\ m2[after] = [m1[after] EXCEPT !.prev_order_ = before]
  BY <1>7, <1>9, <1>12
<1>14. /\ m2[after] \in Order /\ m2[after].prev_order_ = before
       /\ m2[after].side = m1[after].side /\ m2[after].price = m1[after].price
       /\ m2[after].qty = m1[after].qty /\ m2[after].next_order_ = m1[after].next_order_
  BY <1>11, <1>12, <1>13 DEF Order
<1> HIDE DEF m2
<1>15. /\ od2 \in [OrderIds -> Order \cup {None}] /\ od2[order] = None
       /\ \A o \in OrderIds : o # order => od2[o] = m2[o]
  BY <1>1, <1>2, <1>13
<1> HIDE DEF od2
<1>16. ASSUME NEW o \in OrderIds, od[o] = None PROVE od2[o] = None
  <2>1. o # before /\ o # after /\ o # order
    BY <1>2, <1>7, <1>16
  <2> QED BY <2>1, <1>9, <1>13, <1>15, <1>16
<1>17. ASSUME NEW o \in OrderIds, od[o] # None, o # order
       PROVE  /\ od2[o] \in Order /\ od2[o].side = od[o].side
              /\ od2[o].price = od[o].price /\ od2[o].qty = od[o].qty
              /\ od2[o].next_order_ = IF o = before THEN after ELSE od[o].next_order_
              /\ od2[o].prev_order_ = IF o = after THEN before ELSE od[o].prev_order_
  <2>1. od[o] \in Order
    BY <1>2, <1>17
  <2>2. /\ m1[o] \in Order /\ m1[o].side = od[o].side
        /\ m1[o].price = od[o].price /\ m1[o].qty = od[o].qty
        /\ m1[o].next_order_ = IF o = before THEN after ELSE od[o].next_order_
        /\ m1[o].prev_order_ = od[o].prev_order_
    BY <2>1, <1>9, <1>10
  <2>3. /\ m2[o] \in Order /\ m2[o].side = m1[o].side
        /\ m2[o].price = m1[o].price /\ m2[o].qty = m1[o].qty
        /\ m2[o].next_order_ = m1[o].next_order_
        /\ m2[o].prev_order_ = IF o = after THEN before ELSE m1[o].prev_order_
    BY <2>2, <1>13, <1>14
  <2> QED BY <2>2, <2>3, <1>15, <1>17
<1>18. \A o \in OrderIds \ {order} : SameOrder(o)
  BY <1>2, <1>16, <1>17 DEF SameOrder, od2
<1>19. HeldAt(od2, price) = HeldAt(od, price) \ {order}
  BY <1>2, <1>15, <1>16, <1>17 DEF HeldAt
<1>20. \A p \in Prices \ {price} : HeldAt(od2, p) = HeldAt(od, p)
  BY <1>2, <1>15, <1>16, <1>17 DEF HeldAt
<1>21. [lv[price] EXCEPT !.first_mkt_order_ = IF @ = order THEN after ELSE @] \in Level
  BY <1>2, <1>7 DEF Level
<1>22. /\ lv2 \in [Prices -> Level \cup {None}]
       /\ lv2[price] = [lv[price] EXCEPT !.first_mkt_order_ = IF @ = order THEN after ELSE @]
       /\ \A p \in Prices \ {price} : lv2[p] = lv[p]
  BY <1>1, <1>2, <1>21
<1>23. /\ lv2[price] \in Level /\ lv2[price].side = lv[price].side
       /\ lv2[price].next_entry_ = lv[price].next_entry_
       /\ lv2[price].prev_entry_ = lv[price].prev_entry_
       /\ lv2[price].first_mkt_order_ = IF lv[price].first_mkt_order_ = order THEN after
                                        ELSE lv[price].first_mkt_order_
  BY <1>2, <1>21, <1>22 DEF Level
<1> HIDE DEF lv2
<1>24. OrdersListed(od2, lv2[price].first_mkt_order_, price, k - 1, Shorter(k, q, j))
  <2>1. PICK orders, orders2, first : orders = od /\ orders2 = od2 /\ first = lv[price].first_mkt_order_
    OBVIOUS
  <2>2. orders[q[j]].prev_order_ = before /\ orders[q[j]].next_order_ = after
    BY <2>1 DEF before, after
  <2>3. OrdersListed(orders, first, price, k, q)
    BY <2>1, Zenon
  <2>4. \A o \in HeldAt(orders, price) : o # q[j] =>
          /\ orders2[o].next_order_ = IF o = before THEN after ELSE orders[o].next_order_
          /\ orders2[o].prev_order_ = IF o = after THEN before ELSE orders[o].prev_order_
    BY <2>1, <1>17 DEF HeldAt
  <2>5. HeldAt(orders2, price) = HeldAt(orders, price) \ {q[j]}
    BY <2>1, <1>19
  <2>6. k > 1 /\ j \in 1 .. k
    BY <1>4
  <2>7. OrdersListed(orders2, IF first = q[j] THEN after ELSE first,
                     price, k - 1, Shorter(k, q, j))
    BY ONLY <2>2, <2>3, <2>4, <2>5, <2>6, OrderLeaves
  <2>8. lv2[price].first_mkt_order_ = IF first = q[j] THEN after ELSE first
    BY <2>1, <1>23
  <2> QED BY <2>1, <2>7, <2>8, Zenon
<1>25. ASSUME NEW s \in Sides PROVE LevelsLinked(lv2, s, by_price_'[s])
  <2>1. \A p \in Prices : /\ lv2[p] = None <=> lv[p] = None
                          /\ lv[p] # None => /\ lv2[p].side = lv[p].side
                                             /\ lv2[p].next_entry_ = lv[p].next_entry_
                                             /\ lv2[p].prev_entry_ = lv[p].prev_entry_
    BY <1>2, <1>22, <1>23
  <2>2. LevelsOf(lv2, s) = LevelsOf(lv, s)
    BY <2>1 DEF LevelsOf
  <2>3. \A p \in LevelsOf(lv, s) : /\ lv2[p].next_entry_ = lv[p].next_entry_
                                   /\ lv2[p].prev_entry_ = lv[p].prev_entry_
    BY <2>1 DEF LevelsOf
  <2>4. LevelsLinked(lv, s, by_price_[s])
    BY DEF RingsLinked
  <2>5. PICK levels, levels2, best : levels = lv /\ levels2 = lv2 /\ best = by_price_[s]
    OBVIOUS
  <2>6. LevelsLinked(levels, s, best) /\ LevelsOf(levels2, s) = LevelsOf(levels, s)
    BY <2>2, <2>4, <2>5, Zenon
  <2>7. \A p \in LevelsOf(levels, s) : /\ levels2[p].next_entry_ = levels[p].next_entry_
                                       /\ levels2[p].prev_entry_ = levels[p].prev_entry_
    BY <2>3, <2>5, Zenon
  <2>8. LevelsLinked(levels2, s, best)
    BY ONLY <2>6, <2>7, LevelsKept
  <2>9. by_price_'[s] = by_price_[s]
    BY <1>1
  <2> QED BY <2>5, <2>8, <2>9, Zenon
<1>26. ASSUME NEW p \in Prices, p # price PROVE Untouched(p)
  <2>1. \A o \in HeldAt(od, p) : o # order /\ o # before /\ o # after /\ od[o] # None /\ o \in OrderIds
    BY <1>2, <1>5, <1>26 DEF HeldAt
  <2>2. \A o \in HeldAt(od, p) : SameOrder(o) /\ SameLinks(o)
    BY <2>1, <1>17, <1>18 DEF SameLinks, od2
  <2>3. SameLevel(p)
    BY <1>22, <1>26 DEF SameLevel, lv2
  <2> QED BY <2>2, <2>3, <1>20, <1>26 DEF Untouched, od2
<1>27. TablesTyped'
  BY <1>1, <1>15, <1>22 DEF TablesTyped, Typed, od2, lv2
<1>28. RingsLinked'
  BY <1>25 DEF RingsLinked, lv2
<1>29. lv2[price] # None /\ lv2[price].side = lv[price].side
  BY <1>2, <1>23
<1> QED BY <1>1, <1>4, <1>15, <1>18, <1>24, <1>26, <1>27, <1>28, <1>29 DEF od2, lv2

-----------------------------------------------------------------------------
\* An update changes the tables at one price of one side.

AtOnePrice(side, price) ==
  /\ TablesTyped' /\ RingsLinked'
  /\ OrdersLinked(oid_to_order_', price_orders_at_price_', price)
  /\ \A p \in Prices \ {price} : Untouched(p)
  /\ price_orders_at_price_[price] # None => price_orders_at_price_[price].side = side
  /\ price_orders_at_price_'[price] # None => price_orders_at_price_'[price].side = side
  /\ \A s \in Sides :
       /\ by_price_[s] # price
       /\ s = side => by_price_[s] # None /\ Worse(s, price, by_price_[s])
       => by_price_'[s] = by_price_[s]
  /\ UpdateBBO(side, price)

\* The orders of a ring are of the level's side when the new one is.
LEMMA ListedLinked ==
  ASSUME NEW orders, NEW levels, NEW p, levels[p] # None,
         NEW k, NEW q, OrdersListed(orders, levels[p].first_mkt_order_, p, k, q),
         \A o \in HeldAt(orders, p) : orders[o].side = levels[p].side
  PROVE  OrdersLinked(orders, levels, p)
BY Zenon DEF OrdersLinked

\* ADD changes nothing elsewhere.
LEMMA AddLocal ==
  ASSUME TablesTyped, RingsLinked, OrdersAllLinked,
         NEW order \in OrderIds \ Held, NEW side \in Sides, NEW price \in Prices,
         NEW qty \in Quantities, Fits(side, price), Add(order, side, price, qty)
  PROVE  AtOnePrice(side, price)
<1>0. UpdateBBO(side, price)
  BY Zenon DEF Add
<1>1. CASE price_orders_at_price_[price] = None
  <2>1. /\ TablesTyped' /\ RingsLinked'
        /\ price_orders_at_price_'[price] # None /\ price_orders_at_price_'[price].side = side
        /\ OrdersListed(oid_to_order_', price_orders_at_price_'[price].first_mkt_order_,
                        price, 1, Only(order))
        /\ oid_to_order_'[order].side = side
        /\ \A p \in Prices \ {price} : Untouched(p)
        /\ by_price_' = [by_price_ EXCEPT ![side] =
                           IF by_price_[side] = None \/ Worse(side, by_price_[side], price)
                           THEN price ELSE @]
    BY <1>1, AddFirst
  <2>2. \A o \in HeldAt(oid_to_order_', price) : o = order
    BY <2>1 DEF OrdersListed, Only
  <2>3. OrdersLinked(oid_to_order_', price_orders_at_price_', price)
    BY <2>1, <2>2, Zenon DEF OrdersLinked
  <2>4. ASSUME NEW s \in Sides, by_price_[s] # price,
               s = side => by_price_[s] # None /\ Worse(s, price, by_price_[s])
        PROVE  by_price_'[s] = by_price_[s]
    <3>1. by_price_ \in [Sides -> Prices \cup {None}]
      BY DEF TablesTyped, Typed
    <3>2. CASE s = side
      <4>1. ~ Worse(s, by_price_[s], price)
        BY <3>1, <3>2, <2>4, WorseOrder
      <4> QED BY <4>1, <3>1, <3>2, <2>1, <2>4
    <3> QED BY <3>1, <3>2, <2>1
  <2> QED BY <1>0, <1>1, <2>1, <2>3, <2>4 DEF AtOnePrice
<1>2. CASE price_orders_at_price_[price] # None
  <2>1. PICK k, q : OrdersListed(oid_to_order_, price_orders_at_price_[price].first_mkt_order_, price, k, q)
    BY <1>2 DEF OrdersAllLinked, OrdersLinked
  <2>2. /\ TablesTyped'
        /\ UNCHANGED <<price_orders_at_price_, by_price_>>
        /\ price_orders_at_price_[price].side = side
        /\ OrdersListed(oid_to_order_', price_orders_at_price_[price].first_mkt_order_,
                        price, k + 1, Longer(k, q, order))
        /\ oid_to_order_'[order].side = side
        /\ \A o \in OrderIds \ {order} : SameOrder(o)
        /\ \A p \in Prices \ {price} : Untouched(p)
    BY <1>2, <2>1, AddNext
  <2>3. RingsLinked'
    BY <2>2 DEF RingsLinked
  <2>4. ASSUME NEW o \in HeldAt(oid_to_order_', price)
        PROVE  oid_to_order_'[o].side = side
    <3>1. CASE o # order
      <4>1. o \in OrderIds /\ SameOrder(o) /\ oid_to_order_'[o] # None /\ oid_to_order_'[o].price = price
        BY <3>1, <2>2 DEF HeldAt
      <4>2. o \in HeldAt(oid_to_order_, price) /\ oid_to_order_'[o].side = oid_to_order_[o].side
        BY <4>1 DEF SameOrder, HeldAt
      <4> QED BY <4>2, <2>2 DEF OrdersAllLinked, OrdersLinked
    <3> QED BY <3>1, <2>2
  <2>5. OrdersLinked(oid_to_order_', price_orders_at_price_', price)
    BY <1>2, <2>2, <2>4, Zenon DEF OrdersLinked
  <2>6. \A s \in Sides : by_price_'[s] = by_price_[s]
    BY <2>2
  <2> QED BY <1>0, <2>2, <2>3, <2>5, <2>6, Zenon DEF AtOnePrice
<1> QED BY <1>1, <1>2

\* Nor does MODIFY.
LEMMA ModifyLocal ==
  ASSUME TablesTyped, RingsLinked, OrdersAllLinked, NEW order \in Held, NEW qty \in Quantities,
         Modify(order, qty)
  PROVE  /\ oid_to_order_[order].side \in Sides /\ oid_to_order_[order].price \in Prices
         /\ AtOnePrice(oid_to_order_[order].side, oid_to_order_[order].price)
<1> DEFINE price == oid_to_order_[order].price
           side == oid_to_order_[order].side
<1>1. /\ TablesTyped'
      /\ UNCHANGED <<price_orders_at_price_, by_price_>>
      /\ \A o \in OrderIds :
           /\ oid_to_order_'[o] = None <=> oid_to_order_[o] = None
           /\ oid_to_order_[o] # None =>
                /\ oid_to_order_'[o].side = oid_to_order_[o].side
                /\ oid_to_order_'[o].price = oid_to_order_[o].price
           /\ SameLinks(o)
      /\ \A p \in Prices : HeldAt(oid_to_order_', p) = HeldAt(oid_to_order_, p)
      /\ \A p \in Prices \ {price} : Untouched(p)
  BY ModifyEffect
<1>2. /\ oid_to_order_[order] \in Order
      /\ price_orders_at_price_[price] # None /\ price_orders_at_price_[price].side = side
  BY HeldOrder
<1>3. price \in Prices /\ side \in Sides
  BY <1>2 DEF Order
<1>4. PICK k, q : OrdersListed(oid_to_order_, price_orders_at_price_[price].first_mkt_order_, price, k, q)
  BY <1>2, <1>3 DEF OrdersAllLinked, OrdersLinked
<1> HIDE DEF price, side
<1>5. \A o \in HeldAt(oid_to_order_, price) :
        /\ oid_to_order_'[o].next_order_ = oid_to_order_[o].next_order_
        /\ oid_to_order_'[o].prev_order_ = oid_to_order_[o].prev_order_
        /\ oid_to_order_'[o].side = oid_to_order_[o].side
  BY <1>1 DEF HeldAt, SameLinks
<1>6. OrdersListed(oid_to_order_', price_orders_at_price_[price].first_mkt_order_, price, k, q)
  <2>1. PICK orders, orders2, first : /\ orders = oid_to_order_ /\ orders2 = oid_to_order_'
                                      /\ first = price_orders_at_price_[price].first_mkt_order_
    OBVIOUS
  <2>2. OrdersListed(orders, first, price, k, q) /\ HeldAt(orders2, price) = HeldAt(orders, price)
    BY <2>1, <1>1, <1>3, <1>4, Zenon
  <2>3. \A o \in HeldAt(orders, price) : /\ orders2[o].next_order_ = orders[o].next_order_
                                         /\ orders2[o].prev_order_ = orders[o].prev_order_
    BY <2>1, <1>5, Zenon
  <2>4. OrdersListed(orders2, first, price, k, q)
    BY ONLY <2>2, <2>3, RingKept
  <2> QED BY <2>1, <2>4, Zenon
<1>7. \A o \in HeldAt(oid_to_order_', price) : oid_to_order_'[o].side = side
  BY <1>1, <1>2, <1>3, <1>5 DEF OrdersAllLinked, OrdersLinked
<1>8. OrdersLinked(oid_to_order_', price_orders_at_price_', price)
  BY <1>1, <1>2, <1>6, <1>7, Zenon DEF OrdersLinked
<1>9. RingsLinked'
  BY <1>1 DEF RingsLinked
<1>10. UpdateBBO(side, price)
  BY DEF Modify, side, price
<1>11. AtOnePrice(side, price)
  BY <1>1, <1>2, <1>8, <1>9, <1>10 DEF AtOnePrice
<1> QED BY <1>3, <1>11 DEF side, price

\* Nor does CANCEL.
LEMMA CancelLocal ==
  ASSUME TablesTyped, RingsLinked, OrdersAllLinked, NEW order \in Held, Cancel(order)
  PROVE  /\ oid_to_order_[order].side \in Sides /\ oid_to_order_[order].price \in Prices
         /\ AtOnePrice(oid_to_order_[order].side, oid_to_order_[order].price)
<1>1. PICK price, side : price = oid_to_order_[order].price /\ side = oid_to_order_[order].side
  OBVIOUS
<1>2. /\ oid_to_order_[order] \in Order
      /\ price_orders_at_price_[price] # None
      /\ price_orders_at_price_[price].side = oid_to_order_[order].side
      /\ \E k, q : /\ OrdersListed(oid_to_order_, price_orders_at_price_[price].first_mkt_order_, price, k, q)
                   /\ \E j \in 1 .. k : q[j] = order
  BY <1>1, HeldOrder
<1>3. price \in Prices /\ side \in Sides
  BY <1>1, <1>2 DEF Order
<1>4. PICK k, q : /\ OrdersListed(oid_to_order_, price_orders_at_price_[price].first_mkt_order_, price, k, q)
                  /\ \E j \in 1 .. k : q[j] = order
  BY <1>2
<1>5. PICK j \in 1 .. k : q[j] = order
  BY <1>4
<1>6. UpdateBBO(side, price)
  BY <1>1 DEF Cancel
<1>7. CASE oid_to_order_[order].prev_order_ = order
  <2>1. /\ TablesTyped' /\ RingsLinked'
        /\ price_orders_at_price_'[price] = None
        /\ HeldAt(oid_to_order_', price) = {}
        /\ \A p \in Prices \ {price} : Untouched(p)
        /\ \A s \in Sides : by_price_[s] # price => by_price_'[s] = by_price_[s]
    BY <1>1, <1>2, <1>3, <1>4, <1>5, <1>7, CancelOnly
  <2>2. OrdersLinked(oid_to_order_', price_orders_at_price_', price)
    BY <2>1 DEF OrdersLinked
  <2> QED BY <1>1, <1>2, <1>3, <1>6, <2>1, <2>2 DEF AtOnePrice
<1>8. CASE oid_to_order_[order].prev_order_ # order
  <2>1. /\ TablesTyped' /\ RingsLinked'
        /\ price_orders_at_price_'[price] # None
        /\ price_orders_at_price_'[price].side = price_orders_at_price_[price].side
        /\ OrdersListed(oid_to_order_', price_orders_at_price_'[price].first_mkt_order_,
                        price, k - 1, Shorter(k, q, j))
        /\ oid_to_order_'[order] = None
        /\ \A o \in OrderIds \ {order} : SameOrder(o)
        /\ \A p \in Prices \ {price} : Untouched(p)
        /\ UNCHANGED by_price_
    BY <1>1, <1>2, <1>3, <1>4, <1>5, <1>8, CancelOne
  <2>2. ASSUME NEW o \in HeldAt(oid_to_order_', price)
        PROVE  oid_to_order_'[o].side = price_orders_at_price_'[price].side
    <3>1. o # order /\ o \in OrderIds /\ oid_to_order_'[o] # None /\ oid_to_order_'[o].price = price
      BY <2>1 DEF HeldAt
    <3>2. o \in HeldAt(oid_to_order_, price) /\ oid_to_order_'[o].side = oid_to_order_[o].side
      BY <3>1, <2>1 DEF SameOrder, HeldAt
    <3> QED BY <3>2, <2>1, <1>3 DEF OrdersAllLinked, OrdersLinked
  <2>3. OrdersLinked(oid_to_order_', price_orders_at_price_', price)
    BY <2>1, <2>2, Zenon DEF OrdersLinked
  <2> QED BY <1>1, <1>2, <1>3, <1>6, <2>1, <2>3 DEF AtOnePrice
<1> QED BY <1>7, <1>8

\* The best of a side is a price of the side.
LEMMA BestIsLevel ==
  ASSUME RingsLinked, NEW s \in Sides, by_price_[s] # None
  PROVE  /\ by_price_[s] \in LevelsOf(price_orders_at_price_, s)
         /\ by_price_[s] \in Prices
         /\ price_orders_at_price_[by_price_[s]] # None
         /\ price_orders_at_price_[by_price_[s]].side = s
BY DEF RingsLinked, LevelsLinked, LinksOf, LevelsOf

\* What is shown of a price changes only when something happens there.
LEMMA ShownUntouched ==
  ASSUME NEW p \in Prices, price_orders_at_price_[p] # None, Untouched(p),
         OrdersLinked(oid_to_order_, price_orders_at_price_, p)
  PROVE  BestShown(oid_to_order_', price_orders_at_price_', p)
           = BestShown(oid_to_order_, price_orders_at_price_, p)
<1>1. PICK k, q : OrdersListed(oid_to_order_, price_orders_at_price_[p].first_mkt_order_, p, k, q)
  BY DEF OrdersLinked
<1>2. OrdersListed(oid_to_order_', price_orders_at_price_'[p].first_mkt_order_, p, k, q)
  BY <1>1, UntouchedListed
<1>3. /\ QueueAt(oid_to_order_, price_orders_at_price_, p) = q
      /\ QueueAt(oid_to_order_', price_orders_at_price_', p) = q
  <2>1. PICK orders, levels, orders2, levels2 :
          /\ orders = oid_to_order_ /\ levels = price_orders_at_price_
          /\ orders2 = oid_to_order_' /\ levels2 = price_orders_at_price_'
    OBVIOUS
  <2>2. /\ OrdersListed(orders, levels[p].first_mkt_order_, p, k, q)
        /\ OrdersListed(orders2, levels2[p].first_mkt_order_, p, k, q)
    BY <1>1, <1>2, <2>1, Zenon
  <2>3. QueueAt(orders, levels, p) = q /\ QueueAt(orders2, levels2, p) = q
    BY ONLY <2>2, QueueAtIs
  <2> QED BY <2>1, <2>3, Zenon
<1>4. DOMAIN q = 1 .. k /\ \A n \in 1 .. k : q[n] \in HeldAt(oid_to_order_, p)
  BY <1>1 DEF OrdersListed, Goes
<1>5. \A n \in 1 .. k : oid_to_order_'[q[n]].qty = oid_to_order_[q[n]].qty
  BY <1>4 DEF Untouched, SameOrder, HeldAt
<1>6. [n \in DOMAIN q |-> oid_to_order_'[q[n]].qty] = [n \in DOMAIN q |-> oid_to_order_[q[n]].qty]
  BY <1>4, <1>5
<1> QED BY <1>3, <1>6, Zenon DEF BestShown

\* updateBBO redoes what an update can change.
LEMMA ShownKept ==
  ASSUME TablesTyped, RingsLinked, OrdersAllLinked,
         NEW side \in Sides, NEW price \in Prices, AtOnePrice(side, price),
         ShownIsBest(oid_to_order_, price_orders_at_price_, by_price_, bbo_)
  PROVE  ShownIsBest(oid_to_order_', price_orders_at_price_', by_price_', bbo_')
<1>1. ASSUME NEW s \in Sides, ~ Touches(s, side, price)
      PROVE  bbo_[s] = BestShown(oid_to_order_', price_orders_at_price_', by_price_'[s])
  <2>1. s = side => by_price_[s] # None /\ Worse(s, price, by_price_[s])
    BY <1>1 DEF Touches
  <2>2. by_price_[s] # price
    <3>1. CASE s = side
      BY <2>1, <3>1, WorseOrder
    <3>2. CASE s # side
      <4>1. None \notin Prices
        BY MarketOrderBookAssumption
      <4> QED BY <3>2, <4>1, BestIsLevel DEF AtOnePrice
    <3> QED BY <3>1, <3>2
  <2>3. by_price_'[s] = by_price_[s]
    BY <2>1, <2>2 DEF AtOnePrice
  <2>4. bbo_[s] = BestShown(oid_to_order_, price_orders_at_price_, by_price_[s])
    BY DEF ShownIsBest
  <2>5. CASE by_price_[s] = None
    BY <2>3, <2>4, <2>5, Zenon DEF BestShown
  <2>6. CASE by_price_[s] # None
    <3>1. PICK p \in Prices : p = by_price_[s] /\ price_orders_at_price_[p] # None
      BY <2>6, BestIsLevel
    <3>2. p # price /\ Untouched(p) /\ OrdersLinked(oid_to_order_, price_orders_at_price_, p)
      BY <2>2, <3>1 DEF AtOnePrice, OrdersAllLinked
    <3>3. BestShown(oid_to_order_', price_orders_at_price_', p)
            = BestShown(oid_to_order_, price_orders_at_price_, p)
      BY <3>1, <3>2, ShownUntouched
    <3> QED BY <2>3, <2>4, <3>1, <3>3, Zenon
  <2> QED BY <2>5, <2>6
<1>2. bbo_' = [s \in Sides |->
                 IF Touches(s, side, price)
                 THEN BestShown(oid_to_order_', price_orders_at_price_', by_price_'[s])
                 ELSE bbo_[s]]
  BY Zenon DEF AtOnePrice, UpdateBBO
<1>3. \A s \in Sides : (IF Touches(s, side, price)
                        THEN BestShown(oid_to_order_', price_orders_at_price_', by_price_'[s])
                        ELSE bbo_[s])
                         = BestShown(oid_to_order_', price_orders_at_price_', by_price_'[s])
  BY <1>1, Zenon
<1>4. bbo_' = [s \in Sides |-> BestShown(oid_to_order_', price_orders_at_price_', by_price_'[s])]
  BY <1>2, <1>3, Zenon
<1> QED BY <1>4, Zenon DEF ShownIsBest

\* Such an update keeps the invariant.
LEMMA LocalKeeps ==
  ASSUME Inv, NEW side \in Sides, NEW price \in Prices, AtOnePrice(side, price)
  PROVE  Inv'
<1>1. /\ TablesTyped /\ RingsLinked /\ OrdersAllLinked
      /\ ShownIsBest(oid_to_order_, price_orders_at_price_, by_price_, bbo_)
  BY Zenon DEF Inv, TablesTyped, RingsLinked, OrdersAllLinked
<1>2. TablesTyped' /\ RingsLinked'
  BY DEF AtOnePrice
<1>3. ASSUME NEW p \in Prices PROVE OrdersLinked(oid_to_order_', price_orders_at_price_', p)
  <2>1. CASE p = price
    BY <2>1 DEF AtOnePrice
  <2>2. CASE p # price
    <3>1. Untouched(p) /\ OrdersLinked(oid_to_order_, price_orders_at_price_, p)
      BY <1>1, <2>2 DEF AtOnePrice, OrdersAllLinked
    <3> QED BY <3>1, UntouchedLinked
  <2> QED BY <2>1, <2>2
<1>4. ShownIsBest(oid_to_order_', price_orders_at_price_', by_price_', bbo_')
  BY <1>1, ShownKept
<1> QED BY <1>2, <1>3, <1>4, Zenon DEF Inv, TablesTyped, RingsLinked

\* An empty book is linked.
LEMMA EmptyLinked ==
  ASSUME NEW orders, NEW levels, NEW bests, NEW shown,
         orders = NoOrders, levels = NoLevels, bests = [side \in Sides |-> None],
         shown = [side \in Sides |-> EmptySide]
  PROVE  /\ Typed(orders, levels, bests)
         /\ \A side \in Sides : LevelsLinked(levels, side, bests[side])
         /\ \A p \in Prices : OrdersLinked(orders, levels, p)
         /\ ShownIsBest(orders, levels, bests, shown)
<1>1. Typed(orders, levels, bests)
  BY DEF Typed, NoOrders, NoLevels
<1>2. \A side \in Sides : LevelsLinked(levels, side, bests[side])
  BY DEF LevelsLinked, LevelsOf, NoLevels
<1>3. \A p \in Prices : OrdersLinked(orders, levels, p)
  BY DEF OrdersLinked, HeldAt, NoOrders, NoLevels
<1>4. \A side \in Sides : BestShown(orders, levels, bests[side]) = EmptySide
  BY Zenon DEF BestShown
<1> QED BY <1>1, <1>2, <1>3, <1>4, Zenon DEF ShownIsBest

LEMMA InitInv == Init => Inv
BY EmptyLinked, Zenon DEF Init, Inv

LEMMA ClearKeeps == Clear => Inv'
<1> SUFFICES ASSUME Clear PROVE Inv'
  OBVIOUS
<1>1. PICK orders, levels, bests, shown :
        /\ orders = oid_to_order_' /\ levels = price_orders_at_price_'
        /\ bests = by_price_' /\ shown = bbo_'
  OBVIOUS
<1>2. /\ Typed(orders, levels, bests)
      /\ \A side \in Sides : LevelsLinked(levels, side, bests[side])
      /\ \A p \in Prices : OrdersLinked(orders, levels, p)
      /\ ShownIsBest(orders, levels, bests, shown)
  BY <1>1, EmptyLinked DEF Clear
<1> QED BY <1>1, <1>2, Zenon DEF Inv

LEMMA InvStep == Inv /\ [Next]_vars => Inv'
<1> SUFFICES ASSUME Inv, [Next]_vars PROVE Inv'
  OBVIOUS
<1>0. TablesTyped /\ RingsLinked /\ OrdersAllLinked
  BY Zenon DEF Inv, TablesTyped, RingsLinked, OrdersAllLinked
<1>1. ASSUME NEW order \in OrderIds \ Held, NEW side \in Sides, NEW price \in Prices,
             NEW qty \in Quantities, Fits(side, price), Add(order, side, price, qty)
      PROVE  Inv'
  <2>1. AtOnePrice(side, price)
    BY <1>0, <1>1, AddLocal
  <2> QED BY <2>1, LocalKeeps
<1>2. ASSUME NEW order \in Held, NEW qty \in Quantities, Modify(order, qty)
      PROVE  Inv'
  <2>1. /\ oid_to_order_[order].side \in Sides /\ oid_to_order_[order].price \in Prices
        /\ AtOnePrice(oid_to_order_[order].side, oid_to_order_[order].price)
    BY <1>0, <1>2, ModifyLocal
  <2> QED BY <2>1, LocalKeeps, Zenon
<1>3. ASSUME NEW order \in Held, Cancel(order)
      PROVE  Inv'
  <2>1. /\ oid_to_order_[order].side \in Sides /\ oid_to_order_[order].price \in Prices
        /\ AtOnePrice(oid_to_order_[order].side, oid_to_order_[order].price)
    BY <1>0, <1>3, CancelLocal
  <2> QED BY <2>1, LocalKeeps, Zenon
<1>4. ASSUME UNCHANGED vars PROVE Inv'
  BY <1>4 DEF vars, Inv
<1> QED BY <1>1, <1>2, <1>3, <1>4, ClearKeeps DEF Next

LEMMA Invariant == Spec => []Inv
BY InitInv, InvStep, PTL DEF Spec

\* toString never ends the process: from the best on, the ring of a side
\* visits all its prices, each worse than the one before, and leads back.
THEOREM SortedRings == Spec => []LevelsSorted
<1>1. Inv => LevelsSorted
  <2> SUFFICES ASSUME Inv PROVE LevelsSorted
    OBVIOUS
  <2>1. /\ \A side \in Sides : LevelsLinked(price_orders_at_price_, side, by_price_[side])
        /\ \A side \in Sides : by_price_[side] \in Prices \cup {None}
    BY DEF Inv, Typed
  <2> QED BY <2>1, LinkedSorted
<1> QED BY <1>1, Invariant, PTL

-----------------------------------------------------------------------------
\* The rings are the queues of ClientBook.

\* The entries of k orders, and of the queue of a price.
Entries(orders, k, q) == [n \in 1 .. k |-> [order |-> q[n], quantity |-> orders[q[n]].qty]]
Entry == [order : OrderIds, quantity : Quantities]

LEMMA QueueListed ==
  ASSUME NEW orders, NEW levels, NEW side, NEW p \in Prices,
         levels[p] # None, levels[p].side = side,
         NEW k, NEW q, OrdersListed(orders, levels[p].first_mkt_order_, p, k, q)
  PROVE  QueueOf(orders, levels, side, p) = Entries(orders, k, q)
<1>1. p \in LevelsOf(levels, side)
  BY DEF LevelsOf
<1>2. QueueAt(orders, levels, p) = q
  BY QueueAtIs
<1>3. DOMAIN q = 1 .. k
  BY DEF OrdersListed, Goes
<1> QED BY <1>1, <1>2, <1>3, Zenon DEF QueueOf, Entries

\* The entries of a listed ring are a sequence that is not empty.
LEMMA EntriesTyped ==
  ASSUME NEW orders \in [OrderIds -> Order \cup {None}], NEW first, NEW p,
         NEW k, NEW q, OrdersListed(orders, first, p, k, q)
  PROVE  /\ Entries(orders, k, q) \in [1 .. k -> Entry]
         /\ Entries(orders, k, q) # << >>
         /\ k \in Nat \ {0}
<1>1. /\ k \in Nat \ {0} /\ q \in [1 .. k -> OrderIds]
      /\ HeldAt(orders, p) = {q[i] : i \in 1 .. k}
  BY DEF OrdersListed, Goes
<1>2. \A n \in 1 .. k : q[n] \in OrderIds /\ orders[q[n]] # None
  BY <1>1 DEF HeldAt
<1>3. \A n \in 1 .. k : orders[q[n]].qty \in Quantities
  BY <1>2 DEF Order
<1>4. Entries(orders, k, q) \in [1 .. k -> Entry]
  BY <1>2, <1>3 DEF Entries, Entry
<1>5. 1 \in DOMAIN Entries(orders, k, q)
  BY <1>1 DEF Entries
<1>6. DOMAIN << >> = {}
  OBVIOUS
<1> QED BY <1>1, <1>4, <1>5, <1>6

\* An update leaves the other queues as they are.
LEMMA OtherQueues ==
  ASSUME TablesTyped, OrdersAllLinked, NEW side \in Sides, NEW price \in Prices,
         AtOnePrice(side, price), NEW s \in Sides, NEW p \in Prices, s # side \/ p # price
  PROVE  QueueOf(oid_to_order_', price_orders_at_price_', s, p)
           = QueueOf(oid_to_order_, price_orders_at_price_, s, p)
<1>1. CASE p = price
  <2>1. p \notin LevelsOf(price_orders_at_price_, s) /\ p \notin LevelsOf(price_orders_at_price_', s)
    BY <1>1 DEF AtOnePrice, LevelsOf
  <2> QED BY <2>1, Zenon DEF QueueOf
<1>2. CASE p # price
  <2>1. Untouched(p) /\ OrdersLinked(oid_to_order_, price_orders_at_price_, p)
    BY <1>2 DEF AtOnePrice, OrdersAllLinked
  <2>2. CASE p \notin LevelsOf(price_orders_at_price_, s)
    <3>1. p \notin LevelsOf(price_orders_at_price_', s)
      BY <2>1, <2>2 DEF Untouched, SameLevel, LevelsOf
    <3> QED BY <2>2, <3>1, Zenon DEF QueueOf
  <2>3. CASE p \in LevelsOf(price_orders_at_price_, s)
    <3>1. price_orders_at_price_[p] # None /\ price_orders_at_price_[p].side = s
      BY <2>3 DEF LevelsOf
    <3>2. PICK k, q : OrdersListed(oid_to_order_, price_orders_at_price_[p].first_mkt_order_, p, k, q)
      BY <2>1, <3>1 DEF OrdersLinked
    <3>3. OrdersListed(oid_to_order_', price_orders_at_price_'[p].first_mkt_order_, p, k, q)
      BY <2>1, <3>1, <3>2, UntouchedListed
    <3>4. price_orders_at_price_'[p] # None /\ price_orders_at_price_'[p].side = s
      BY <2>1, <3>1 DEF Untouched, SameLevel
    <3>5. \A n \in 1 .. k : q[n] \in HeldAt(oid_to_order_, p)
      BY <3>2 DEF OrdersListed
    <3>6. \A n \in 1 .. k : oid_to_order_'[q[n]].qty = oid_to_order_[q[n]].qty
      BY <2>1, <3>5 DEF Untouched, SameOrder, HeldAt
    <3>7. Entries(oid_to_order_', k, q) = Entries(oid_to_order_, k, q)
      BY <3>6 DEF Entries
    <3>8. PICK orders, levels, orders2, levels2 :
            /\ orders = oid_to_order_ /\ levels = price_orders_at_price_
            /\ orders2 = oid_to_order_' /\ levels2 = price_orders_at_price_'
      OBVIOUS
    <3>9. /\ OrdersListed(orders, levels[p].first_mkt_order_, p, k, q)
          /\ OrdersListed(orders2, levels2[p].first_mkt_order_, p, k, q)
          /\ levels[p] # None /\ levels[p].side = s /\ levels2[p] # None /\ levels2[p].side = s
      BY <3>1, <3>2, <3>3, <3>4, <3>8, Zenon
    <3>10. /\ QueueOf(orders, levels, s, p) = Entries(orders, k, q)
           /\ QueueOf(orders2, levels2, s, p) = Entries(orders2, k, q)
      BY ONLY <3>9, p \in Prices, QueueListed
    <3> QED BY <3>7, <3>8, <3>10, Zenon
  <2> QED BY <2>2, <2>3
<1> QED BY <1>1, <1>2

\* So one queue changes.
LEMMA OneQueue ==
  ASSUME TablesTyped, OrdersAllLinked, NEW side \in Sides, NEW price \in Prices,
         AtOnePrice(side, price)
  PROVE  queues'
           = [queues EXCEPT
                ![side][price] = QueueOf(oid_to_order_', price_orders_at_price_', side, price)]
<1> DEFINE old == queues
           new == queues'
           after == QueueOf(oid_to_order_', price_orders_at_price_', side, price)
           m == [old EXCEPT ![side][price] = after]
<1>1. /\ DOMAIN new = Sides /\ \A s \in Sides : DOMAIN new[s] = Prices
      /\ \A s \in Sides, p \in Prices :
           new[s][p] = QueueOf(oid_to_order_', price_orders_at_price_', s, p)
      /\ new = [s \in Sides |-> new[s]] /\ \A s \in Sides : new[s] = [p \in Prices |-> new[s][p]]
  BY Zenon DEF queues
<1>2. /\ old = [s \in Sides |-> old[s]] /\ \A s \in Sides : old[s] = [p \in Prices |-> old[s][p]]
      /\ \A s \in Sides, p \in Prices :
           old[s][p] = QueueOf(oid_to_order_, price_orders_at_price_, s, p)
  BY Zenon DEF queues
<1>3. \A s \in Sides, p \in Prices : s # side \/ p # price => new[s][p] = old[s][p]
  <2> SUFFICES ASSUME NEW s \in Sides, NEW p \in Prices, s # side \/ p # price
               PROVE  new[s][p] = old[s][p]
    OBVIOUS
  <2>1. QueueOf(oid_to_order_', price_orders_at_price_', s, p)
          = QueueOf(oid_to_order_, price_orders_at_price_, s, p)
    BY OtherQueues
  <2>2. new[s][p] = QueueOf(oid_to_order_', price_orders_at_price_', s, p)
    BY Zenon DEF queues
  <2>3. old[s][p] = QueueOf(oid_to_order_, price_orders_at_price_, s, p)
    BY Zenon DEF queues
  <2> QED BY <2>1, <2>2, <2>3, Zenon
<1>4. new[side][price] = after
  BY <1>1, Zenon
<1> HIDE DEF old, new, after
<1>5. /\ m = [s \in Sides |-> m[s]] /\ \A s \in Sides : m[s] = [p \in Prices |-> m[s][p]]
      /\ \A s \in Sides, p \in Prices :
           m[s][p] = IF s = side /\ p = price THEN after ELSE old[s][p]
  BY <1>2
<1> HIDE DEF m
<1>6. \A s \in Sides, p \in Prices : new[s][p] = m[s][p]
  BY <1>3, <1>4, <1>5
<1>7. ASSUME NEW s \in Sides PROVE new[s] = m[s]
  <2>1. [p \in Prices |-> new[s][p]] = [p \in Prices |-> m[s][p]]
    BY <1>6
  <2>2. new[s] = [p \in Prices |-> new[s][p]]
    BY <1>1, Zenon
  <2>3. m[s] = [p \in Prices |-> m[s][p]]
    BY <1>5, Zenon
  <2> QED BY ONLY <2>1, <2>2, <2>3
<1>8. new = m
  <2>1. [s \in Sides |-> new[s]] = [s \in Sides |-> m[s]]
    BY <1>7
  <2> QED BY <2>1, <1>1, <1>5, Zenon
<1> QED BY <1>8 DEF old, new, after, m

\* Appending to a sequence of length k.
LEMMA AppendIs ==
  ASSUME NEW S, NEW k \in Nat, NEW e \in [1 .. k -> S], NEW x \in S
  PROVE  Append(e, x) = [i \in 1 .. (k + 1) |-> IF i = k + 1 THEN x ELSE e[i]]
<1>1. e \in Seq(S)
  BY SeqDef
<1>2. Len(e) = k
  BY <1>1, LenProperties
<1>3. /\ Append(e, x) \in Seq(S) /\ Len(Append(e, x)) = k + 1
      /\ \A i \in 1 .. k : Append(e, x)[i] = e[i]
      /\ Append(e, x)[k + 1] = x
  BY <1>1, <1>2, AppendProperties
<1> DEFINE a == Append(e, x)
<1>4. a = [i \in 1 .. (k + 1) |-> a[i]]
  BY <1>3, LenProperties
<1>5. \A i \in 1 .. (k + 1) : a[i] = IF i = k + 1 THEN x ELSE e[i]
  BY <1>3
<1> HIDE DEF a
<1>6. a = [i \in 1 .. (k + 1) |-> IF i = k + 1 THEN x ELSE e[i]]
  BY <1>4, <1>5
<1> QED BY <1>6 DEF a

\* Leaving one out.
LEMMA RemoveAtIs ==
  ASSUME NEW S, NEW k \in Nat, NEW e \in [1 .. k -> S], NEW j \in 1 .. k
  PROVE  RemoveAt(e, j) = Shorter(k, e, j)
<1> DEFINE before == SubSeq(e, 1, j - 1)
           after == SubSeq(e, j + 1, k)
           r == before \o after
<1>1. e \in Seq(S)
  BY SeqDef
<1>2. Len(e) = k
  BY <1>1, LenProperties
<1>3. RemoveAt(e, j) = r
  BY <1>2 DEF RemoveAt
<1>4. /\ before \in Seq(S) /\ Len(before) = j - 1
      /\ \A i \in 1 .. (j - 1) : before[i] = e[i]
  <2>1. /\ 1 \in Int /\ j - 1 \in Int
        /\ \A i \in 1 .. (j - 1) : e[i] \in S
    OBVIOUS
  <2>2. /\ before \in Seq(S)
        /\ Len(before) = IF 1 <= j - 1 THEN (j - 1) - 1 + 1 ELSE 0
        /\ \A i \in 1 .. ((j - 1) - 1 + 1) : before[i] = e[1 + i - 1]
    BY <2>1, SubSeqProperties
  <2> HIDE DEF before
  <2> QED BY <2>2
<1>5. /\ after \in Seq(S) /\ Len(after) = k - j
      /\ \A i \in 1 .. (k - j) : after[i] = e[j + i]
  <2>1. /\ j + 1 \in Int /\ k \in Int
        /\ \A i \in (j + 1) .. k : e[i] \in S
    OBVIOUS
  <2>2. /\ after \in Seq(S)
        /\ Len(after) = IF j + 1 <= k THEN k - (j + 1) + 1 ELSE 0
        /\ \A i \in 1 .. (k - (j + 1) + 1) : after[i] = e[(j + 1) + i - 1]
    BY <2>1, SubSeqProperties
  <2> HIDE DEF after
  <2>3. \A i \in 1 .. (k - j) : (j + 1) + i - 1 = j + i
    OBVIOUS
  <2> QED BY <2>2, <2>3
<1> HIDE DEF before, after
<1>6. /\ r \in Seq(S) /\ Len(r) = k - 1
      /\ \A i \in 1 .. (k - 1) : r[i] = IF i <= j - 1 THEN before[i] ELSE after[i - (j - 1)]
  <2>1. /\ r \in Seq(S) /\ Len(r) = Len(before) + Len(after)
        /\ \A i \in 1 .. (Len(before) + Len(after)) :
             r[i] = IF i <= Len(before) THEN before[i] ELSE after[i - Len(before)]
    BY <1>4, <1>5, ConcatProperties
  <2>2. Len(before) + Len(after) = k - 1
    BY <1>4, <1>5
  <2> QED BY <2>1, <2>2, <1>4
<1> HIDE DEF r
<1>7. \A i \in 1 .. (k - 1) : r[i] = e[Moved(j, i)]
  <2> SUFFICES ASSUME NEW i \in 1 .. (k - 1) PROVE r[i] = e[Moved(j, i)]
    OBVIOUS
  <2>1. CASE i < j
    <3>1. i <= j - 1 /\ i \in 1 .. (j - 1) /\ Moved(j, i) = i
      BY <2>1 DEF Moved
    <3> QED BY <3>1, <1>4, <1>6
  <2>2. CASE ~ (i < j)
    <3>1. /\ ~ (i <= j - 1) /\ i - (j - 1) \in 1 .. (k - j) /\ Moved(j, i) = i + 1
          /\ j + (i - (j - 1)) = i + 1
      BY <2>2 DEF Moved
    <3> QED BY <3>1, <1>5, <1>6
  <2> QED BY <2>1, <2>2
<1>8. r = [i \in 1 .. (k - 1) |-> r[i]]
  BY <1>6, LenProperties
<1>9. [i \in 1 .. (k - 1) |-> r[i]] = [i \in 1 .. (k - 1) |-> e[Moved(j, i)]]
  BY <1>7
<1> QED BY <1>3, <1>8, <1>9, Zenon DEF Shorter

\* The queue of an update's price, in the tables and after it.
QueueHere(side, price) == QueueOf(oid_to_order_, price_orders_at_price_, side, price)
QueueThen(side, price) == QueueOf(oid_to_order_', price_orders_at_price_', side, price)

LEMMA HereListed ==
  ASSUME NEW side, NEW price \in Prices, NEW k, NEW q,
         price_orders_at_price_[price] # None, price_orders_at_price_[price].side = side,
         OrdersListed(oid_to_order_, price_orders_at_price_[price].first_mkt_order_, price, k, q)
  PROVE  QueueHere(side, price) = Entries(oid_to_order_, k, q)
<1>1. QueueOf(oid_to_order_, price_orders_at_price_, side, price) = Entries(oid_to_order_, k, q)
  BY QueueListed
<1> QED BY <1>1, Zenon DEF QueueHere

LEMMA ThenListed ==
  ASSUME NEW side, NEW price \in Prices, NEW k, NEW q,
         price_orders_at_price_'[price] # None, price_orders_at_price_'[price].side = side,
         OrdersListed(oid_to_order_', price_orders_at_price_'[price].first_mkt_order_, price, k, q)
  PROVE  QueueThen(side, price) = Entries(oid_to_order_', k, q)
<1>1. PICK orders, levels : orders = oid_to_order_' /\ levels = price_orders_at_price_'
  OBVIOUS
<1>2. /\ OrdersListed(orders, levels[price].first_mkt_order_, price, k, q)
      /\ levels[price] # None /\ levels[price].side = side
  BY <1>1, Zenon
<1>3. QueueOf(orders, levels, side, price) = Entries(orders, k, q)
  BY ONLY <1>2, price \in Prices, QueueListed
<1> QED BY <1>1, <1>3, Zenon DEF QueueThen

\* ADD: the order joins the end of its queue.
LEMMA AddQueue ==
  ASSUME TablesTyped, RingsLinked, OrdersAllLinked,
         NEW order \in OrderIds \ Held, NEW side \in Sides, NEW price \in Prices,
         NEW qty \in Quantities, Fits(side, price), Add(order, side, price, qty)
  PROVE  QueueThen(side, price)
           = Append(QueueHere(side, price), [order |-> order, quantity |-> qty])
<1> DEFINE x == [order |-> order, quantity |-> qty]
<1>0. /\ oid_to_order_ \in [OrderIds -> Order \cup {None}]
      /\ x \in Entry
  BY DEF TablesTyped, Typed, Entry
<1>1. CASE price_orders_at_price_[price] = None
  <2>1. /\ TablesTyped' /\ RingsLinked'
        /\ price_orders_at_price_'[price] # None /\ price_orders_at_price_'[price].side = side
        /\ OrdersListed(oid_to_order_', price_orders_at_price_'[price].first_mkt_order_,
                        price, 1, Only(order))
        /\ oid_to_order_'[order].qty = qty
    BY <1>1, AddFirst
  <2>2. QueueThen(side, price) = Entries(oid_to_order_', 1, Only(order))
    BY <2>1, ThenListed
  <2>3. Entries(oid_to_order_', 1, Only(order)) = [i \in 1 .. 1 |-> x]
    BY <2>1 DEF Entries, Only
  <2>4. QueueHere(side, price) = << >>
    BY <1>1, Zenon DEF QueueHere, QueueOf, LevelsOf
  <2>5. << >> \in [1 .. 0 -> Entry]
    OBVIOUS
  <2> HIDE DEF x
  <2>6. Append(<< >>, x) = [i \in 1 .. 1 |-> x]
    OBVIOUS
  <2> QED BY <2>2, <2>3, <2>4, <2>6 DEF x
<1>2. CASE price_orders_at_price_[price] # None
  <2>1. PICK k, q : OrdersListed(oid_to_order_, price_orders_at_price_[price].first_mkt_order_, price, k, q)
    BY <1>2 DEF OrdersAllLinked, OrdersLinked
  <2>2. /\ UNCHANGED <<price_orders_at_price_, by_price_>>
        /\ price_orders_at_price_[price].side = side
        /\ OrdersListed(oid_to_order_', price_orders_at_price_[price].first_mkt_order_,
                        price, k + 1, Longer(k, q, order))
        /\ oid_to_order_'[order].qty = qty
        /\ \A o \in OrderIds \ {order} : SameOrder(o)
    BY <1>2, <2>1, AddNext
  <2>3. /\ price_orders_at_price_'[price] # None /\ price_orders_at_price_'[price].side = side
        /\ OrdersListed(oid_to_order_', price_orders_at_price_'[price].first_mkt_order_,
                        price, k + 1, Longer(k, q, order))
    BY <1>2, <2>2
  <2>4. QueueThen(side, price) = Entries(oid_to_order_', k + 1, Longer(k, q, order))
    BY <2>3, ThenListed
  <2>5. QueueHere(side, price) = Entries(oid_to_order_, k, q)
    BY <1>2, <2>1, <2>2, HereListed
  <2>6. Entries(oid_to_order_, k, q) \in [1 .. k -> Entry] /\ k \in Nat
    BY <1>0, <2>1, EntriesTyped
  <2>7. Append(Entries(oid_to_order_, k, q), x)
          = [i \in 1 .. (k + 1) |-> IF i = k + 1 THEN x ELSE Entries(oid_to_order_, k, q)[i]]
    <3>1. PICK e \in [1 .. k -> Entry] : e = Entries(oid_to_order_, k, q)
      BY <2>6
    <3>2. PICK y \in Entry : y = x
      BY <1>0
    <3> HIDE DEF x
    <3>3. Append(e, y) = [i \in 1 .. (k + 1) |-> IF i = k + 1 THEN y ELSE e[i]]
      BY ONLY <2>6, e \in [1 .. k -> Entry], y \in Entry, AppendIs
    <3> QED BY <3>1, <3>2, <3>3, Zenon
  <2>8. \A i \in 1 .. k : q[i] \in HeldAt(oid_to_order_, price)
    BY <2>1 DEF OrdersListed
  <2>9. \A i \in 1 .. k : q[i] # order /\ oid_to_order_'[q[i]].qty = oid_to_order_[q[i]].qty
    BY <2>2, <2>8 DEF SameOrder, HeldAt, Held
  <2>10. Entries(oid_to_order_', k + 1, Longer(k, q, order))
           = [i \in 1 .. (k + 1) |-> IF i = k + 1 THEN x ELSE Entries(oid_to_order_, k, q)[i]]
    <3>1. ASSUME NEW i \in 1 .. (k + 1)
          PROVE  [order |-> Longer(k, q, order)[i],
                  quantity |-> oid_to_order_'[Longer(k, q, order)[i]].qty]
                   = IF i = k + 1 THEN x ELSE Entries(oid_to_order_, k, q)[i]
      <4>1. CASE i = k + 1
        <5>1. Longer(k, q, order)[i] = order
          BY <4>1 DEF Longer
        <5> QED BY <4>1, <5>1, <2>2, Zenon
      <4>2. CASE i # k + 1
        <5>1. i \in 1 .. k
          BY <4>2, <2>6
        <5>2. Longer(k, q, order)[i] = q[i]
          BY <4>2 DEF Longer
        <5>3. Entries(oid_to_order_, k, q)[i] = [order |-> q[i], quantity |-> oid_to_order_[q[i]].qty]
          BY <5>1 DEF Entries
        <5>4. oid_to_order_'[q[i]].qty = oid_to_order_[q[i]].qty
          BY <5>1, <2>9
        <5> QED BY <4>2, <5>2, <5>3, <5>4, Zenon
      <4> QED BY <4>1, <4>2
    <3> QED BY <3>1, Zenon DEF Entries
  <2> QED BY <2>4, <2>5, <2>7, <2>10, Zenon
<1> QED BY <1>1, <1>2

\* MODIFY: the order keeps its place.
LEMMA ModifyQueue ==
  ASSUME TablesTyped, RingsLinked, OrdersAllLinked, NEW order \in Held, NEW qty \in Quantities,
         Modify(order, qty),
         NEW side, NEW price,
         side = oid_to_order_[order].side, price = oid_to_order_[order].price
  PROVE  \E j \in DOMAIN QueueHere(side, price) :
           QueueThen(side, price) = Abstract!Changed(QueueHere(side, price), j, qty)
<1>1. price = oid_to_order_[order].price /\ side = oid_to_order_[order].side
  OBVIOUS
<1>2. /\ oid_to_order_[order] \in Order
      /\ price_orders_at_price_[price] # None /\ price_orders_at_price_[price].side = side
      /\ \E k, q : /\ OrdersListed(oid_to_order_, price_orders_at_price_[price].first_mkt_order_, price, k, q)
                   /\ \E j \in 1 .. k : q[j] = order
  BY <1>1, HeldOrder
<1>3. price \in Prices /\ side \in Sides
  BY <1>1, <1>2 DEF Order
<1>4. PICK k, q : /\ OrdersListed(oid_to_order_, price_orders_at_price_[price].first_mkt_order_, price, k, q)
                  /\ \E j \in 1 .. k : q[j] = order
  BY <1>2
<1>5. PICK j \in 1 .. k : q[j] = order
  BY <1>4
<1>6. /\ UNCHANGED <<price_orders_at_price_, by_price_>>
      /\ oid_to_order_'[order].qty = qty
      /\ \A o \in OrderIds : SameLinks(o)
      /\ \A o \in OrderIds \ {order} : oid_to_order_'[o] = oid_to_order_[o]
      /\ \A p \in Prices : HeldAt(oid_to_order_', p) = HeldAt(oid_to_order_, p)
  BY ModifyEffect
<1>7. \A o \in HeldAt(oid_to_order_, price) :
        /\ oid_to_order_'[o].next_order_ = oid_to_order_[o].next_order_
        /\ oid_to_order_'[o].prev_order_ = oid_to_order_[o].prev_order_
  BY <1>6 DEF HeldAt, SameLinks
<1>8. OrdersListed(oid_to_order_', price_orders_at_price_[price].first_mkt_order_, price, k, q)
  <2>1. PICK orders, orders2, first : /\ orders = oid_to_order_ /\ orders2 = oid_to_order_'
                                      /\ first = price_orders_at_price_[price].first_mkt_order_
    OBVIOUS
  <2>2. OrdersListed(orders, first, price, k, q) /\ HeldAt(orders2, price) = HeldAt(orders, price)
    BY <2>1, <1>3, <1>4, <1>6, Zenon
  <2>3. \A o \in HeldAt(orders, price) : /\ orders2[o].next_order_ = orders[o].next_order_
                                         /\ orders2[o].prev_order_ = orders[o].prev_order_
    BY <2>1, <1>7, Zenon
  <2>4. OrdersListed(orders2, first, price, k, q)
    BY ONLY <2>2, <2>3, RingKept
  <2> QED BY <2>1, <2>4, Zenon
<1>9. /\ price_orders_at_price_'[price] # None /\ price_orders_at_price_'[price].side = side
      /\ OrdersListed(oid_to_order_', price_orders_at_price_'[price].first_mkt_order_, price, k, q)
  BY <1>2, <1>6, <1>8
<1>10. QueueThen(side, price) = Entries(oid_to_order_', k, q)
  BY <1>3, <1>9, ThenListed
<1>11. QueueHere(side, price) = Entries(oid_to_order_, k, q)
  BY <1>2, <1>3, <1>4, HereListed
<1>12. q \in [1 .. k -> OrderIds] /\ \A i, l \in 1 .. k : q[i] = q[l] => i = l
  BY <1>4 DEF OrdersListed, Goes
<1>13. Entries(oid_to_order_', k, q) = [Entries(oid_to_order_, k, q) EXCEPT ![j].quantity = qty]
  <2> DEFINE e == Entries(oid_to_order_, k, q)
  <2>1. /\ e = [i \in 1 .. k |-> e[i]]
        /\ \A i \in 1 .. k : e[i] = [order |-> q[i], quantity |-> oid_to_order_[q[i]].qty]
    BY Zenon DEF Entries
  <2>2. [e[j] EXCEPT !.quantity = qty] = [order |-> q[j], quantity |-> qty]
    BY <2>1
  <2>3. \A i \in 1 .. k : i # j => oid_to_order_'[q[i]] = oid_to_order_[q[i]]
    BY <1>5, <1>6, <1>12
  <2> HIDE DEF e
  <2>4. [e EXCEPT ![j].quantity = qty]
          = [i \in 1 .. k |-> IF i = j THEN [e[j] EXCEPT !.quantity = qty] ELSE e[i]]
    BY <2>1
  <2>5. ASSUME NEW i \in 1 .. k
        PROVE  [order |-> q[i], quantity |-> oid_to_order_'[q[i]].qty]
                 = IF i = j THEN [e[j] EXCEPT !.quantity = qty] ELSE e[i]
    <3>1. CASE i = j
      BY <3>1, <2>2, <1>5, <1>6, Zenon
    <3>2. CASE i # j
      BY <3>2, <2>1, <2>3, Zenon
    <3> QED BY <3>1, <3>2
  <2>6. Entries(oid_to_order_', k, q)
          = [i \in 1 .. k |-> IF i = j THEN [e[j] EXCEPT !.quantity = qty] ELSE e[i]]
    BY <2>5, Zenon DEF Entries
  <2> QED BY <2>4, <2>6 DEF e
<1>14. j \in DOMAIN Entries(oid_to_order_, k, q)
  BY DEF Entries
<1>15. \E i \in DOMAIN QueueHere(side, price) :
         QueueThen(side, price) = Abstract!Changed(QueueHere(side, price), i, qty)
  BY <1>10, <1>11, <1>13, <1>14, Zenon DEF Abstract!Changed
<1> QED BY <1>15, Zenon

\* CANCEL: the order leaves its queue, wherever it stood.
LEMMA CancelQueue ==
  ASSUME TablesTyped, RingsLinked, OrdersAllLinked, NEW order \in Held, Cancel(order),
         NEW side, NEW price,
         side = oid_to_order_[order].side, price = oid_to_order_[order].price
  PROVE  \E j \in DOMAIN QueueHere(side, price) :
           QueueThen(side, price) = RemoveAt(QueueHere(side, price), j)
<1>1. price = oid_to_order_[order].price /\ side = oid_to_order_[order].side
  OBVIOUS
<1>2. /\ oid_to_order_[order] \in Order
      /\ price_orders_at_price_[price] # None /\ price_orders_at_price_[price].side = side
      /\ price_orders_at_price_[price].side = oid_to_order_[order].side
      /\ \E k, q : /\ OrdersListed(oid_to_order_, price_orders_at_price_[price].first_mkt_order_, price, k, q)
                   /\ \E j \in 1 .. k : q[j] = order
  BY <1>1, HeldOrder
<1>3. price \in Prices /\ side \in Sides
  BY <1>1, <1>2 DEF Order
<1>4. PICK k, q : /\ OrdersListed(oid_to_order_, price_orders_at_price_[price].first_mkt_order_, price, k, q)
                  /\ \E j \in 1 .. k : q[j] = order
  BY <1>2
<1>5. PICK j \in 1 .. k : q[j] = order
  BY <1>4
<1>6. QueueHere(side, price) = Entries(oid_to_order_, k, q)
  BY <1>2, <1>3, <1>4, HereListed
<1>7. Entries(oid_to_order_, k, q) \in [1 .. k -> Entry] /\ k \in Nat \ {0}
  BY <1>4, EntriesTyped DEF TablesTyped, Typed
<1>8. RemoveAt(Entries(oid_to_order_, k, q), j)
        = Shorter(k, Entries(oid_to_order_, k, q), j)
  <2>1. PICK e \in [1 .. k -> Entry] : e = Entries(oid_to_order_, k, q)
    BY <1>7
  <2>2. RemoveAt(e, j) = Shorter(k, e, j)
    BY ONLY <1>7, e \in [1 .. k -> Entry], j \in 1 .. k, RemoveAtIs
  <2> QED BY <2>1, <2>2, Zenon
<1>9. QueueThen(side, price)
        = Shorter(k, Entries(oid_to_order_, k, q), j)
  <2>1. CASE oid_to_order_[order].prev_order_ = order
    <3>1. k = 1 /\ price_orders_at_price_'[price] = None
      BY <1>1, <1>2, <1>3, <1>4, <1>5, <2>1, CancelOnly
    <3>2. QueueThen(side, price) = << >>
      BY <3>1, Zenon DEF QueueThen, QueueOf, LevelsOf
    <3>3. 1 .. (k - 1) = {}
      BY <3>1
    <3>4. Shorter(k, Entries(oid_to_order_, k, q), j) = << >>
      BY <3>3 DEF Shorter
    <3> QED BY <3>2, <3>4, Zenon
  <2>2. CASE oid_to_order_[order].prev_order_ # order
    <3>1. /\ k > 1
          /\ price_orders_at_price_'[price] # None
          /\ price_orders_at_price_'[price].side = price_orders_at_price_[price].side
          /\ OrdersListed(oid_to_order_', price_orders_at_price_'[price].first_mkt_order_,
                          price, k - 1, Shorter(k, q, j))
          /\ \A o \in OrderIds \ {order} : SameOrder(o)
      BY <1>1, <1>2, <1>3, <1>4, <1>5, <2>2, CancelOne
    <3>2. QueueThen(side, price) = Entries(oid_to_order_', k - 1, Shorter(k, q, j))
      BY <3>1, <1>2, <1>3, ThenListed
    <3>3. /\ \A i \in 1 .. k : q[i] \in HeldAt(oid_to_order_, price)
          /\ \A i, l \in 1 .. k : q[i] = q[l] => i = l
      BY <1>4 DEF OrdersListed, Goes
    <3>4. ASSUME NEW i \in 1 .. (k - 1)
          PROVE  [order |-> Shorter(k, q, j)[i],
                  quantity |-> oid_to_order_'[Shorter(k, q, j)[i]].qty]
                   = Entries(oid_to_order_, k, q)[Moved(j, i)]
      <4>1. Moved(j, i) \in 1 .. k /\ Moved(j, i) # j
        BY <1>7, <3>1, PlacesWithout
      <4>2. Shorter(k, q, j)[i] = q[Moved(j, i)]
        BY DEF Shorter
      <4>3. PICK o : o = q[Moved(j, i)] /\ o \in HeldAt(oid_to_order_, price) /\ o # order
        BY <4>1, <3>3, <1>5
      <4>4. oid_to_order_'[o].qty = oid_to_order_[o].qty
        BY <4>3, <3>1 DEF HeldAt, SameOrder
      <4>5. Entries(oid_to_order_, k, q)[Moved(j, i)]
              = [order |-> q[Moved(j, i)], quantity |-> oid_to_order_[q[Moved(j, i)]].qty]
        BY <4>1, Zenon DEF Entries
      <4> QED BY <4>2, <4>3, <4>4, <4>5, Zenon
    <3>5. Entries(oid_to_order_', k - 1, Shorter(k, q, j))
            = Shorter(k, Entries(oid_to_order_, k, q), j)
      BY <3>4, Zenon DEF Entries, Shorter
    <3> QED BY <3>2, <3>5, Zenon
  <2> QED BY <2>1, <2>2
<1>10. j \in DOMAIN Entries(oid_to_order_, k, q)
  BY DEF Entries
<1>11. \E i \in DOMAIN QueueHere(side, price) :
         QueueThen(side, price) = RemoveAt(QueueHere(side, price), i)
  BY <1>6, <1>8, <1>9, <1>10, Zenon
<1> QED BY <1>11, Zenon

\* An update is an operation of ClientBook on the queue of its side and price.
LEMMA LocalOperation ==
  ASSUME TablesTyped, OrdersAllLinked, NEW side \in Sides, NEW price \in Prices,
         AtOnePrice(side, price)
  PROVE  /\ queues[side][price] = QueueHere(side, price)
         /\ queues' = [queues EXCEPT ![side][price] = QueueThen(side, price)]
<1>1. queues[side][price] = QueueHere(side, price)
  BY Zenon DEF queues, QueueHere
<1>2. queues' = [queues EXCEPT ![side][price] = QueueThen(side, price)]
  BY OneQueue DEF QueueThen
<1> QED BY <1>1, <1>2, Zenon

\* ADD is Joined, MODIFY Changed, CANCEL Left.
LEMMA AddOperation ==
  ASSUME TablesTyped, RingsLinked, OrdersAllLinked,
         NEW order \in OrderIds \ Held, NEW side \in Sides, NEW price \in Prices,
         NEW qty \in Quantities, Fits(side, price), Add(order, side, price, qty)
  PROVE  Abstract!Operation(side, price)
<1>2. /\ queues[side][price] = QueueHere(side, price)
      /\ queues'
           = [queues EXCEPT ![side][price] = QueueThen(side, price)]
  BY AddLocal, LocalOperation
<1>3. QueueThen(side, price)
        = Append(QueueHere(side, price), [order |-> order, quantity |-> qty])
  BY AddQueue
<1>4. queues'
        = [queues EXCEPT ![side][price] = Append(queues[side][price], [order |-> order, quantity |-> qty])]
  BY <1>2, <1>3, Zenon
<1>5. order \in OrderIds
  OBVIOUS
<1> QED BY <1>4, <1>5, Zenon DEF Abstract!Operation, Abstract!Joined

LEMMA ModifyOperation ==
  ASSUME TablesTyped, RingsLinked, OrdersAllLinked, NEW order \in Held, NEW qty \in Quantities,
         Modify(order, qty),
         NEW side, NEW price,
         side = oid_to_order_[order].side, price = oid_to_order_[order].price
  PROVE  side \in Sides /\ price \in Prices /\ Abstract!Operation(side, price)
<1>0. side = oid_to_order_[order].side /\ price = oid_to_order_[order].price
  OBVIOUS
<1>2. side \in Sides /\ price \in Prices /\ AtOnePrice(side, price)
  BY <1>0, ModifyLocal
<1>3. /\ queues[side][price] = QueueHere(side, price)
      /\ queues'
           = [queues EXCEPT ![side][price] = QueueThen(side, price)]
  BY <1>2, LocalOperation
<1>4. PICK j \in DOMAIN QueueHere(side, price) :
        QueueThen(side, price) = Abstract!Changed(QueueHere(side, price), j, qty)
  BY <1>0, ModifyQueue
<1>5. /\ j \in DOMAIN queues[side][price]
      /\ queues'
           = [queues EXCEPT ![side][price] = Abstract!Changed(queues[side][price], j, qty)]
  BY <1>3, <1>4, Zenon
<1>6. Abstract!Operation(side, price)
  BY <1>5, Zenon DEF Abstract!Operation
<1> QED BY <1>2, <1>6

LEMMA CancelOperation ==
  ASSUME TablesTyped, RingsLinked, OrdersAllLinked, NEW order \in Held, Cancel(order),
         NEW side, NEW price,
         side = oid_to_order_[order].side, price = oid_to_order_[order].price
  PROVE  side \in Sides /\ price \in Prices /\ Abstract!Operation(side, price)
<1>0. side = oid_to_order_[order].side /\ price = oid_to_order_[order].price
  OBVIOUS
<1>2. side \in Sides /\ price \in Prices /\ AtOnePrice(side, price)
  BY <1>0, CancelLocal
<1>3. /\ queues[side][price] = QueueHere(side, price)
      /\ queues'
           = [queues EXCEPT ![side][price] = QueueThen(side, price)]
  BY <1>2, LocalOperation
<1>4. PICK j \in DOMAIN QueueHere(side, price) :
        QueueThen(side, price) = RemoveAt(QueueHere(side, price), j)
  BY <1>0, CancelQueue
<1>5. /\ j \in DOMAIN queues[side][price]
      /\ queues'
           = [queues EXCEPT ![side][price] = RemoveAt(queues[side][price], j)]
  BY <1>3, <1>4, Zenon
<1>6. \A q, i : Abstract!Left(q, i) = RemoveAt(q, i)
  BY Zenon DEF Abstract!Left, Abstract!RemoveAt, RemoveAt
<1>7. queues'
        = [queues EXCEPT ![side][price] = Abstract!Left(queues[side][price], j)]
  BY <1>5, <1>6, Zenon
<1>8. Abstract!Operation(side, price)
  BY <1>5, <1>7, Zenon DEF Abstract!Operation
<1> QED BY <1>2, <1>8

\* An empty book has empty queues.
LEMMA EmptyQueues == price_orders_at_price_ = NoLevels => queues = Abstract!Empty
<1> SUFFICES ASSUME price_orders_at_price_ = NoLevels PROVE queues = Abstract!Empty
  OBVIOUS
<1>1. \A side \in Sides, p \in Prices : p \notin LevelsOf(price_orders_at_price_, side)
  BY DEF LevelsOf, NoLevels
<1>2. \A side \in Sides, p \in Prices :
        QueueOf(oid_to_order_, price_orders_at_price_, side, p) = << >>
  BY <1>1, Zenon DEF QueueOf
<1> QED BY <1>2, Zenon DEF queues, Abstract!Empty

LEMMA ClearOperation ==
  ASSUME Clear
  PROVE  queues' = Abstract!Empty
<1>1. (price_orders_at_price_ = NoLevels => queues = Abstract!Empty)'
  BY EmptyQueues, PTL
<1>2. price_orders_at_price_' = NoLevels
  BY Zenon DEF Clear
<1> QED BY <1>1, <1>2, Zenon DEF NoLevels, Abstract!Empty

-----------------------------------------------------------------------------
\* What is shown is the best of the queues.

LEMMA SameTotal ==
  ASSUME NEW f
  PROVE  Abstract!Total(f) = Total(f)
BY Zenon DEF Abstract!Total, Total, Abstract!FoldLeft, FoldLeft, Abstract!MapThenFoldSet,
             MapThenFoldSet, Abstract!Max, Max

\* The prices that have orders are those of the levels.
LEMMA QuotedAreLevels ==
  ASSUME Inv, NEW side \in Sides
  PROVE  {p \in Prices : queues[side][p] # << >>} = LevelsOf(price_orders_at_price_, side)
<1>1. ASSUME NEW p \in Prices
      PROVE  queues[side][p] # << >> <=> p \in LevelsOf(price_orders_at_price_, side)
  <2>1. queues[side][p] = QueueOf(oid_to_order_, price_orders_at_price_, side, p)
    BY Zenon DEF queues
  <2>2. CASE p \notin LevelsOf(price_orders_at_price_, side)
    BY <2>1, <2>2, Zenon DEF QueueOf
  <2>3. CASE p \in LevelsOf(price_orders_at_price_, side)
    <3>1. price_orders_at_price_[p] # None /\ price_orders_at_price_[p].side = side
      BY <2>3 DEF LevelsOf
    <3>2. PICK k, q : OrdersListed(oid_to_order_, price_orders_at_price_[p].first_mkt_order_, p, k, q)
      BY <3>1 DEF Inv, OrdersLinked
    <3>3. QueueOf(oid_to_order_, price_orders_at_price_, side, p) = Entries(oid_to_order_, k, q)
      BY <3>1, <3>2, QueueListed
    <3>4. Entries(oid_to_order_, k, q) # << >>
      BY <3>2, EntriesTyped DEF Inv, Typed
    <3> QED BY <2>1, <2>3, <3>3, <3>4
  <2> QED BY <2>2, <2>3
<1>2. LevelsOf(price_orders_at_price_, side) \in SUBSET Prices
  BY LevelsFinite
<1> QED BY <1>1, <1>2

\* The quantity of a queue is the one shown.
LEMMA QuantityShown ==
  ASSUME Inv, NEW side \in Sides, NEW p \in LevelsOf(price_orders_at_price_, side)
  PROVE  BestShown(oid_to_order_, price_orders_at_price_, p)
           = [price |-> p, quantity |-> Abstract!QuantityOf(queues[side][p])]
<1>1. /\ p \in Prices /\ p # None
      /\ price_orders_at_price_[p] # None /\ price_orders_at_price_[p].side = side
  BY MarketOrderBookAssumption DEF LevelsOf
<1>2. PICK k, q : OrdersListed(oid_to_order_, price_orders_at_price_[p].first_mkt_order_, p, k, q)
  BY <1>1 DEF Inv, OrdersLinked
<1>3. QueueAt(oid_to_order_, price_orders_at_price_, p) = q
  BY <1>2, QueueAtIs
<1>4. DOMAIN q = 1 .. k
  BY <1>2 DEF OrdersListed, Goes
<1>5. BestShown(oid_to_order_, price_orders_at_price_, p)
        = [price |-> p, quantity |-> Total([n \in 1 .. k |-> oid_to_order_[q[n]].qty])]
  BY <1>1, <1>3, <1>4, Zenon DEF BestShown
<1>6. queues[side][p] = Entries(oid_to_order_, k, q)
  <2>1. queues[side][p] = QueueOf(oid_to_order_, price_orders_at_price_, side, p)
    BY <1>1, Zenon DEF queues
  <2>2. QueueOf(oid_to_order_, price_orders_at_price_, side, p) = Entries(oid_to_order_, k, q)
    BY <1>1, <1>2, QueueListed
  <2> QED BY <2>1, <2>2, Zenon
<1> DEFINE e == Entries(oid_to_order_, k, q)
<1>7. DOMAIN e = 1 .. k /\ \A n \in 1 .. k : e[n].quantity = oid_to_order_[q[n]].qty
  BY DEF Entries
<1> HIDE DEF e
<1>8. [n \in DOMAIN e |-> e[n].quantity] = [n \in 1 .. k |-> oid_to_order_[q[n]].qty]
  BY <1>7
<1>9. Abstract!QuantityOf(e) = Abstract!Total([n \in 1 .. k |-> oid_to_order_[q[n]].qty])
  BY <1>8, Zenon DEF Abstract!QuantityOf
<1>10. Abstract!Total([n \in 1 .. k |-> oid_to_order_[q[n]].qty])
         = Total([n \in 1 .. k |-> oid_to_order_[q[n]].qty])
  BY SameTotal, Zenon
<1> QED BY <1>5, <1>6, <1>9, <1>10, Zenon DEF e

\* The best of a side is the one that is better than all others.
LEMMA ShownBest == Inv => Abstract!Shown
<1> SUFFICES ASSUME Inv PROVE Abstract!Shown
  OBVIOUS
<1>1. ASSUME NEW side \in Sides
      PROVE  BestShown(oid_to_order_, price_orders_at_price_, by_price_[side])
               = Abstract!BestOf(side, queues[side])
  <2> DEFINE L == LevelsOf(price_orders_at_price_, side)
             best == by_price_[side]
  <2>1. {p \in Prices : queues[side][p] # << >>} = L
    BY QuotedAreLevels
  <2>2. LevelsLinked(price_orders_at_price_, side, best)
    BY DEF Inv
  <2>3. CASE L = {}
    <3>1. best = None
      BY <2>2, <2>3 DEF LevelsLinked
    <3>2. BestShown(oid_to_order_, price_orders_at_price_, best) = [price |-> 0, quantity |-> 0]
      BY <3>1, Zenon DEF BestShown, EmptySide
    <3> HIDE DEF L
    <3> QED BY <2>1, <2>3, <3>2, Zenon DEF Abstract!BestOf
  <2>4. CASE L # {}
    <3>1. best \in L /\ L \in SUBSET Prices /\ \A q \in L : q = best \/ Worse(side, q, best)
      BY <2>2, <2>4, LevelsFinite DEF LevelsLinked, LinksOf
    <3> HIDE DEF L
    <3>2. \A p, q \in Prices : Abstract!Better(side, p, q) <=> Worse(side, q, p)
      BY MarketOrderBookAssumption DEF Abstract!Better, Worse
    <3>3. ASSUME NEW p \in L, \A q \in L \ {p} : Abstract!Better(side, p, q) PROVE p = best
      <4>1. CASE p # best
        <5>1. Worse(side, best, p) /\ Worse(side, p, best)
          BY <4>1, <3>1, <3>2, <3>3
        <5> QED BY <5>1, <3>1, WorseOrder
      <4> QED BY <4>1
    <3>4. \A q \in L \ {best} : Abstract!Better(side, best, q)
      BY <3>1, <3>2
    <3>5. (CHOOSE p \in L : \A q \in L \ {p} : Abstract!Better(side, p, q)) = best
      BY <3>1, <3>3, <3>4, Zenon
    <3>6. Abstract!BestOf(side, queues[side])
            = [price |-> best, quantity |-> Abstract!QuantityOf(queues[side][best])]
      BY <2>1, <2>4, <3>5, Zenon DEF Abstract!BestOf
    <3>7. BestShown(oid_to_order_, price_orders_at_price_, best)
            = [price |-> best, quantity |-> Abstract!QuantityOf(queues[side][best])]
      BY <3>1, QuantityShown DEF L
    <3> QED BY <3>6, <3>7, Zenon
  <2> QED BY <2>3, <2>4
<1>2. bbo_ = [side \in Sides |->
                BestShown(oid_to_order_, price_orders_at_price_, by_price_[side])]
  BY Zenon DEF Inv, ShownIsBest
<1> QED BY <1>1, <1>2, Zenon DEF Abstract!Shown

\* The client's book is the book of ClientBook, whatever is added, changed and
\* cancelled in whatever order: no order is lost or listed twice, every price
\* keeps the order of arrival, and the best bid and offer that updateBBO only
\* redoes when it must are those of the queues.
THEOREM BookImplemented == Spec => ImplementsBook
<1>1. Inv /\ Inv' /\ [Next]_vars => [Abstract!Next]_(Abstract!vars)
  <2> SUFFICES ASSUME Inv, Inv', [Next]_vars
               PROVE  [Abstract!Next]_(Abstract!vars)
    OBVIOUS
  <2>0. TablesTyped /\ RingsLinked /\ OrdersAllLinked
    BY Zenon DEF Inv, TablesTyped, RingsLinked, OrdersAllLinked
  <2>1. Abstract!Shown'
    <3>1. (Inv => Abstract!Shown)'
      BY ShownBest, PTL
    <3> QED BY <3>1
  <2>2. ASSUME NEW side \in Sides, NEW price \in Prices, Abstract!Operation(side, price)
        PROVE  Abstract!Next
    BY <2>1, <2>2 DEF Abstract!Next
  <2>3. ASSUME NEW order \in OrderIds \ Held, NEW side \in Sides, NEW price \in Prices,
               NEW qty \in Quantities, Fits(side, price), Add(order, side, price, qty)
        PROVE  Abstract!Next
    BY <2>0, <2>2, <2>3, AddOperation
  <2>4. ASSUME NEW order \in Held, NEW qty \in Quantities, Modify(order, qty)
        PROVE  Abstract!Next
    <3>1. PICK side, price : side = oid_to_order_[order].side /\ price = oid_to_order_[order].price
      OBVIOUS
    <3> QED BY <2>0, <2>2, <2>4, <3>1, ModifyOperation
  <2>5. ASSUME NEW order \in Held, Cancel(order)
        PROVE  Abstract!Next
    <3>1. PICK side, price : side = oid_to_order_[order].side /\ price = oid_to_order_[order].price
      OBVIOUS
    <3> QED BY <2>0, <2>2, <2>5, <3>1, CancelOperation
  <2>6. CASE Clear
    BY <2>1, <2>6, ClearOperation DEF Abstract!Next
  <2>7. CASE UNCHANGED vars
    BY <2>7 DEF vars, queues, Abstract!vars
  <2> QED BY <2>3, <2>4, <2>5, <2>6, <2>7 DEF Next
<1>2. Init => Abstract!Init
  <2> SUFFICES ASSUME Init PROVE Abstract!Init
    OBVIOUS
  <2>1. Abstract!Shown
    BY InitInv, ShownBest
  <2>2. queues = Abstract!Empty
    BY EmptyQueues DEF Init
  <2> QED BY <2>1, <2>2 DEF Abstract!Init
<1> QED BY <1>1, <1>2, Invariant, PTL DEF Spec, ImplementsBook, Abstract!Spec

=============================================================================
