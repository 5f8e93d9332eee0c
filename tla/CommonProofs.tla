---------------------------- MODULE CommonProofs ----------------------------
(***************************************************************************)
(* Proofs about the two containers of src/common that every component is   *)
(* built on.                                                               *)
(*                                                                         *)
(* LFQueue, for every capacity, every set of items and every number of     *)
(* writes: the claim the producer makes on a slot keeps it one full slot   *)
(* behind the item the consumer released last, and two indices less than   *)
(* Capacity apart never share a slot.                                      *)
(*                                                                         *)
(* MemPool, for every capacity: the free list is an intrusive linked list; *)
(* the history variable `freed` is the stack it spells out, and the        *)
(* invariant ties every link to it.                                        *)
(***************************************************************************)
EXTENDS LFQueue, MemPool, SequenceTheorems, FiniteSetTheorems, TLAPS

-----------------------------------------------------------------------------
\* Arithmetic of the ring.

\* Division with remainder, as the provers know it.
LEMMA DivisionWithRemainder ==
  ASSUME NEW C \in Nat \ {0}, NEW a \in Nat
  PROVE  /\ a = (C * (a \div C)) + (a % C)
         /\ a % C \in 0 .. (C - 1)
         /\ a \div C \in Nat
  OBVIOUS

\* The only multiple of C strictly between -C and C is 0.
LEMMA SmallMultiple ==
  ASSUME NEW C \in Nat \ {0}, NEW k \in Int, C * k < C, C * k > 0 - C
  PROVE  k = 0
  OBVIOUS

\* Two numbers less than C apart with the same remainder are equal.
LEMMA ModInjective ==
  ASSUME NEW C \in Nat \ {0}, NEW a \in Nat, NEW b \in Nat,
         b <= a, a - b < C, a % C = b % C
  PROVE  a = b
<1> DEFINE k == (a \div C) - (b \div C)
<1>1. a \div C \in Nat /\ b \div C \in Nat
  BY DivisionWithRemainder
<1>2. a - b = (C * (a \div C)) - (C * (b \div C))
  BY DivisionWithRemainder
<1>3. (C * (a \div C)) - (C * (b \div C)) = C * k
  BY <1>1
<1>4. C * k < C /\ C * k >= 0
  BY <1>2, <1>3
<1>5. k = 0
  BY <1>1, <1>4, SmallMultiple
<1> QED
  BY <1>2, <1>3, <1>5

\* Adding C does not change the remainder.
LEMMA ModPeriodic ==
  ASSUME NEW C \in Nat \ {0}, NEW a \in Nat
  PROVE  (a + C) % C = a % C
<1> DEFINE q == ((a + C) \div C) - (a \div C) - 1
<1>1. a \div C \in Nat /\ (a + C) \div C \in Nat
  BY DivisionWithRemainder
<1>2. a % C \in 0 .. (C - 1) /\ (a + C) % C \in 0 .. (C - 1)
  BY DivisionWithRemainder
<1>3. (a % C) - ((a + C) % C)
        = (C * ((a + C) \div C)) - (C * (a \div C)) - C
  BY <1>1, DivisionWithRemainder
<1>4. (C * ((a + C) \div C)) - (C * (a \div C)) - C = C * q
  BY <1>1
<1>5. C * q < C /\ C * q > 0 - C
  BY <1>2, <1>3, <1>4
<1>6. q = 0
  BY <1>1, <1>5, SmallMultiple
<1> QED
  BY <1>2, <1>3, <1>4, <1>6

\* Two indices less than Capacity apart are in different slots.
LEMMA SlotInjective ==
  ASSUME NEW a \in Nat, NEW b \in Nat, b <= a, a - b < Capacity,
         Slot(a) = Slot(b)
  PROVE  a = b
  BY ModInjective, CapacityAssumption DEF Slot

\* Going once around the ring leads back to the same slot.
LEMMA SlotPeriodic ==
  ASSUME NEW a \in Nat
  PROVE  Slot(a + Capacity) = Slot(a)
  BY ModPeriodic, CapacityAssumption DEF Slot

\* A slot is a position of store_.
LEMMA SlotInRange ==
  ASSUME NEW a \in Nat
  PROVE  Slot(a) \in Slots
  BY DivisionWithRemainder, CapacityAssumption DEF Slot, Slots

\* Comparing masked indices decides whether the ring is full: when the
\* producer is at most Capacity - 1 ahead of `read` and the masked
\* comparison fails, there is room for one more (ringBuffer.h 31-33).
LEMMA NotFullMeansRoom ==
  ASSUME NEW read \in Nat, next_write_index \in Nat,
         next_write_index - read <= Capacity - 1, ~ LooksFull(read)
  PROVE  next_write_index + 1 - read <= Capacity - 1
<1>1. next_write_index + 1 # read + Capacity
  BY SlotPeriodic DEF LooksFull
<1> QED
  BY <1>1, CapacityAssumption

-----------------------------------------------------------------------------
\* The inductive invariant.

\* While the producer owns a claimed slot there is still room for it by its
\* own cached copy, so the slot is no slot the consumer may look at.
ClaimHasRoom ==
  producer \in {"claimed", "filling", "filled"} =>
    next_write_index + 1 - cached_read_index_ <= Capacity - 1

\* The slots from the last released item up to the newest one are intact.
WindowIntact ==
  \A i \in 0 .. (next_write_index - 1) :
    i + 1 >= next_read_index => store_[Slot(i)] = written[i + 1]

\* size() loaded a read index the consumer really had.
SizeSound == size_read <= next_read_index /\ size_result >= 0

IInv ==
  /\ TypeOK
  /\ CachesNeverAhead
  /\ Len(written) = next_write_index
  /\ producer # "idle" => next_write_index < MaxWrites
  /\ consumer = "reading" => next_read_index < cached_write_index_
  /\ ClaimHasRoom
  /\ producer = "filled" => store_[Slot(next_write_index)] \in Values
  /\ WindowIntact
  /\ SizeSound

\* A claimed slot is none of the slots of the window.
LEMMA ClaimedSlotIsFree ==
  ASSUME IInv, producer \in {"claimed", "filling", "filled"},
         NEW i \in 0 .. (next_write_index - 1), i + 1 >= next_read_index
  PROVE  Slot(i) # Slot(next_write_index)
<1>1. next_write_index - i < Capacity
  BY CapacityAssumption
  DEF IInv, TypeOK, CachesNeverAhead, ClaimHasRoom
<1> QED
  BY <1>1, SlotInjective DEF IInv, TypeOK

\* Writing the claimed slot keeps the window.
LEMMA FillKeepsWindow ==
  ASSUME IInv, producer \in {"claimed", "filling", "filled"}, NEW v,
         store_' = [store_ EXCEPT ![Slot(next_write_index)] = v],
         UNCHANGED <<next_write_index, next_read_index, written>>
  PROVE  WindowIntact'
<1> SUFFICES ASSUME NEW i \in 0 .. (next_write_index - 1),
                    i + 1 >= next_read_index
             PROVE  store_'[Slot(i)] = written[i + 1]
  BY DEF WindowIntact
<1>1. Slot(i) # Slot(next_write_index)
  BY ClaimedSlotIsFree
<1>2. Slot(i) \in Slots
  BY SlotInRange DEF IInv, TypeOK
<1> QED
  BY <1>1, <1>2 DEF IInv, TypeOK, WindowIntact

\* The empty queue satisfies the invariant.
LEMMA InitInv == Init => IInv
  BY CapacityAssumption, MaxWritesAssumption
  DEF Init, IInv, TypeOK, CachesNeverAhead, ClaimHasRoom, WindowIntact,
      SizeSound, Slots

\* Every step of either thread, and of size(), keeps the invariant.
LEMMA NextInv == IInv /\ [Next]_vars => IInv'
<1> SUFFICES ASSUME IInv, [Next]_vars PROVE IInv'
  OBVIOUS
<1> USE CapacityAssumption, MaxWritesAssumption
<1>1. CASE GetNextToWriteTo
  BY <1>1 DEF GetNextToWriteTo, IInv, TypeOK, CachesNeverAhead, ClaimHasRoom,
              WindowIntact, SizeSound, consVars, sizeVars
<1>2. CASE TryGetNextToWriteTo
  <2> PICK read \in Visible(cached_read_index_, next_read_index)
                      \cup {cached_read_index_} :
        /\ cached_read_index_' = read
        /\ producer' = IF LooksFull(read) THEN "trying" ELSE "claimed"
    BY <1>2 DEF TryGetNextToWriteTo
  <2>1. read \in Nat /\ cached_read_index_ <= read /\ read <= next_read_index
    BY DEF Visible, IInv, TypeOK, CachesNeverAhead
  <2>2. next_write_index - read <= Capacity - 1
    BY <2>1 DEF IInv, TypeOK, CachesNeverAhead
  <2>3. producer' # "trying" => next_write_index + 1 - read <= Capacity - 1
    BY <2>1, <2>2, NotFullMeansRoom DEF IInv, TypeOK
  <2> QED
    BY <1>2, <2>1, <2>2, <2>3
    DEF TryGetNextToWriteTo, IInv, TypeOK, CachesNeverAhead, ClaimHasRoom,
        WindowIntact, SizeSound, consVars, sizeVars
<1>3. CASE BeginFill
  <2>1. WindowIntact'
    BY <1>3, FillKeepsWindow DEF BeginFill, consVars
  <2> QED
    BY <1>3, <2>1 DEF BeginFill, IInv, TypeOK, CachesNeverAhead, ClaimHasRoom,
                      SizeSound, consVars, sizeVars
<1>4. ASSUME NEW v \in Values, EndFill(v) PROVE IInv'
  <2>1. WindowIntact'
    BY <1>4, FillKeepsWindow DEF EndFill, consVars
  <2>2. store_'[Slot(next_write_index)] \in Values
    BY <1>4, SlotInRange DEF EndFill, IInv, TypeOK
  <2> QED
    BY <1>4, <2>1, <2>2 DEF EndFill, IInv, TypeOK, CachesNeverAhead,
                      ClaimHasRoom, SizeSound, consVars, sizeVars
<1>5. CASE UpdateWriteIndex
  <2> DEFINE item == store_[Slot(next_write_index)]
  <2>1. item \in Values /\ written' = Append(written, item)
    BY <1>5 DEF UpdateWriteIndex, IInv
  <2>2. /\ written' \in Seq(Values)
        /\ Len(written') = next_write_index + 1
        /\ written'[next_write_index + 1] = item
        /\ \A i \in 1 .. next_write_index : written'[i] = written[i]
    BY <2>1 DEF IInv, TypeOK
  <2>3. WindowIntact'
    <3> SUFFICES ASSUME NEW i \in 0 .. next_write_index,
                        i + 1 >= next_read_index
                 PROVE  store_[Slot(i)] = written'[i + 1]
      BY <1>5 DEF UpdateWriteIndex, IInv, TypeOK, WindowIntact, consVars
    <3>1. CASE i = next_write_index
      BY <3>1, <2>2
    <3>2. CASE i # next_write_index
      <4>1. i \in 0 .. (next_write_index - 1) /\ i + 1 \in 1 .. next_write_index
        BY <3>2 DEF IInv, TypeOK
      <4> QED
        BY <4>1, <2>2 DEF IInv, WindowIntact
    <3> QED
      BY <3>1, <3>2
  <2>4. next_write_index' \in 0 .. MaxWrites
    BY <1>5 DEF UpdateWriteIndex, IInv, TypeOK
  <2> QED
    BY <1>5, <2>2, <2>3, <2>4
    DEF UpdateWriteIndex, IInv, TypeOK, CachesNeverAhead, ClaimHasRoom,
        SizeSound, consVars, sizeVars
<1>6. CASE GetNextToRead
  <2> PICK write \in Visible(cached_write_index_, next_write_index)
                       \cup {cached_write_index_} :
        /\ cached_write_index_' = write
        /\ consumer' = IF next_read_index = write THEN "idle" ELSE "reading"
    BY <1>6 DEF GetNextToRead
  <2>1. /\ write \in Nat
        /\ cached_write_index_ <= write
        /\ write <= next_write_index
    BY DEF Visible, IInv, TypeOK, CachesNeverAhead
  <2> QED
    BY <1>6, <2>1
    DEF GetNextToRead, IInv, TypeOK, CachesNeverAhead, ClaimHasRoom,
        WindowIntact, SizeSound, prodVars, sizeVars
<1>7. CASE UpdateReadIndex
  BY <1>7 DEF UpdateReadIndex, IInv, TypeOK, CachesNeverAhead, ClaimHasRoom,
              WindowIntact, SizeSound, prodVars, sizeVars
<1>8. CASE Size
  <2>1. SizeSound' /\ size_read' \in Int /\ size_result' \in Int
    BY <1>8 DEF Size, SizeSound, IInv, TypeOK, CachesNeverAhead, prodVars,
                consVars
  <2>2. UNCHANGED <<store_, prodVars, consVars>>
    BY <1>8 DEF Size
  <2> QED
    BY <2>1, <2>2 DEF IInv, TypeOK, CachesNeverAhead, ClaimHasRoom,
                      WindowIntact, prodVars, consVars
<1>9. CASE UNCHANGED vars
  BY <1>9 DEF vars, IInv, TypeOK, CachesNeverAhead, ClaimHasRoom,
              WindowIntact, SizeSound, prodVars, consVars, sizeVars
<1> QED
  BY <1>1, <1>2, <1>3, <1>4, <1>5, <1>6, <1>7, <1>8, <1>9
  DEF Next, Producer, Consumer

\* The invariant holds throughout.
LEMMA Invariance == Spec => []IInv
  BY InitInv, NextInv, PTL DEF Spec

-----------------------------------------------------------------------------
\* The results.

\* The ring never leaves its types.
THEOREM TypeCorrect == Spec => []TypeOK
<1>1. IInv => TypeOK
  BY DEF IInv
<1> QED
  BY <1>1, Invariance, PTL

\* The cached indices are always a safe under-estimate.
THEOREM CachesCorrect == Spec => []CachesNeverAhead
<1>1. IInv => CachesNeverAhead
  BY DEF IInv
<1> QED
  BY <1>1, Invariance, PTL

\* No unread item is ever overwritten or torn, for any capacity.
THEOREM UnreadItemsSafe == Spec => []UnreadIntact
<1>1. IInv => UnreadIntact
  BY DEF IInv, TypeOK, WindowIntact, UnreadIntact
<1> QED
  BY <1>1, Invariance, PTL

\* The item released last stays readable until the next GetNextToRead: the
\* late copy in MarketDataPublisher::run is safe for any capacity.
THEOREM LateReadSafe == Spec => []ReleasedSlotIntact
<1>1. IInv => ReleasedSlotIntact
  BY DEF IInv, TypeOK, CachesNeverAhead, WindowIntact, ReleasedSlotIntact
<1> QED
  BY <1>1, Invariance, PTL

\* size() never underflows.
THEOREM SizeSafe == Spec => []SizeNeverUnderflows
<1>1. IInv => SizeNeverUnderflows
  BY DEF IInv, SizeSound, SizeNeverUnderflows
<1> QED
  BY <1>1, Invariance, PTL

-----------------------------------------------------------------------------
\* The ring implements the bounded queue.

\* A step that leaves both indices and the unread slots alone is invisible.
LEMMA InvisibleStep ==
  ASSUME IInv, UNCHANGED <<next_write_index, next_read_index>>,
         \A i \in next_read_index .. (next_write_index - 1) :
           store_'[Slot(i)] = store_[Slot(i)]
  PROVE  UNCHANGED visibleItems
<1>1. ASSUME NEW k \in 1 .. (next_write_index - next_read_index)
      PROVE  store_'[Slot(next_read_index + k - 1)]
               = store_[Slot(next_read_index + k - 1)]
  BY DEF IInv, TypeOK
<1> QED
  BY <1>1 DEF visibleItems

\* The unread items form a sequence, no longer than the bound.
LEMMA VisibleItemsSeq ==
  ASSUME IInv
  PROVE  /\ visibleItems \in Seq(Values)
         /\ Len(visibleItems) = next_write_index - next_read_index
<1>1. next_write_index - next_read_index \in Nat
  BY DEF IInv, TypeOK, CachesNeverAhead
<1>2. ASSUME NEW k \in 1 .. (next_write_index - next_read_index)
      PROVE  store_[Slot(next_read_index + k - 1)] \in Values
  <2> DEFINE i == next_read_index + k - 1
  <2>1. i \in 0 .. (next_write_index - 1) /\ i + 1 >= next_read_index
    BY <1>2 DEF IInv, TypeOK
  <2>2. store_[Slot(i)] = written[i + 1]
    BY <2>1 DEF IInv, WindowIntact
  <2>3. written[i + 1] \in Values
    BY <2>1 DEF IInv, TypeOK
  <2> QED
    BY <2>2, <2>3
<1> QED
  BY <1>1, <1>2 DEF visibleItems

\* Writing a claimed slot is invisible.
LEMMA FillInvisible ==
  ASSUME IInv, producer \in {"claimed", "filling"}, NEW v,
         store_' = [store_ EXCEPT ![Slot(next_write_index)] = v],
         UNCHANGED <<next_write_index, next_read_index>>
  PROVE  UNCHANGED visibleItems
<1>1. ASSUME NEW i \in next_read_index .. (next_write_index - 1)
      PROVE  store_'[Slot(i)] = store_[Slot(i)]
  <2>1. i \in 0 .. (next_write_index - 1) /\ i + 1 >= next_read_index
    BY DEF IInv, TypeOK
  <2>2. Slot(i) # Slot(next_write_index)
    BY <2>1, ClaimedSlotIsFree
  <2>3. Slot(i) \in Slots
    BY <2>1, SlotInRange
  <2> QED
    BY <2>2, <2>3 DEF IInv, TypeOK
<1> QED
  BY <1>1, InvisibleStep

\* UpdateWriteIndex puts one item at the end.
LEMMA PublishIsPut ==
  ASSUME IInv, IInv', UpdateWriteIndex
  PROVE  \E v \in Values : fifo!Put(v)
<1> DEFINE v == store_[Slot(next_write_index)]
           n == next_write_index - next_read_index
<1>1. v \in Values
  BY DEF IInv, UpdateWriteIndex
<1>2. n \in Nat /\ n < Capacity - 1
  BY CapacityAssumption DEF IInv, TypeOK, CachesNeverAhead, ClaimHasRoom, UpdateWriteIndex
<1>3. /\ next_write_index' = next_write_index + 1
      /\ next_read_index' = next_read_index
      /\ store_' = store_
  BY DEF UpdateWriteIndex, consVars
<1>4. visibleItems' = [k \in 1 .. (n + 1) |->
                         store_[Slot(next_read_index + k - 1)]]
  <2>1. next_write_index' - next_read_index' = n + 1
    BY <1>3 DEF IInv, TypeOK
  <2> QED
    BY <2>1, <1>3 DEF visibleItems
<1>5. visibleItems \in Seq(Values) /\ Len(visibleItems) = n
  BY VisibleItemsSeq
<1>6. visibleItems' = Append(visibleItems, v)
  <2>1. ASSUME NEW k \in 1 .. (n + 1)
        PROVE  visibleItems'[k] = Append(visibleItems, v)[k]
    <3>1. CASE k = n + 1
      <4>1. next_read_index + k - 1 = next_write_index
        BY <3>1 DEF IInv, TypeOK
      <4> QED
        BY <3>1, <4>1, <1>4, <1>5, <1>1, <1>2
    <3>2. CASE k # n + 1
      <4>1. k \in 1 .. n
        BY <3>2, <1>2
      <4>2. visibleItems[k] = store_[Slot(next_read_index + k - 1)]
        BY <4>1 DEF visibleItems
      <4> QED
        BY <4>1, <4>2, <1>4, <1>5, <1>1, <1>2
    <3> QED
      BY <3>1, <3>2
  <2>2. /\ Append(visibleItems, v) \in Seq(Values)
        /\ Len(Append(visibleItems, v)) = n + 1
    BY <1>1, <1>5
  <2>3. Append(visibleItems, v) = [k \in 1 .. (n + 1) |-> Append(visibleItems, v)[k]]
    BY <2>2
  <2> QED
    BY <2>1, <2>3, <1>4
<1> QED
  BY <1>1, <1>2, <1>5, <1>6 DEF fifo!Put

\* UpdateReadIndex takes the oldest item.
LEMMA ReleaseIsTake ==
  ASSUME IInv, UpdateReadIndex
  PROVE  fifo!Take
<1> DEFINE n == next_write_index - next_read_index
<1>1. n \in Nat /\ n > 0
  BY DEF IInv, TypeOK, CachesNeverAhead, UpdateReadIndex
<1>2. visibleItems \in Seq(Values) /\ Len(visibleItems) = n
  BY VisibleItemsSeq
<1>3. /\ next_write_index' = next_write_index
      /\ next_read_index' = next_read_index + 1
      /\ store_' = store_
  BY DEF UpdateReadIndex, prodVars
<1>4. visibleItems' = [k \in 1 .. (n - 1) |->
                         store_[Slot(next_read_index + k)]]
  <2>1. next_write_index' - next_read_index' = n - 1
    BY <1>3 DEF IInv, TypeOK
  <2>2. ASSUME NEW k \in 1 .. (n - 1)
        PROVE  next_read_index' + k - 1 = next_read_index + k
    BY <1>3, <1>1 DEF IInv, TypeOK
  <2> QED
    BY <2>1, <2>2, <1>3 DEF visibleItems
<1>5. Tail(visibleItems) = [k \in 1 .. (n - 1) |-> visibleItems[k + 1]]
  <2>1. visibleItems # << >>
    BY <1>1, <1>2
  <2>2. /\ Tail(visibleItems) \in Seq(Values)
        /\ Len(Tail(visibleItems)) = n - 1
        /\ \A k \in 1 .. (n - 1) : Tail(visibleItems)[k] = visibleItems[k + 1]
    BY <1>2, <2>1, HeadTailProperties
  <2>3. Tail(visibleItems) = [k \in 1 .. (n - 1) |-> Tail(visibleItems)[k]]
    BY <2>2, <1>1, LenProperties
  <2> QED
    BY <2>2, <2>3
<1>6. ASSUME NEW k \in 1 .. (n - 1)
      PROVE  visibleItems[k + 1] = store_[Slot(next_read_index + k)]
  <2>1. k + 1 \in 1 .. n /\ next_read_index + (k + 1) - 1 = next_read_index + k
    BY <1>1 DEF IInv, TypeOK
  <2> QED
    BY <2>1 DEF visibleItems
<1>7. visibleItems' = Tail(visibleItems)
  BY <1>4, <1>5, <1>6
<1> QED
  BY <1>1, <1>2, <1>7 DEF fifo!Take

\* Every step of the ring is a step of the bounded queue or invisible.
LEMMA StepRefines == IInv /\ IInv' /\ [Next]_vars => [fifo!Next]_visibleItems
<1> SUFFICES ASSUME IInv, IInv', [Next]_vars
             PROVE  fifo!Next \/ UNCHANGED visibleItems
  BY DEF fifo!Next
<1>1. CASE UNCHANGED <<store_, next_write_index, next_read_index>>
  BY <1>1, InvisibleStep
<1>2. CASE GetNextToWriteTo \/ TryGetNextToWriteTo
  BY <1>1, <1>2 DEF GetNextToWriteTo, TryGetNextToWriteTo, consVars
<1>3. CASE BeginFill
  BY <1>3, FillInvisible DEF BeginFill, consVars
<1>4. ASSUME NEW v \in Values, EndFill(v)
      PROVE  UNCHANGED visibleItems
  BY <1>4, FillInvisible DEF EndFill, consVars
<1>5. CASE UpdateWriteIndex
  BY <1>5, PublishIsPut DEF fifo!Next
<1>6. CASE GetNextToRead
  BY <1>1, <1>6 DEF GetNextToRead, prodVars
<1>7. CASE UpdateReadIndex
  BY <1>7, ReleaseIsTake DEF fifo!Next
<1>8. CASE Size
  BY <1>1, <1>8 DEF Size, prodVars, consVars
<1>9. CASE UNCHANGED vars
  BY <1>1, <1>9 DEF vars, prodVars, consVars
<1> QED
  BY <1>2, <1>3, <1>4, <1>5, <1>6, <1>7, <1>8, <1>9
  DEF Next, Producer, Consumer

\* The lock-free ring is a first-in first-out queue of Capacity - 1 items,
\* for every capacity: nothing is lost, duplicated, reordered or torn.
THEOREM Refinement == Spec => ImplementsFIFO
<1>1. Init => fifo!Init
  BY DEF Init, fifo!Init, visibleItems
<1>2. IInv /\ IInv' /\ [Next]_vars => [fifo!Next]_visibleItems
  BY StepRefines
<1> QED
  BY <1>1, <1>2, Invariance, PTL DEF Spec, ImplementsFIFO, fifo!Spec

-----------------------------------------------------------------------------
\* The pool.

\* The links in the freed slots spell out the stack `freed`.
ListSpellsStack ==
  /\ Len(freed) = 0 => free_head_ = Null
  /\ Len(freed) # 0 => free_head_ = freed[Len(freed)]
  /\ Len(freed) # 0 => storage_[freed[1]] = Link(Null)
  /\ \A k \in 2 .. Len(freed) : storage_[freed[k]] = Link(freed[k - 1])

\* No slot is on the free list twice.
StackDistinct ==
  \A j, k \in 1 .. Len(freed) : freed[j] = freed[k] => j = k

\* A slot is handed out exactly when it lies below the bump cursor and is not
\* on the free list.
LiveOrFree ==
  /\ \A k \in 1 .. Len(freed) : freed[k] < next_unused_
  /\ \A i \in PoolSlots : i \in in_use_flags_
       <=> (i < next_unused_ /\ \A k \in 1 .. Len(freed) : freed[k] # i)

\* in_use_ counts the slots handed out.
CountExact ==
  /\ in_use_ + Len(freed) = next_unused_
  /\ IsFiniteSet(in_use_flags_)
  /\ in_use_ = Cardinality(in_use_flags_)

PoolInv ==
  /\ PoolTypeOK
  /\ ListSpellsStack
  /\ StackDistinct
  /\ LiveOrFree
  /\ CountExact
  /\ ObjectsIntact
  /\ HighWaterExact
  /\ AbortsOnlyWhenFull

\* The pool as constructed satisfies the invariant.
LEMMA PoolInitInv == PoolInit => PoolInv
<1> SUFFICES ASSUME PoolInit PROVE PoolInv
  OBVIOUS
<1>1. Len(freed) = 0 /\ freed \in Seq(PoolSlots)
  BY DEF PoolInit
<1>2. PoolTypeOK
  BY <1>1, PoolCapacityAssumption DEF PoolInit, PoolTypeOK, Contents
<1>3. LiveOrFree
  BY <1>1 DEF PoolInit, LiveOrFree, PoolSlots
<1>4. in_use_ = 0 /\ next_unused_ = 0 /\ free_head_ = Null
  BY DEF PoolInit
<1>5. CountExact
  BY <1>1, <1>4, FS_EmptySet DEF PoolInit, CountExact
<1>6. ListSpellsStack /\ StackDistinct
  BY <1>1, <1>4 DEF ListSpellsStack, StackDistinct
<1> QED
  BY <1>2, <1>3, <1>5, <1>6
  DEF PoolInit, PoolInv, ObjectsIntact, HighWaterExact, AbortsOnlyWhenFull

\* What a slot may hold.
LEMMA ContentsTypes ==
  /\ \A o \in Objects : Object(o) \in Contents
  /\ \A next \in PoolSlots \cup {Null} : Link(next) \in Contents
  /\ Zeroed \in Contents
  BY DEF Contents

\* A link gives back the slot it leads to.
LEMMA LinkValue == \A next : Link(next).value = next
  BY DEF Link

\* A stack without its top.
LEMMA FrontProperties ==
  ASSUME NEW S, NEW s \in Seq(S), Len(s) # 0
  PROVE  /\ Front(s) \in Seq(S)
         /\ Len(Front(s)) = Len(s) - 1
         /\ \A k \in 1 .. (Len(s) - 1) : Front(s)[k] = s[k]
<1> DEFINE n == Len(s) - 1
<1>1. n \in Nat /\ \A i \in 1 .. n : s[i] \in S
  OBVIOUS
<1>2. /\ SubSeq(s, 1, n) \in Seq(S)
      /\ Len(SubSeq(s, 1, n)) = IF 1 <= n THEN n - 1 + 1 ELSE 0
      /\ \A i \in 1 .. (n - 1 + 1) : SubSeq(s, 1, n)[i] = s[1 + i - 1]
  BY <1>1, SubSeqProperties
<1>3. Front(s) = SubSeq(s, 1, n)
  BY DEF Front
<1> HIDE DEF n
<1>4. /\ Front(s) \in Seq(S)
      /\ Len(Front(s)) = n
      /\ \A k \in 1 .. n : Front(s)[k] = s[k]
  BY <1>1, <1>2, <1>3
<1> QED
  BY <1>4 DEF n

\* allocate() from the free list.
LEMMA RecycledInv ==
  ASSUME PoolInv, NEW o \in Objects, AllocateRecycled(o)
  PROVE  PoolInv'
<1> DEFINE n == Len(freed)
<1> USE PoolCapacityAssumption
<1>1. /\ n = Len(freed) /\ n \in Nat /\ n # 0
      /\ free_head_ = freed[n]
      /\ free_head_ \in PoolSlots
      /\ \A k \in 1 .. n : freed[k] \in PoolSlots
  BY DEF PoolInv, PoolTypeOK, ListSpellsStack, AllocateRecycled
<1> HIDE DEF n
<1>2. /\ freed' \in Seq(PoolSlots)
      /\ Len(freed') = n - 1
      /\ \A k \in 1 .. (n - 1) : freed'[k] = freed[k]
  <2>1. freed' = Front(freed) /\ freed \in Seq(PoolSlots)
    BY DEF AllocateRecycled, PoolInv, PoolTypeOK
  <2> QED
    BY <2>1, <1>1, FrontProperties
<1>3. /\ free_head_ < next_unused_
      /\ free_head_ \notin in_use_flags_
  <2>1. n \in 1 .. n
    BY <1>1
  <2>2. freed[n] < next_unused_
    BY <2>1, <1>1 DEF PoolInv, LiveOrFree
  <2>3. free_head_ \notin in_use_flags_
    BY <2>1, <1>1 DEF PoolInv, LiveOrFree
  <2> QED
    BY <2>2, <2>3, <1>1
<1>4. /\ in_use_flags_' = in_use_flags_ \cup {free_head_}
      /\ failure' = "none"
      /\ free_head_ \in 0 .. (next_unused_ - 1)
      /\ storage_' = [storage_ EXCEPT ![free_head_] = Object(o)]
      /\ owned' = [owned EXCEPT ![free_head_] = o]
      /\ in_use_' = in_use_ + 1
      /\ next_unused_' = next_unused_
  <2>1. free_head_ \in 0 .. (next_unused_ - 1)
    <3>1. free_head_ \in Nat
      BY <1>1 DEF PoolSlots
    <3>2. next_unused_ \in Nat
      BY DEF PoolInv, PoolTypeOK
    <3> QED
      BY <3>1, <3>2, <1>3
  <2> QED
    BY <2>1, <1>3 DEF AllocateRecycled, HandOut, MarkSlot
<1>5. /\ n = 1 => free_head_' = Null
      /\ n # 1 => free_head_' = freed[n - 1]
  <2>1. n = 1 => storage_[free_head_] = Link(Null)
    BY <1>1 DEF PoolInv, ListSpellsStack
  <2>2. n # 1 => storage_[free_head_] = Link(freed[n - 1])
    <3>1. n # 1 => n \in 2 .. n
      BY <1>1
    <3> QED
      BY <3>1, <1>1 DEF PoolInv, ListSpellsStack
  <2> QED
    BY <2>1, <2>2, LinkValue DEF AllocateRecycled
<1>6. in_use_ + 1 <= next_unused_ /\ max_in_use' = max_in_use
  <2>1. in_use_ + 1 <= next_unused_
    BY <1>1 DEF PoolInv, PoolTypeOK, CountExact
  <2> QED
    BY <2>1 DEF AllocateRecycled, HandOut, PoolInv, PoolTypeOK, HighWaterExact
<1>7. ListSpellsStack'
  <2>1. ASSUME NEW k \in 1 .. (n - 1)
        PROVE  storage_'[freed[k]] = storage_[freed[k]]
    <3>1. freed[k] # free_head_ /\ freed[k] \in PoolSlots
      BY <1>1 DEF PoolInv, StackDistinct
    <3> QED
      BY <3>1, <1>4 DEF PoolInv, PoolTypeOK
  <2>2. n - 1 # 0 => storage_'[freed'[1]] = Link(Null)
    BY <2>1, <1>1, <1>2 DEF PoolInv, ListSpellsStack
  <2>3. ASSUME NEW k \in 2 .. (n - 1)
        PROVE  storage_'[freed'[k]] = Link(freed'[k - 1])
    BY <2>1, <1>1, <1>2 DEF PoolInv, ListSpellsStack
  <2> QED
    BY <2>2, <2>3, <1>1, <1>2, <1>5 DEF ListSpellsStack
<1>8. StackDistinct'
  BY <1>1, <1>2 DEF PoolInv, StackDistinct
<1>9. LiveOrFree'
  <2>1. \A k \in 1 .. (n - 1) : freed[k] # free_head_
    BY <1>1 DEF PoolInv, StackDistinct
  <2>2. ASSUME NEW i \in PoolSlots
        PROVE  i \in in_use_flags_'
                 <=> (i < next_unused_ /\ \A k \in 1 .. (n - 1) : freed[k] # i)
    <3>1. CASE i = free_head_
      BY <3>1, <2>1, <1>3, <1>4 DEF PoolInv, PoolTypeOK
    <3>2. CASE i # free_head_
      <4>1. i \in in_use_flags_' <=> i \in in_use_flags_
        BY <3>2, <1>4 DEF PoolInv, PoolTypeOK
      <4>2. (\A k \in 1 .. (n - 1) : freed[k] # i)
              <=> (\A k \in 1 .. n : freed[k] # i)
        BY <3>2, <1>1
      <4>3. i \in in_use_flags_
              <=> (i < next_unused_ /\ \A k \in 1 .. n : freed[k] # i)
        BY <1>1 DEF PoolInv, LiveOrFree
      <4> QED
        BY <4>1, <4>2, <4>3
    <3> QED
      BY <3>1, <3>2
  <2>3. \A k \in 1 .. (n - 1) : freed[k] < next_unused_
    <3>1. \A k \in 1 .. (n - 1) : k \in 1 .. n
      BY <1>1
    <3> QED
      BY <3>1, <1>1 DEF PoolInv, LiveOrFree
  <2> QED
    BY <2>2, <2>3, <1>2, <1>4 DEF LiveOrFree
<1>10. ObjectsIntact'
  BY <1>1, <1>4 DEF PoolInv, PoolTypeOK, ObjectsIntact
<1>11. PoolTypeOK'
  <2>1. storage_' \in [PoolSlots -> Contents] /\ owned' \in [PoolSlots -> Objects]
    BY <1>4, ContentsTypes DEF PoolInv, PoolTypeOK
  <2>2. free_head_' \in PoolSlots \cup {Null}
    <3>1. n # 1 => n - 1 \in 1 .. n
      BY <1>1
    <3> QED
      BY <3>1, <1>1, <1>5
  <2>3. in_use_' \in 0 .. PoolCapacity
    BY <1>4, <1>6 DEF PoolInv, PoolTypeOK
  <2>4. in_use_flags_' \subseteq PoolSlots
    BY <1>1, <1>4 DEF PoolInv, PoolTypeOK
  <2> QED
    BY <2>1, <2>2, <2>3, <2>4, <1>2, <1>4, <1>6 DEF PoolInv, PoolTypeOK
<1>12. CountExact'
  <2>1. in_use_' + Len(freed') = next_unused_'
    BY <1>1, <1>2, <1>4 DEF PoolInv, PoolTypeOK, CountExact
  <2> QED
    BY <2>1, <1>3, <1>4, FS_AddElement DEF PoolInv, PoolTypeOK, CountExact
<1>13. HighWaterExact' /\ AbortsOnlyWhenFull'
  BY <1>4, <1>6 DEF PoolInv, HighWaterExact, AbortsOnlyWhenFull
<1> QED
  BY <1>7, <1>8, <1>9, <1>10, <1>11, <1>12, <1>13 DEF PoolInv

\* allocate() of a fresh slot.
LEMMA FreshInv ==
  ASSUME PoolInv, NEW o \in Objects, AllocateFresh(o)
  PROVE  PoolInv'
<1> USE PoolCapacityAssumption
<1>1. /\ Len(freed) = 0
      /\ next_unused_ \in PoolSlots
      /\ in_use_ = next_unused_
  <2>1. Len(freed) \in Nat /\ \A k \in 1 .. Len(freed) : freed[k] \in PoolSlots
    BY DEF PoolInv, PoolTypeOK
  <2>2. Len(freed) # 0 => freed[Len(freed)] # Null
    BY <2>1 DEF PoolSlots, Null
  <2> QED
    BY <2>1, <2>2
    DEF AllocateFresh, PoolInv, PoolTypeOK, ListSpellsStack, CountExact, PoolSlots
<1>2. next_unused_ \notin in_use_flags_
  BY <1>1 DEF PoolInv, PoolTypeOK, LiveOrFree
<1>3. /\ in_use_flags_' = in_use_flags_ \cup {next_unused_}
      /\ failure' = "none"
      /\ storage_' = [storage_ EXCEPT ![next_unused_] = Object(o)]
      /\ owned' = [owned EXCEPT ![next_unused_] = o]
      /\ in_use_' = in_use_ + 1
      /\ next_unused_' = next_unused_ + 1
      /\ UNCHANGED <<free_head_, freed>>
  BY <1>1, <1>2 DEF AllocateFresh, HandOut, MarkSlot, PoolSlots
<1>4. max_in_use' = next_unused_ + 1
  BY <1>1 DEF AllocateFresh, HandOut, PoolInv, PoolTypeOK, HighWaterExact
<1>5. ListSpellsStack' /\ StackDistinct'
  BY <1>1, <1>3 DEF PoolInv, ListSpellsStack, StackDistinct
<1>6. LiveOrFree'
  BY <1>1, <1>3 DEF PoolInv, PoolTypeOK, LiveOrFree, PoolSlots
<1>7. ObjectsIntact'
  BY <1>1, <1>3 DEF PoolInv, PoolTypeOK, ObjectsIntact
<1>8. PoolTypeOK'
  BY <1>1, <1>3, <1>4, ContentsTypes DEF PoolInv, PoolTypeOK, PoolSlots
<1>9. HighWaterExact' /\ AbortsOnlyWhenFull'
  BY <1>1, <1>3, <1>4
  DEF PoolInv, PoolTypeOK, CountExact, HighWaterExact, AbortsOnlyWhenFull
<1>10. CountExact'
  <2>1. in_use_' + Len(freed') = next_unused_'
    BY <1>1, <1>3 DEF PoolInv, PoolTypeOK
  <2> QED
    BY <2>1, <1>2, <1>3, FS_AddElement DEF PoolInv, PoolTypeOK, CountExact
<1> QED
  BY <1>5, <1>6, <1>7, <1>8, <1>9, <1>10 DEF PoolInv

\* deallocate() of a slot its caller owns.
LEMMA DeallocateInv ==
  ASSUME PoolInv, NEW i \in PoolSlots, Deallocate(i)
  PROVE  PoolInv'
<1> DEFINE n == Len(freed)
<1> USE PoolCapacityAssumption
<1>1. /\ n = Len(freed) /\ n \in Nat
      /\ i \in in_use_flags_ /\ i < next_unused_
      /\ \A k \in 1 .. n : freed[k] \in PoolSlots /\ freed[k] # i
  BY DEF PoolInv, PoolTypeOK, LiveOrFree, Deallocate
<1> HIDE DEF n
<1>2. /\ freed' \in Seq(PoolSlots)
      /\ Len(freed') = n + 1
      /\ freed'[n + 1] = i
      /\ \A k \in 1 .. n : freed'[k] = freed[k]
  BY <1>1 DEF Deallocate, PoolInv, PoolTypeOK
<1>3. /\ in_use_flags_' = in_use_flags_ \ {i}
      /\ failure' = "none"
      /\ storage_' = [storage_ EXCEPT ![i] = Link(free_head_)]
      /\ free_head_' = i
      /\ in_use_' = in_use_ - 1
      /\ UNCHANGED <<next_unused_, owned, max_in_use>>
  <2>1. i \in 0 .. (next_unused_ - 1)
    BY <1>1 DEF PoolSlots, PoolInv, PoolTypeOK
  <2> QED
    BY <1>1, <2>1 DEF Deallocate, MarkSlot
<1>4. ListSpellsStack'
  <2>1. \A k \in 1 .. n : storage_'[freed[k]] = storage_[freed[k]]
    BY <1>1, <1>3 DEF PoolInv, PoolTypeOK
  <2>2. storage_'[i] = Link(free_head_)
    BY <1>3 DEF PoolInv, PoolTypeOK
  <2>3. storage_'[freed'[1]] = Link(Null)
    <3>1. CASE n = 0
      BY <3>1, <2>2, <1>1, <1>2 DEF PoolInv, ListSpellsStack
    <3>2. CASE n # 0
      BY <3>2, <2>1, <1>1, <1>2 DEF PoolInv, ListSpellsStack
    <3> QED
      BY <3>1, <3>2
  <2>4. ASSUME NEW k \in 2 .. (n + 1)
        PROVE  storage_'[freed'[k]] = Link(freed'[k - 1])
    <3>1. CASE k = n + 1
      <4>1. n # 0 /\ n \in 1 .. n /\ k - 1 = n
        BY <3>1, <1>1
      <4>2. free_head_ = freed[n] /\ freed'[n] = freed[n]
        BY <4>1, <1>1, <1>2 DEF PoolInv, ListSpellsStack
      <4> QED
        BY <3>1, <4>1, <4>2, <2>2, <1>2
    <3>2. CASE k # n + 1
      <4>1. k \in 2 .. n /\ k \in 1 .. n /\ k - 1 \in 1 .. n
        BY <3>2, <1>1
      <4>2. storage_[freed[k]] = Link(freed[k - 1])
        BY <4>1, <1>1 DEF PoolInv, ListSpellsStack
      <4> QED
        BY <4>1, <4>2, <2>1, <1>2
    <3> QED
      BY <3>1, <3>2
  <2> QED
    BY <2>3, <2>4, <1>1, <1>2, <1>3 DEF ListSpellsStack
<1>5. StackDistinct'
  BY <1>1, <1>2 DEF PoolInv, StackDistinct
<1>6. LiveOrFree'
  <2>1. \A k \in 1 .. (n + 1) : freed'[k] < next_unused_
    BY <1>1, <1>2 DEF PoolInv, LiveOrFree
  <2>2. ASSUME NEW j \in PoolSlots
        PROVE  j \in in_use_flags_'
                 <=> (j < next_unused_ /\ \A k \in 1 .. (n + 1) : freed'[k] # j)
    <3>1. (\A k \in 1 .. (n + 1) : freed'[k] # j)
            <=> (i # j /\ \A k \in 1 .. n : freed[k] # j)
      <4>1. n + 1 \in 1 .. (n + 1) /\ \A k \in 1 .. n : k \in 1 .. (n + 1)
        BY <1>1
      <4>2. \A k \in 1 .. (n + 1) : k = n + 1 \/ k \in 1 .. n
        BY <1>1
      <4> QED
        BY <4>1, <4>2, <1>2
    <3>2. j \in in_use_flags_
            <=> (j < next_unused_ /\ \A k \in 1 .. n : freed[k] # j)
      BY <1>1 DEF PoolInv, LiveOrFree
    <3> QED
      BY <3>1, <3>2, <1>3
  <2> QED
    BY <2>1, <2>2, <1>2, <1>3 DEF LiveOrFree
<1>7. ObjectsIntact'
  BY <1>1, <1>3 DEF PoolInv, PoolTypeOK, ObjectsIntact
<1>8. HighWaterExact' /\ AbortsOnlyWhenFull'
  BY <1>1, <1>2, <1>3
  DEF PoolInv, PoolTypeOK, HighWaterExact, AbortsOnlyWhenFull
<1>9. CountExact'
  <2>1. in_use_' + Len(freed') = next_unused_'
    BY <1>1, <1>2, <1>3 DEF PoolInv, PoolTypeOK, CountExact
  <2> QED
    BY <2>1, <1>1, <1>3, FS_RemoveElement DEF PoolInv, PoolTypeOK, CountExact
<1>10. PoolTypeOK'
  <2>1. storage_' \in [PoolSlots -> Contents]
    BY <1>3, ContentsTypes DEF PoolInv, PoolTypeOK
  <2>2. in_use_' \in 0 .. PoolCapacity
    <3>1. in_use_ # 0
      BY <1>1, FS_EmptySet DEF PoolInv, CountExact
    <3> QED
      BY <3>1, <1>3 DEF PoolInv, PoolTypeOK
  <2> QED
    BY <2>1, <2>2, <1>2, <1>3 DEF PoolInv, PoolTypeOK
<1> QED
  BY <1>4, <1>5, <1>6, <1>7, <1>8, <1>9, <1>10 DEF PoolInv

\* An owner writing its object, and Warmup, touch no other live object and no
\* link.
LEMMA WriteInv ==
  ASSUME PoolInv, NEW i \in PoolSlots, NEW o \in Objects, WriteObject(i, o)
  PROVE  PoolInv'
<1>1. /\ i \in in_use_flags_
      /\ storage_' = [storage_ EXCEPT ![i] = Object(o)]
      /\ owned' = [owned EXCEPT ![i] = o]
      /\ UNCHANGED <<next_unused_, free_head_, in_use_, in_use_flags_, failure,
                     freed, max_in_use>>
  BY DEF WriteObject
<1>2. \A k \in 1 .. Len(freed) :
        freed[k] \in PoolSlots /\ storage_'[freed[k]] = storage_[freed[k]]
  BY <1>1 DEF PoolInv, PoolTypeOK, LiveOrFree
<1>3. ListSpellsStack'
  <2>1. Len(freed) \in Nat
    BY DEF PoolInv, PoolTypeOK
  <2>2. Len(freed) # 0 => 1 \in 1 .. Len(freed)
    BY <2>1
  <2> QED
    BY <2>1, <2>2, <1>1, <1>2 DEF PoolInv, ListSpellsStack
<1>4. PoolTypeOK' /\ ObjectsIntact'
  BY <1>1, ContentsTypes DEF PoolInv, PoolTypeOK, ObjectsIntact
<1> QED
  BY <1>1, <1>3, <1>4
  DEF PoolInv, StackDistinct, LiveOrFree, CountExact, HighWaterExact,
      AbortsOnlyWhenFull

\* The prefault loop keeps it.
LEMMA WarmupInv ==
  ASSUME PoolInv, NEW count \in Nat, Warmup(count)
  PROVE  PoolInv'
<1> DEFINE limit == IF count < PoolCapacity THEN count ELSE PoolCapacity
<1>1. /\ storage_' = [i \in PoolSlots |-> IF i \in next_unused_ .. (limit - 1)
                                      THEN Zeroed ELSE storage_[i]]
      /\ UNCHANGED <<next_unused_, free_head_, in_use_, in_use_flags_, failure,
                     owned, freed, max_in_use>>
  BY DEF Warmup
<1> HIDE DEF limit
<1>2. \A i \in PoolSlots : i < next_unused_ => storage_'[i] = storage_[i]
  BY <1>1 DEF PoolInv, PoolTypeOK, PoolSlots
<1>3. \A k \in 1 .. Len(freed) :
        freed[k] \in PoolSlots /\ storage_'[freed[k]] = storage_[freed[k]]
  BY <1>2 DEF PoolInv, PoolTypeOK, LiveOrFree
<1>4. ListSpellsStack'
  <2>1. Len(freed) \in Nat
    BY DEF PoolInv, PoolTypeOK
  <2>2. Len(freed) # 0 => 1 \in 1 .. Len(freed)
    BY <2>1
  <2> QED
    BY <2>1, <2>2, <1>1, <1>3 DEF PoolInv, ListSpellsStack
<1>5. PoolTypeOK'
  BY <1>1, ContentsTypes DEF PoolInv, PoolTypeOK
<1>6. ObjectsIntact'
  BY <1>1, <1>2 DEF PoolInv, PoolTypeOK, LiveOrFree, ObjectsIntact
<1> QED
  BY <1>1, <1>4, <1>5, <1>6
  DEF PoolInv, StackDistinct, LiveOrFree, CountExact, HighWaterExact,
      AbortsOnlyWhenFull

\* When the free list is empty and the bump cursor is at the end, every slot
\* really is handed out.
LEMMA ExhaustedInv ==
  ASSUME PoolInv, AllocateExhausted
  PROVE  PoolInv'
<1>1. Len(freed) = 0
  <2>1. Len(freed) \in Nat /\ \A k \in 1 .. Len(freed) : freed[k] \in PoolSlots
    BY DEF PoolInv, PoolTypeOK
  <2>2. Len(freed) # 0 => freed[Len(freed)] # Null
    BY <2>1, PoolCapacityAssumption DEF PoolSlots, Null
  <2> QED
    BY <2>1, <2>2 DEF AllocateExhausted, PoolInv, ListSpellsStack
<1>2. in_use_flags_ = PoolSlots
  <2>1. \A i \in PoolSlots : i < next_unused_
    BY PoolCapacityAssumption DEF AllocateExhausted, PoolSlots
  <2>2. \A i \in PoolSlots : i \in in_use_flags_
    BY <1>1, <2>1 DEF PoolInv, LiveOrFree
  <2> QED
    BY <2>2 DEF PoolInv, PoolTypeOK
<1> QED
  BY <1>2
  DEF AllocateExhausted, PoolInv, PoolTypeOK, ListSpellsStack, StackDistinct,
      LiveOrFree, CountExact, ObjectsIntact, HighWaterExact,
      AbortsOnlyWhenFull

\* Every operation keeps it.
LEMMA PoolNextInv == PoolInv /\ [PoolNext]_poolVars => PoolInv'
<1> SUFFICES ASSUME PoolInv, [PoolNext]_poolVars PROVE PoolInv'
  OBVIOUS
<1>1. ASSUME NEW count \in 0 .. (PoolCapacity + 1), Warmup(count) PROVE PoolInv'
  <2>1. count \in Nat
    BY PoolCapacityAssumption
  <2> QED
    BY <2>1, <1>1, WarmupInv
<1>2. CASE UNCHANGED poolVars
  BY <1>2
  DEF poolVars, PoolInv, PoolTypeOK, ListSpellsStack, StackDistinct, LiveOrFree,
      CountExact, ObjectsIntact, HighWaterExact, AbortsOnlyWhenFull
<1> QED
  BY <1>1, <1>2, RecycledInv, FreshInv, ExhaustedInv, DeallocateInv, WriteInv
  DEF PoolNext

-----------------------------------------------------------------------------
\* It holds throughout.
LEMMA PoolInvariance == PoolSpec => []PoolInv
  BY PoolInitInv, PoolNextInv, PTL DEF PoolSpec

\* The pool never leaves its types.
THEOREM PoolTypeCorrect == PoolSpec => []PoolTypeOK
<1>1. PoolInv => PoolTypeOK
  BY DEF PoolInv
<1> QED
  BY <1>1, PoolInvariance, PTL

\* Live objects are never disturbed, whatever the order of allocations,
\* releases and warm-ups, for every capacity.
THEOREM ObjectsSafe == PoolSpec => []ObjectsIntact
<1>1. PoolInv => ObjectsIntact
  BY DEF PoolInv
<1> QED
  BY <1>1, PoolInvariance, PTL

\* high_water() is what its comment says it is.
THEOREM HighWater == PoolSpec => []HighWaterExact
<1>1. PoolInv => HighWaterExact
  BY DEF PoolInv
<1> QED
  BY <1>1, PoolInvariance, PTL

\* The pool aborts only when it is really full, and no debug check fires.
THEOREM NoSpuriousAbort == PoolSpec => []AbortsOnlyWhenFull
<1>1. PoolInv => AbortsOnlyWhenFull
  BY DEF PoolInv
<1> QED
  BY <1>1, PoolInvariance, PTL
=============================================================================
