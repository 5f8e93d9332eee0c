------------------------------ MODULE LFQueue ------------------------------
(***************************************************************************)
(* common/ringBuffer.h: the lock-free single-producer single-consumer ring *)
(* that joins every pair of threads of the exchange and of the trading     *)
(* client.                                                                 *)
(*                                                                         *)
(* One producer thread runs GetNextToWriteTo, fills the slot through the   *)
(* pointer it got, and calls UpdateWriteIndex.  One consumer thread runs   *)
(* GetNextToRead, reads through the pointer, and calls UpdateReadIndex.    *)
(* A third thread may call size() at any time (the Logger's destructor     *)
(* does).  Each step below touches the other thread's state at most once.  *)
(*                                                                         *)
(* The filling of a slot is not atomic: between BeginFill and EndFill the  *)
(* slot holds Torn.  An acquire load may return an older value of the      *)
(* other side's index, though never one older than this thread has seen:   *)
(* Visible gives the values it may return.                                 *)
(*                                                                         *)
(* capacity_ is a power of two, so "& mask_" is "% Capacity".  The indices *)
(* are 64-bit counters that only grow; 2^64 is a multiple of the capacity  *)
(* and is out of reach of any run, so they are naturals here.              *)
(***************************************************************************)
EXTENDS Integers, Sequences

CONSTANTS Capacity,    \* capacity_: the number of slots of store_
          Values,      \* the items
          Torn,        \* what a half-written or never written slot holds
          MaxWrites    \* bound of the model: how many items are produced

ASSUME CapacityAssumption == Capacity \in Nat \ {0}
ASSUME ValuesAssumption == Torn \notin Values
ASSUME MaxWritesAssumption == MaxWrites \in Nat

VARIABLES
  store_,               \* the slots
  next_write_index,     \* written by the producer
  cached_read_index_,   \* the producer's private copy of next_read_index
  next_read_index,      \* written by the consumer
  cached_write_index_,  \* the consumer's private copy of next_write_index
  producer,             \* where the producer thread is
  consumer,             \* where the consumer thread is
  size_read,            \* the read index size() has loaded, -1 outside size()
  size_result,          \* what size() returned last
  written               \* history: the items made visible, in order

prodVars == <<next_write_index, cached_read_index_, producer, written>>
consVars == <<next_read_index, cached_write_index_, consumer>>
sizeVars == <<size_read, size_result>>
vars == <<store_, prodVars, consVars, sizeVars>>

Slot(i) == i % Capacity
Slots == 0 .. (Capacity - 1)

TypeOK ==
  /\ store_ \in [Slots -> Values \cup {Torn}]
  /\ next_write_index \in 0 .. MaxWrites
  /\ cached_read_index_ \in Nat
  /\ next_read_index \in Nat
  /\ cached_write_index_ \in Nat
  /\ producer \in {"idle", "trying", "claimed", "filling", "filled"}
  /\ consumer \in {"idle", "reading"}
  /\ size_read \in Int
  /\ size_result \in Int
  /\ written \in Seq(Values)

Init ==
  /\ store_ = [s \in Slots |-> Torn]
  /\ next_write_index = 0 /\ cached_read_index_ = 0
  /\ next_read_index = 0 /\ cached_write_index_ = 0
  /\ producer = "idle"
  /\ consumer = "idle"
  /\ size_read = -1 /\ size_result = 0
  /\ written = << >>

-----------------------------------------------------------------------------
\* The producer.

\* The values an acquire load of a growing index may return to a thread that
\* has already seen the value `seen`.
Visible(seen, index) == seen .. index

\* Mutant: no sentinel slot, all Capacity slots are used.
LooksFullNoSentinel(read) == next_write_index - read = Capacity

\* The test of a full ring: the slot after the one to be written is the
\* slot of the read index.
LooksFull(read) == Slot(next_write_index + 1) = Slot(read)

\* The producer has an item to send and enters GetNextToWriteTo.
GetNextToWriteTo ==
  /\ producer = "idle"
  /\ next_write_index < MaxWrites
  /\ producer' = "trying"
  /\ UNCHANGED <<store_, next_write_index, cached_read_index_, written,
                 consVars, sizeVars>>

\* Mutant: the reloaded index is not compared again.
TryGetNextToWriteToUnconfirmed ==
  /\ producer = "trying"
  /\ cached_read_index_' = IF LooksFull(cached_read_index_)
                           THEN next_read_index ELSE cached_read_index_
  /\ producer' = "claimed"
  /\ UNCHANGED <<store_, next_write_index, written, consVars, sizeVars>>

\* Mutant: the cached index is never refreshed.
TryGetNextToWriteToStale ==
  /\ producer = "trying"
  /\ ~ LooksFull(cached_read_index_)
  /\ producer' = "claimed"
  /\ UNCHANGED <<store_, next_write_index, cached_read_index_, written,
                 consVars, sizeVars>>

\* One turn of the spin loop.  Only when the cached read index says full is
\* the consumer's index loaded again; still full means nullptr and another
\* turn.
TryGetNextToWriteTo ==
  /\ producer = "trying"
  /\ \E read \in IF LooksFull(cached_read_index_)
                 THEN Visible(cached_read_index_, next_read_index)
                 ELSE {cached_read_index_} :
       /\ cached_read_index_' = read
       /\ producer' = IF LooksFull(read) THEN "trying" ELSE "claimed"
  /\ UNCHANGED <<store_, next_write_index, written, consVars, sizeVars>>

\* The caller writes its item through the pointer, word by word.
BeginFill ==
  /\ producer = "claimed"
  /\ store_' = [store_ EXCEPT ![Slot(next_write_index)] = Torn]
  /\ producer' = "filling"
  /\ UNCHANGED <<next_write_index, cached_read_index_, written, consVars,
                 sizeVars>>

EndFill(v) ==
  /\ producer = "filling"
  /\ store_' = [store_ EXCEPT ![Slot(next_write_index)] = v]
  /\ producer' = "filled"
  /\ UNCHANGED <<next_write_index, cached_read_index_, written, consVars,
                 sizeVars>>

\* The release store that makes the item visible.
UpdateWriteIndex ==
  /\ producer = "filled"
  /\ next_write_index' = next_write_index + 1
  /\ written' = Append(written, store_[Slot(next_write_index)])
  /\ producer' = "idle"
  /\ UNCHANGED <<store_, cached_read_index_, consVars, sizeVars>>

-----------------------------------------------------------------------------
\* The consumer.

\* Mutant: the cached index is refreshed only once, at the start.
GetNextToReadStale ==
  /\ consumer = "idle"
  /\ cached_write_index_' = IF cached_write_index_ = 0
                            THEN next_write_index ELSE cached_write_index_
  /\ consumer' = IF next_read_index = cached_write_index_'
                 THEN "idle" ELSE "reading"
  /\ UNCHANGED <<store_, next_read_index, prodVars, sizeVars>>

\* Only when the cached write index says empty is the producer's index
\* loaded again; still empty means nullptr, and the caller comes back later.
GetNextToRead ==
  /\ consumer = "idle"
  /\ \E write \in IF next_read_index = cached_write_index_
                  THEN Visible(cached_write_index_, next_write_index)
                  ELSE {cached_write_index_} :
       /\ cached_write_index_' = write
       /\ consumer' = IF next_read_index = write THEN "idle" ELSE "reading"
  /\ UNCHANGED <<store_, next_read_index, prodVars, sizeVars>>

\* The release store that gives the slot back.  The pointer the consumer
\* holds stays in its hands until it asks for the next item.
UpdateReadIndex ==
  /\ consumer = "reading"
  /\ next_read_index' = next_read_index + 1
  /\ consumer' = "idle"
  /\ UNCHANGED <<store_, cached_write_index_, prodVars, sizeVars>>

-----------------------------------------------------------------------------
\* size(), by any thread: the read index first, then the write index.

\* Mutant: the two loads are swapped.
SizeSwapped ==
  \/ /\ size_read = -1
     /\ size_read' = next_write_index
     /\ UNCHANGED <<store_, prodVars, consVars, size_result>>
  \/ /\ size_read # -1
     /\ size_result' = size_read - next_read_index
     /\ size_read' = -1
     /\ UNCHANGED <<store_, prodVars, consVars>>

Size ==
  \/ /\ size_read = -1
     /\ size_read' = next_read_index
     /\ UNCHANGED <<store_, prodVars, consVars, size_result>>
  \/ /\ size_read # -1
     /\ size_result' = next_write_index - size_read
     /\ size_read' = -1
     /\ UNCHANGED <<store_, prodVars, consVars>>

-----------------------------------------------------------------------------
Producer == \/ GetNextToWriteTo \/ TryGetNextToWriteTo
            \/ BeginFill \/ (\E v \in Values : EndFill(v)) \/ UpdateWriteIndex
Consumer == GetNextToRead \/ UpdateReadIndex
Next == Producer \/ Consumer \/ Size

\* Both threads are pinned to a core of their own and never sleep; a store
\* becomes visible to the other core after a finite time.
Fairness ==
  /\ WF_vars(TryGetNextToWriteTo)
  /\ WF_vars(BeginFill)
  /\ WF_vars(\E v \in Values : EndFill(v))
  /\ WF_vars(UpdateWriteIndex)
  /\ WF_vars(GetNextToRead)
  /\ WF_vars(UpdateReadIndex)

Spec == Init /\ [][Next]_vars
FairSpec == Spec /\ Fairness

-----------------------------------------------------------------------------
\* Properties.

\* The cached copies never run ahead of the indices they copy, and the
\* producer is never more than Capacity - 1 items ahead of its copy: what
\* the comments at ringBuffer.h 28-33 and 67-69 say makes "not full" and
\* "not empty", decided from a stale copy, always true.
CachesNeverAhead ==
  /\ cached_read_index_ <= next_read_index
  /\ cached_write_index_ <= next_write_index
  /\ next_read_index <= cached_write_index_
  /\ next_write_index - cached_read_index_ <= Capacity - 1

\* Every item made visible and not yet released is in its slot, whole and
\* unaltered, however the two threads interleave and whatever stale index
\* the producer decides from.
UnreadIntact ==
  \A i \in next_read_index .. (next_write_index - 1) :
    store_[Slot(i)] = written[i + 1]

\* The slot the consumer released last is still untouched until the consumer
\* asks for the next item.  MarketDataPublisher::run copies *market_update
\* into the snapshot queue (market_data_publisher.cc 75) after it has called
\* UpdateReadIndex (line 70): this is what makes the copy correct.
ReleasedSlotIntact ==
  next_read_index > 0 =>
    store_[Slot(next_read_index - 1)] = written[next_read_index]

\* size() never underflows into a huge value, whatever happens between its
\* two loads (the comment at ringBuffer.h 89-90).
SizeNeverUnderflows == size_result >= 0

\* The ring is a bounded first-in first-out queue of Capacity - 1 items:
\* every step of either thread is one Put, one Take, or invisible.
visibleItems ==
  [k \in 1 .. (next_write_index - next_read_index) |->
     store_[Slot(next_read_index + k - 1)]]

fifo == INSTANCE BoundedFIFO WITH queue <- visibleItems, Bound <- Capacity - 1

ImplementsFIFO == fifo!Spec

\* A producer spinning in GetNextToWriteTo gets its slot, since the consumer
\* keeps releasing; and every item made visible is released in the end.
SpinEnds == (producer = "trying") ~> (producer = "claimed")
EveryItemTaken ==
  \A n \in 1 .. MaxWrites : (next_write_index >= n) ~> (next_read_index >= n)
=============================================================================
