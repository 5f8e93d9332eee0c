------------------------------ MODULE MemPool ------------------------------
(***************************************************************************)
(* common/mem_pool.h: the fixed-capacity pool every order node of the      *)
(* books, of the snapshot and of the trading client's book comes from.     *)
(*                                                                         *)
(* A slot is a union: it holds either an object or, once the object has    *)
(* been given back, the link of the intrusive free list, in the same       *)
(* bytes.  Nothing but the free list says which slots are free, so one     *)
(* wrong link hands one slot to two owners.  in_use_flags_ and the checks  *)
(* of MarkSlot exist in debug builds only; the proofs show that they never *)
(* fire for a caller that frees only what it was given.                    *)
(***************************************************************************)
EXTENDS Integers, SequencesExt

CONSTANTS PoolCapacity,   \* capacity_
          Objects         \* what owners store in their slots

ASSUME PoolCapacityAssumption == PoolCapacity \in Nat

PoolSlots == 0 .. (PoolCapacity - 1)
Null == -1

\* The bytes of a slot: never touched, zeroed by Warmup, an object, a link.
Raw == [holds |-> "raw"]
Zeroed == [holds |-> "zero"]
Object(o) == [holds |-> "object", value |-> o]
Link(next) == [holds |-> "link", value |-> next]
Contents == {Raw, Zeroed} \cup {Object(o) : o \in Objects}
              \cup {Link(next) : next \in PoolSlots \cup {Null}}

VARIABLES
  storage_,       \* the slots
  next_unused_,   \* bump cursor: the slots from here on were never handed out
  free_head_,     \* first slot of the free list, or Null
  in_use_,        \* how many slots are handed out
  in_use_flags_,  \* debug builds: which ones
  failure,        \* the ASSERT that ended the process, or "none"
  owned,          \* history: what the owner of each slot last stored there
  freed,          \* history: the slots given back, most recent last
  max_in_use      \* history: the largest in_use_ so far

poolVars == <<storage_, next_unused_, free_head_, in_use_, in_use_flags_, failure,
          owned, freed, max_in_use>>

PoolTypeOK ==
  /\ storage_ \in [PoolSlots -> Contents]
  /\ next_unused_ \in 0 .. PoolCapacity
  /\ free_head_ \in PoolSlots \cup {Null}
  /\ in_use_ \in 0 .. PoolCapacity
  /\ in_use_flags_ \subseteq PoolSlots
  /\ failure \in {"none", "exhausted", "foreign", "inUse",
                  "doubleFree"}
  /\ owned \in [PoolSlots -> Objects]
  /\ freed \in Seq(PoolSlots)
  /\ max_in_use \in 0 .. PoolCapacity

PoolInit ==
  /\ storage_ = [i \in PoolSlots |-> Raw]
  /\ next_unused_ = 0
  /\ free_head_ = Null
  /\ in_use_ = 0
  /\ in_use_flags_ = {}
  /\ failure = "none"
  /\ owned \in [PoolSlots -> Objects]
  /\ freed = << >>
  /\ max_in_use = 0

-----------------------------------------------------------------------------
\* MarkSlot: the debug checks on a slot that changes hands, where `unused` is
\* the bump cursor at that moment.
MarkSlot(block, in_use, unused) ==
  /\ in_use_flags_' = IF in_use THEN in_use_flags_ \cup {block}
                                ELSE in_use_flags_ \ {block}
  /\ failure' = IF block \notin 0 .. (unused - 1) THEN "foreign"
                ELSE IF in_use /\ block \in in_use_flags_ THEN "inUse"
                ELSE IF ~ in_use /\ block \notin in_use_flags_ THEN "doubleFree"
                ELSE "none"

\* The tail of allocate(): the slot is marked and the object is built in it.
HandOut(block, o, unused) ==
  /\ MarkSlot(block, TRUE, unused)
  /\ in_use_' = in_use_ + 1
  /\ storage_' = [storage_ EXCEPT ![block] = Object(o)]
  /\ owned' = [owned EXCEPT ![block] = o]
  /\ max_in_use' = IF in_use_ + 1 > max_in_use THEN in_use_ + 1 ELSE max_in_use

\* allocate() when the free list has a slot: the most recently freed one.
AllocateRecycled(o) ==
  /\ failure = "none"
  /\ free_head_ # Null
  /\ free_head_' = storage_[free_head_].value
  /\ freed' = Front(freed)
  /\ UNCHANGED next_unused_
  /\ HandOut(free_head_, o, next_unused_)

\* Mutant: fresh slots are preferred to recycled ones.
AllocateFreshFirst(o) ==
  /\ failure = "none"
  /\ next_unused_ < PoolCapacity
  /\ next_unused_' = next_unused_ + 1
  /\ UNCHANGED <<free_head_, freed>>
  /\ HandOut(next_unused_, o, next_unused_ + 1)

\* allocate() when the free list is empty: the next fresh slot.
AllocateFresh(o) ==
  /\ failure = "none"
  /\ free_head_ = Null
  /\ next_unused_ < PoolCapacity
  /\ next_unused_' = next_unused_ + 1
  /\ UNCHANGED <<free_head_, freed>>
  /\ HandOut(next_unused_, o, next_unused_ + 1)

\* allocate() when there is no slot: the ASSERT ends the process.
AllocateExhausted ==
  /\ failure = "none"
  /\ free_head_ = Null
  /\ next_unused_ = PoolCapacity
  /\ failure' = "exhausted"
  /\ UNCHANGED <<storage_, next_unused_, free_head_, in_use_, in_use_flags_,
                 owned, freed, max_in_use>>

\* Mutant: the freed slot is not linked to the rest of the list.
DeallocateLosesList(i) ==
  /\ failure = "none"
  /\ i \in in_use_flags_
  /\ MarkSlot(i, FALSE, next_unused_)
  /\ storage_' = [storage_ EXCEPT ![i] = Link(Null)]
  /\ free_head_' = i
  /\ in_use_' = in_use_ - 1
  /\ freed' = Append(freed, i)
  /\ UNCHANGED <<next_unused_, owned, max_in_use>>

\* deallocate(), called by the owner of slot i.
Deallocate(i) ==
  /\ failure = "none"
  /\ i \in in_use_flags_
  /\ MarkSlot(i, FALSE, next_unused_)
  /\ storage_' = [storage_ EXCEPT ![i] = Link(free_head_)]
  /\ free_head_' = i
  /\ in_use_' = in_use_ - 1
  /\ freed' = Append(freed, i)
  /\ UNCHANGED <<next_unused_, owned, max_in_use>>

\* The owner of slot i changes its object through its pointer.
WriteObject(i, o) ==
  /\ failure = "none"
  /\ i \in in_use_flags_
  /\ storage_' = [storage_ EXCEPT ![i] = Object(o)]
  /\ owned' = [owned EXCEPT ![i] = o]
  /\ UNCHANGED <<next_unused_, free_head_, in_use_, in_use_flags_, failure,
                 freed, max_in_use>>

\* Mutant: the whole prefix is touched, not only what was never handed out.
WarmupWholePrefix(count) ==
  /\ failure = "none"
  /\ LET limit == IF count < PoolCapacity THEN count ELSE PoolCapacity IN
       /\ limit > next_unused_
       /\ storage_' = [i \in PoolSlots |-> IF i < limit THEN Zeroed ELSE storage_[i]]
  /\ UNCHANGED <<next_unused_, free_head_, in_use_, in_use_flags_, failure,
                 owned, freed, max_in_use>>

\* Warmup(count): touch the pages of the slots never handed out, up to count.
Warmup(count) ==
  /\ failure = "none"
  /\ LET limit == IF count < PoolCapacity THEN count ELSE PoolCapacity IN
       /\ limit > next_unused_
       /\ storage_' = [i \in PoolSlots |-> IF i \in next_unused_ .. (limit - 1)
                                       THEN Zeroed ELSE storage_[i]]
  /\ UNCHANGED <<next_unused_, free_head_, in_use_, in_use_flags_, failure,
                 owned, freed, max_in_use>>

-----------------------------------------------------------------------------
PoolNext ==
  \/ \E o \in Objects : AllocateRecycled(o) \/ AllocateFresh(o)
  \/ AllocateExhausted
  \/ \E i \in PoolSlots : Deallocate(i)
  \/ \E i \in PoolSlots, o \in Objects : WriteObject(i, o)
  \/ \E count \in 0 .. (PoolCapacity + 1) : Warmup(count)

PoolSpec == PoolInit /\ [][PoolNext]_poolVars

-----------------------------------------------------------------------------
\* Properties.

\* What an owner stored in its slot is what the slot holds: the pool's own
\* writes (links, Warmup) and the other owners' never reach a live object.
ObjectsIntact ==
  \A i \in in_use_flags_ : storage_[i] = Object(owned[i])

\* "next_unused_ is exactly the historical maximum of in_use()", which is how
\* the comment at mem_pool.h 100-102 justifies high_water().
HighWaterExact == next_unused_ = max_in_use

\* The process is ended by the pool only when every slot is really handed
\* out: no slot leaks off the free list, none is handed out twice, and the
\* debug checks of MarkSlot never fire.
AbortsOnlyWhenFull ==
  failure # "none" => failure = "exhausted" /\ in_use_flags_ = PoolSlots
=============================================================================
