--------------------------- MODULE MarketDataProofs ---------------------------
(***************************************************************************)
(* Proofs about the market data: first of the consumer on its own,         *)
(* whatever the sockets deliver (lost, repeated, reordered, mixed or       *)
(* invented messages, in datagrams of any size), then of the publisher,    *)
(* the synthesizer, the network and the consumer together, which are shown *)
(* to implement MarketDataFeed.                                            *)
(*                                                                         *)
(* The consumer: recovery starts with a message queued that is beyond the  *)
(* client's book, no message leaves the queue while recovery lasts, and a  *)
(* snapshot is only taken when nothing queued is beyond it.                *)
(*                                                                         *)
(* The system: every incremental anywhere is the exchange's update of its  *)
(* number; every snapshot message on its way is of one cycle; the queued   *)
(* ones begin a cycle that was sent no later, so that START and END of the *)
(* same number enclose one whole cycle; and a whole cycle, with the        *)
(* updates after it, makes the exchange's book of any other.               *)
(***************************************************************************)
EXTENDS MarketData, FiniteSetTheorems, SequenceTheorems, WellFoundedInduction, TLAPS

-----------------------------------------------------------------------------
\* A non-empty set of numbers has a least one.
LEMMA LeastExists ==
  ASSUME NEW T \in SUBSET Nat, T # {}
  PROVE  \E x \in T : \A y \in T : x <= y
<1>1. PICK m \in T : \A k \in T : <<k, m>> \notin OpToRel(<, Nat)
  BY WFMin, NatLessThanWellFounded, Zenon
<1>2. \A k \in T : ~ (k < m)
  BY <1>1, Zenon DEF OpToRel
<1> QED BY <1>2

\* From any number on, a finite set misses one, and has all those before it.
LEMMA MissingExists ==
  ASSUME NEW S \in SUBSET Nat, IsFiniteSet(S), NEW first \in Nat
  PROVE  \E n \in first .. first + Cardinality(S) :
           n \notin S /\ first .. (n - 1) \subseteq S
<1> DEFINE c == Cardinality(S)
           range == first .. first + c
           missing == range \ S
<1>1. c \in Nat
  BY FS_CardinalityType
<1> HIDE DEF c
<1>2. Cardinality(range) = c + 1
  <2>1. first \in Int /\ first + c \in Int /\ first <= first + c
    BY <1>1
  <2>2. Cardinality(range) = (first + c) - first + 1
    BY <2>1, FS_Interval
  <2> QED BY <2>2, <1>1
<1>3. ~ (range \subseteq S)
  <2> SUFFICES ASSUME range \subseteq S PROVE FALSE
    OBVIOUS
  <2>1. Cardinality(range) <= Cardinality(S)
    BY FS_Subset
  <2> QED BY <2>1, <1>1, <1>2 DEF c
<1>4. missing \in SUBSET Nat /\ missing # {}
  BY <1>1, <1>3
<1>5. PICK n \in missing : \A k \in missing : n <= k
  BY <1>4, LeastExists, Zenon
<1>6. \A k \in first .. (n - 1) : k \in S
  <2> SUFFICES ASSUME NEW k \in first .. (n - 1), k \notin S PROVE FALSE
    OBVIOUS
  <2>1. k \in missing
    BY <1>1, <1>5
  <2> QED BY <2>1, <1>1, <1>5
<1> QED BY <1>5, <1>6 DEF c

-----------------------------------------------------------------------------
\* The queues.
Queue(q) == /\ DOMAIN q \in SUBSET Nat
            /\ IsFiniteSet(DOMAIN q)
            /\ \A n \in DOMAIN q : q[n] \in Update

\* The empty queue is one.
LEMMA EmptyQueue == Queue(Empty) /\ DOMAIN Empty = {}
<1>1. DOMAIN Empty = {}
  BY DEF Empty
<1> QED BY <1>1, FS_EmptySet DEF Queue

\* A queue with one more message is a queue.
LEMMA PutQueue ==
  ASSUME NEW q, Queue(q), NEW message \in Message
  PROVE  Queue(Put(q, message)) /\ DOMAIN Put(q, message) = DOMAIN q \cup {message.seq}
<1>1. message.seq \in Nat /\ message.update \in Update
  BY DEF Message
<1>2. DOMAIN Put(q, message) = DOMAIN q \cup {message.seq}
  BY DEF Put
<1>3. IsFiniteSet(DOMAIN q \cup {message.seq})
  BY FS_AddElement DEF Queue
<1>4. ASSUME NEW n \in DOMAIN Put(q, message)
      PROVE  Put(q, message)[n] \in Update
  <2>1. Put(q, message)[n] = IF n = message.seq THEN message.update ELSE q[n]
    BY <1>2 DEF Put
  <2> QED BY <2>1, <1>1, <1>2 DEF Queue
<1> QED BY <1>1, <1>2, <1>3, <1>4 DEF Queue

\* The first and the last message of a complete snapshot are in the queue.
LEMMA LastOfSnapshot ==
  ASSUME NEW snapshots, Queue(snapshots), CompleteSnapshot(snapshots)
  PROVE  LastOf(snapshots).order \in Nat
<1> DEFINE c == Cardinality(DOMAIN snapshots)
<1>1. c \in Nat
  BY FS_CardinalityType DEF Queue
<1>2. DOMAIN snapshots = 0 .. (c - 1) /\ DOMAIN snapshots # {}
  BY DEF CompleteSnapshot, StartsCycle
<1>3. c - 1 \in DOMAIN snapshots
  <2> HIDE DEF c
  <2> QED BY <1>1, <1>2
<1>4. snapshots[c - 1] \in Update
  BY <1>3, Zenon DEF Queue
<1> QED BY <1>4 DEF LastOf, Update

\* The first number not queued, from the snapshot on.
LEMMA NextMissingExact ==
  ASSUME NEW snapshots, Queue(snapshots), CompleteSnapshot(snapshots),
         NEW incrementals, Queue(incrementals)
  PROVE  /\ NextMissing(snapshots, incrementals) \in Nat
         /\ NextMissing(snapshots, incrementals) >= LastOf(snapshots).order + 1
         /\ LastOf(snapshots).order + 1 .. (NextMissing(snapshots, incrementals) - 1)
              \subseteq DOMAIN incrementals
<1> DEFINE first == LastOf(snapshots).order + 1
           c == Cardinality(DOMAIN incrementals)
           n == NextMissing(snapshots, incrementals)
<1>1. first \in Nat
  BY LastOfSnapshot
<1>2. c \in Nat
  BY FS_CardinalityType DEF Queue
<1>3. \E k \in first .. first + c :
        k \notin DOMAIN incrementals /\ first .. (k - 1) \subseteq DOMAIN incrementals
  BY <1>1, MissingExists DEF Queue
<1>4. n \in first .. first + c /\ first .. (n - 1) \subseteq DOMAIN incrementals
  BY <1>3 DEF NextMissing
<1> HIDE DEF first, c, n
<1>5. n \in Nat /\ n >= first
  BY <1>1, <1>2, <1>4
<1> QED BY <1>4, <1>5 DEF first, n

-----------------------------------------------------------------------------
\* The inductive invariant.
Typed == /\ in_recovery_ \in BOOLEAN /\ is_snapshot \in BOOLEAN
         /\ next_exp_inc_seq_num_ \in Nat /\ version \in Nat
         /\ Queue(snapshot_queued_msgs_)
         /\ Queue(incremental_queued_msgs_)
         /\ inbound \in Datagrams
NoneQueuedOutside == ~ in_recovery_ => DOMAIN incremental_queued_msgs_ = {}
IInv == Typed /\ NextExpectedExact /\ RecoveryIsAhead /\ NoneQueuedOutside

\* What a step gives besides: the book of the client never gets older, and
\* what leaves the queue is in it.
Onward(incrementals) ==
  /\ version' >= version
  /\ \A n \in DOMAIN incrementals :
       n \notin DOMAIN incremental_queued_msgs_' => version' >= n

\* checkSnapshotSync, called with something queued beyond the client's book.
LEMMA CheckStep ==
  ASSUME NEW snapshots, Queue(snapshots), NEW incrementals, Queue(incrementals),
         next_exp_inc_seq_num_ \in Nat, version \in Nat,
         \E n \in DOMAIN incrementals : n > version + 1,
         CheckSnapshotSync(snapshots, incrementals)
  PROVE  /\ in_recovery_' \in BOOLEAN
         /\ next_exp_inc_seq_num_' \in Nat /\ version' \in Nat
         /\ Queue(snapshot_queued_msgs_') /\ Queue(incremental_queued_msgs_')
         /\ NextExpectedExact' /\ RecoveryIsAhead' /\ NoneQueuedOutside'
         /\ Onward(incrementals)
<1> USE EmptyQueue
<1>1. CASE KeepWaiting(snapshots, incrementals)
  <2>1. /\ snapshot_queued_msgs_' = snapshots
        /\ incremental_queued_msgs_' = incrementals
        /\ in_recovery_' = TRUE
        /\ next_exp_inc_seq_num_' = next_exp_inc_seq_num_ /\ version' = version
    BY <1>1, Zenon DEF KeepWaiting
  <2> QED BY <2>1 DEF NextExpectedExact, RecoveryIsAhead, NoneQueuedOutside, Onward
<1>2. CASE DropSnapshot(snapshots, incrementals)
  <2>1. /\ snapshot_queued_msgs_' = Empty
        /\ incremental_queued_msgs_' = incrementals
        /\ in_recovery_' = TRUE
        /\ next_exp_inc_seq_num_' = next_exp_inc_seq_num_ /\ version' = version
    BY <1>2, Zenon DEF DropSnapshot
  <2> QED BY <2>1 DEF NextExpectedExact, RecoveryIsAhead, NoneQueuedOutside, Onward
<1>3. CASE SnapshotTooOld(snapshots, incrementals)
  <2>1. /\ CompleteSnapshot(snapshots)
        /\ snapshot_queued_msgs_' = Empty
        /\ incremental_queued_msgs_' = incrementals
        /\ in_recovery_' = TRUE
        /\ next_exp_inc_seq_num_' = NextMissing(snapshots, incrementals)
        /\ version' = version
    BY <1>3, Zenon DEF SnapshotTooOld
  <2>2. next_exp_inc_seq_num_' \in Nat
    BY <2>1, NextMissingExact
  <2> QED BY <2>1, <2>2 DEF NextExpectedExact, RecoveryIsAhead, NoneQueuedOutside, Onward
<1>4. CASE Recovered(snapshots, incrementals)
  <2> DEFINE next == NextMissing(snapshots, incrementals)
  <2>1. /\ CompleteSnapshot(snapshots)
        /\ NoIncrementalMissing(snapshots, incrementals)
        /\ snapshot_queued_msgs_' = Empty
        /\ incremental_queued_msgs_' = Empty
        /\ in_recovery_' = FALSE
        /\ next_exp_inc_seq_num_' = next
        /\ version' = next - 1
    BY <1>4, Zenon DEF Recovered
  <2>2. next \in Nat
    BY <2>1, NextMissingExact
  <2>3. \A n \in DOMAIN incrementals : n \in Nat /\ n < next
    BY <2>1 DEF NoIncrementalMissing, Queue
  <2> HIDE DEF next
  <2>4. next - 1 \in Nat /\ next - 1 >= version
    BY <2>2, <2>3
  <2>5. \A n \in DOMAIN incrementals : next - 1 >= n
    BY <2>2, <2>3
  <2>6. next = (next - 1) + 1
    BY <2>2
  <2> QED BY <2>1, <2>2, <2>4, <2>5, <2>6
          DEF NextExpectedExact, RecoveryIsAhead, NoneQueuedOutside, Onward
<1> QED BY <1>1, <1>2, <1>3, <1>4 DEF CheckSnapshotSync

\* The next message of a datagram.
LEMMA NextMessageStep ==
  ASSUME Typed, NextMessage
  PROVE  /\ request \in Message
         /\ inbound' \in Datagrams
         /\ is_snapshot' \in BOOLEAN
<1>1. inbound \in Seq(Message) /\ inbound # << >>
  BY DEF Typed, Datagrams, NextMessage
<1>2. Head(inbound) \in Message /\ Tail(inbound) \in Seq(Message)
  BY <1>1, HeadTailProperties
<1> QED BY <1>2 DEF request, NextMessage, Typed, Datagrams

\* Every step keeps the invariant and leads onward.
LEMMA Step ==
  ASSUME IInv, [ConsumerNext]_consumerVars
  PROVE  IInv' /\ Onward(incremental_queued_msgs_)
<1> USE DEF IInv, Typed
<1>1. CASE Ignore
  <2>1. inbound' \in Datagrams /\ is_snapshot' \in BOOLEAN
    BY <1>1, NextMessageStep DEF Ignore
  <2> QED BY <1>1, <2>1 DEF Ignore, NextExpectedExact, RecoveryIsAhead, NoneQueuedOutside, Onward
<1>2. CASE PassOn
  <2>1. inbound' \in Datagrams /\ is_snapshot' \in BOOLEAN /\ request \in Message
    BY <1>2, NextMessageStep DEF PassOn
  <2>2. /\ in_recovery_' = in_recovery_ /\ ~ in_recovery_
        /\ next_exp_inc_seq_num_' = next_exp_inc_seq_num_ + 1
        /\ version' = request.seq /\ request.seq = next_exp_inc_seq_num_
        /\ snapshot_queued_msgs_' = snapshot_queued_msgs_
        /\ incremental_queued_msgs_' = incremental_queued_msgs_
    BY <1>2 DEF PassOn
  <2> QED BY <2>1, <2>2 DEF NextExpectedExact, RecoveryIsAhead, NoneQueuedOutside, Onward
<1>3. CASE EnterRecovery
  <2>1. inbound' \in Datagrams /\ is_snapshot' \in BOOLEAN /\ request \in Message
    BY <1>3, NextMessageStep DEF EnterRecovery
  <2>2. request.seq > version + 1
    BY <1>3, <2>1 DEF EnterRecovery, NotNeeded, NextExpectedExact, Message
  <2>3. Queue(Empty) /\ Queue(Put(Empty, request))
    BY <2>1, EmptyQueue, PutQueue
  <2>4. \E n \in DOMAIN Put(Empty, request) : n > version + 1
    BY <2>1, <2>2, EmptyQueue, PutQueue
  <2>5. CheckSnapshotSync(Empty, Put(Empty, request))
    BY <1>3 DEF EnterRecovery
  <2>6. DOMAIN incremental_queued_msgs_ = {}
    BY <1>3 DEF EnterRecovery, NoneQueuedOutside
  <2>7. IInv' /\ version' >= version
    BY <2>1, <2>3, <2>4, <2>5, CheckStep DEF Onward
  <2> QED BY <2>6, <2>7 DEF Onward
<1>4. CASE QueueIncremental
  <2> DEFINE incrementals == Put(incremental_queued_msgs_, request)
  <2>1. inbound' \in Datagrams /\ is_snapshot' \in BOOLEAN /\ request \in Message
    BY <1>4, NextMessageStep DEF QueueIncremental
  <2>2. /\ Queue(incrementals)
        /\ DOMAIN incrementals = DOMAIN incremental_queued_msgs_ \cup {request.seq}
    BY <2>1, PutQueue
  <2>3. in_recovery_ /\ CheckSnapshotSync(snapshot_queued_msgs_, incrementals)
    BY <1>4 DEF QueueIncremental
  <2> HIDE DEF incrementals
  <2>4. \E n \in DOMAIN incrementals : n > version + 1
    BY <2>2, <2>3 DEF RecoveryIsAhead
  <2>5. Onward(incrementals) => Onward(incremental_queued_msgs_)
    BY <2>2 DEF Onward
  <2> QED BY <2>1, <2>2, <2>3, <2>4, <2>5, CheckStep
<1>5. CASE QueueSnapshot
  <2> DEFINE kept == KeptBefore(snapshot_queued_msgs_)
             snapshots == Put(kept, request)
  <2>1. inbound' \in Datagrams /\ is_snapshot' \in BOOLEAN /\ request \in Message
    BY <1>5, NextMessageStep DEF QueueSnapshot
  <2>2. Queue(kept)
    BY EmptyQueue DEF KeptBefore
  <2>3. Queue(snapshots)
    BY <2>1, <2>2, PutQueue
  <2>4. in_recovery_ /\ CheckSnapshotSync(snapshots, incremental_queued_msgs_)
    BY <1>5 DEF QueueSnapshot
  <2> HIDE DEF kept, snapshots
  <2>5. \E n \in DOMAIN incremental_queued_msgs_ : n > version + 1
    BY <2>4 DEF RecoveryIsAhead
  <2> QED BY <2>1, <2>3, <2>4, <2>5, CheckStep
<1>6. ASSUME NEW datagram \in Datagrams, NEW snapshot \in BOOLEAN,
             Receive(datagram, snapshot)
      PROVE  IInv' /\ Onward(incremental_queued_msgs_)
  BY <1>6 DEF Receive, NextExpectedExact, RecoveryIsAhead, NoneQueuedOutside, Onward
<1>7. CASE UNCHANGED consumerVars
  BY <1>7 DEF consumerVars, NextExpectedExact, RecoveryIsAhead, NoneQueuedOutside, Onward
<1> QED BY <1>1, <1>2, <1>3, <1>4, <1>5, <1>6, <1>7 DEF ConsumerNext, RecvCallback

\* The invariant holds at the start.
LEMMA Start == ConsumerInit => IInv
<1> SUFFICES ASSUME ConsumerInit PROVE IInv
  OBVIOUS
<1>1. inbound \in Datagrams
  BY DEF ConsumerInit, Datagrams
<1>2. /\ ~ in_recovery_ /\ in_recovery_ \in BOOLEAN /\ is_snapshot \in BOOLEAN
      /\ next_exp_inc_seq_num_ = 1 /\ version = 0
      /\ snapshot_queued_msgs_ = Empty /\ incremental_queued_msgs_ = Empty
  BY Zenon DEF ConsumerInit
<1>3. /\ Queue(snapshot_queued_msgs_) /\ Queue(incremental_queued_msgs_)
      /\ DOMAIN incremental_queued_msgs_ = {}
  BY <1>2, EmptyQueue, Zenon
<1> QED BY <1>1, <1>2, <1>3
        DEF IInv, Typed, NextExpectedExact, RecoveryIsAhead, NoneQueuedOutside

\* The invariant always holds.
LEMMA Invariant == ConsumerSpec => []IInv
<1>1. IInv /\ [ConsumerNext]_consumerVars => IInv'
  BY Step
<1> QED BY <1>1, Start, PTL DEF ConsumerSpec

-----------------------------------------------------------------------------
\* Outside recovery the consumer expects the number after its book, whatever
\* the snapshots that were tried and given up did to next_exp_inc_seq_num_.
THEOREM NextExpectedCorrect == ConsumerSpec => []NextExpectedExact
<1>1. IInv => NextExpectedExact
  BY DEF IInv
<1> QED BY <1>1, Invariant, PTL

\* In recovery something is queued that is beyond the client's book.
THEOREM RecoveryAhead == ConsumerSpec => []RecoveryIsAhead
<1>1. IInv => RecoveryIsAhead
  BY DEF IInv
<1> QED BY <1>1, Invariant, PTL

\* A queued incremental is kept until the client's book has it.
THEOREM QueuedKept == ConsumerSpec => NothingQueuedForgotten
<1>1. IInv /\ [ConsumerNext]_consumerVars
        => [\A n \in DOMAIN incremental_queued_msgs_ :
              n \notin DOMAIN incremental_queued_msgs_' => version' >= n]_consumerVars
  BY Step DEF Onward
<1> QED BY <1>1, Invariant, PTL DEF ConsumerSpec, NothingQueuedForgotten

\* No old, repeated or late datagram ever takes the client's book back.
THEOREM NeverGoesBack == ConsumerSpec => [][version' >= version]_consumerVars
<1>1. IInv /\ [ConsumerNext]_consumerVars => [version' >= version]_consumerVars
  BY Step DEF Onward
<1> QED BY <1>1, Invariant, PTL DEF ConsumerSpec

-----------------------------------------------------------------------------
\* Numbers, and what stands in an order.

\* A bounded set of numbers that is not empty has a greatest one, Max of it.
LEMMA MaxFacts ==
  ASSUME NEW N \in Nat, NEW T \in SUBSET (1 .. N), T # {}
  PROVE  Max(T) \in T /\ \A y \in T : Max(T) >= y
<1> DEFINE U == {k \in Nat : N - k \in T}
<1>1. U \in SUBSET Nat
  OBVIOUS
<1>2. PICK t \in T : TRUE
  OBVIOUS
<1>3. N - t \in Nat /\ N - (N - t) = t
  BY <1>2
<1>4. U # {}
  BY <1>2, <1>3
<1>5. PICK m \in U : \A k \in U : m <= k
  BY <1>1, <1>4, LeastExists, Zenon
<1>6. N - m \in T
  BY <1>5
<1>7. ASSUME NEW y \in T PROVE N - m >= y
  <2>1. N - y \in Nat /\ N - (N - y) = y
    OBVIOUS
  <2>2. N - y \in U
    BY <2>1
  <2>3. m \in Nat /\ m <= N - y
    BY <2>2, <1>5
  <2> QED BY <2>1, <2>3
<1>8. \E x \in T : \A y \in T : x >= y
  BY <1>6, <1>7
<1> QED BY <1>8 DEF Max

\* A finite set every part of which has an element before all the others can
\* be enumerated in that order.
LEMMA Enumerable ==
  ASSUME NEW S, IsFiniteSet(S), NEW R,
         \A T \in SUBSET S : T # {} => \E m \in T : \A x \in T \ {m} : <<m, x>> \in R
  PROVE  \E q \in [1 .. Cardinality(S) -> S] :
           \A i, j \in 1 .. Cardinality(S) : i < j => <<q[i], q[j]>> \in R
<1> DEFINE Enumerates(q, T) ==
             /\ q \in [1 .. Cardinality(T) -> T]
             /\ \A i, j \in 1 .. Cardinality(T) : i < j => <<q[i], q[j]>> \in R
           Bad == {n \in Nat : \E T \in SUBSET S :
                                 Cardinality(T) = n /\ ~ \E q : Enumerates(q, T)}
<1>1. \A T \in SUBSET S : IsFiniteSet(T) /\ Cardinality(T) \in Nat
  BY FS_Subset, FS_CardinalityType
<1>2. SUFFICES ASSUME Bad # {} PROVE FALSE
  BY <1>1
<1>3. PICK n \in Bad : \A k \in Bad : n <= k
  BY <1>2, LeastExists, Zenon
<1>4. PICK T \in SUBSET S : Cardinality(T) = n /\ ~ \E q : Enumerates(q, T)
  BY <1>3
<1>5. n \in Nat
  BY <1>3
<1>6. CASE T = {}
  <2>1. n = 0
    BY <1>4, <1>6, FS_EmptySet
  <2>2. Enumerates(<< >>, T)
    BY <2>1, <1>4, <1>6
  <2> QED BY <2>2, <1>4
<1>7. CASE T # {}
  <2>1. PICK m \in T : \A x \in T \ {m} : <<m, x>> \in R
    BY <1>7
  <2> DEFINE U == T \ {m}
  <2>2. U \in SUBSET S /\ Cardinality(U) = n - 1 /\ n - 1 \in Nat
    <3>1. IsFiniteSet(T)
      BY <1>1
    <3>2. Cardinality(U) = n - 1
      BY <3>1, <1>4, <2>1, FS_RemoveElement
    <3>3. U \in SUBSET S
      OBVIOUS
    <3> HIDE DEF U
    <3> QED BY <3>2, <3>3, <1>1, <1>5
  <2>3. n - 1 \notin Bad
    BY <1>3, <2>2
  <2>4. PICK q : Enumerates(q, U)
    BY <2>2, <2>3
  <2>5. /\ q \in [1 .. (n - 1) -> U]
        /\ \A i, j \in 1 .. (n - 1) : i < j => <<q[i], q[j]>> \in R
    BY <2>2, <2>4
  <2> HIDE DEF Enumerates, Bad
  <2> DEFINE r == [i \in 1 .. n |-> IF i = 1 THEN m ELSE q[i - 1]]
  <2>6. \A i \in 1 .. n : i # 1 => i - 1 \in 1 .. (n - 1) /\ q[i - 1] \in U
    BY <1>5, <2>5
  <2>7. r \in [1 .. n -> T]
    BY <2>1, <2>6
  <2>8. ASSUME NEW i \in 1 .. n, NEW j \in 1 .. n, i < j
        PROVE  <<r[i], r[j]>> \in R
    <3>1. j # 1 /\ j - 1 \in 1 .. (n - 1) /\ q[j - 1] \in U /\ r[j] = q[j - 1]
      BY <2>6, <2>8, <1>5
    <3>2. CASE i = 1
      BY <3>1, <3>2, <2>1
    <3>3. CASE i # 1
      <4>1. i - 1 \in 1 .. (n - 1) /\ r[i] = q[i - 1] /\ i - 1 < j - 1
        BY <3>3, <2>6, <2>8, <1>5
      <4> QED BY <4>1, <3>1, <2>5
    <3> QED BY <3>2, <3>3
  <2> HIDE DEF r
  <2>9. Enumerates(r, T)
    BY <2>7, <2>8, <1>4 DEF Enumerates
  <2> QED BY <2>9, <1>4
<1> QED BY <1>6, <1>7

\* Such an enumeration has every element.
LEMMA EnumerationComplete ==
  ASSUME NEW S, IsFiniteSet(S), NEW q \in [1 .. Cardinality(S) -> S],
         \A i, j \in 1 .. Cardinality(S) : i < j => q[i] # q[j]
  PROVE  \A x \in S : \E i \in 1 .. Cardinality(S) : q[i] = x
<1> DEFINE c == Cardinality(S)
<1>1. c \in Nat
  BY FS_CardinalityType
<1>2. \A i, j \in 1 .. c : i # j => q[i] # q[j]
  BY <1>1
<1>3. q \in Injection(1 .. c, S)
  BY <1>2 DEF Injection, IsInjective
<1>4. IsFiniteSet(1 .. c) /\ Cardinality(1 .. c) = c
  BY <1>1, FS_Interval
<1>5. q \in Surjection(1 .. c, S)
  BY <1>3, <1>4, FS_Injection
<1> QED BY <1>5 DEF Surjection

-----------------------------------------------------------------------------
\* Books and updates.

\* An update makes a book of a book.
LEMMA AfterBook ==
  ASSUME NEW b \in Books, NEW u \in Update
  PROVE  /\ After(b, u) \in Books
         /\ \A o \in Symbols \X OrderIds :
              After(b, u)[o] = IF Touches(u, o) THEN QuantityIn(u) ELSE b[o]
<1>1. DOMAIN b = Symbols \X OrderIds /\ \A o \in Symbols \X OrderIds : b[o] \in 0 .. MaxQuantity
  BY DEF Books
<1>2. QuantityIn(u) \in 0 .. MaxQuantity
  BY UpdatesAssumption DEF QuantityIn, Update
<1> QED BY <1>1, <1>2 DEF After, Books

\* No updates, no change; and the last update to touch an order decides.
LEMMA AfterAllFacts ==
  ASSUME NEW b \in Books, NEW updates \in Seq(Update)
  PROVE  /\ AfterAll(b, updates) \in Books
         /\ \A o \in Symbols \X OrderIds :
              \/ /\ \A i \in 1 .. Len(updates) : ~ Touches(updates[i], o)
                 /\ AfterAll(b, updates)[o] = b[o]
              \/ \E i \in 1 .. Len(updates) :
                   /\ Touches(updates[i], o)
                   /\ \A j \in 1 .. Len(updates) : Touches(updates[j], o) => j <= i
                   /\ AfterAll(b, updates)[o] = QuantityIn(updates[i])
<1> DEFINE n == Len(updates)
           touching(o) == {i \in DOMAIN updates : Touches(updates[i], o)}
           all == AfterAll(b, updates)
<1>1. /\ DOMAIN b = Symbols \X OrderIds
      /\ \A o \in Symbols \X OrderIds : b[o] \in 0 .. MaxQuantity
  BY DEF Books
<1>2. n \in Nat /\ DOMAIN updates = 1 .. n /\ \A i \in 1 .. n : updates[i] \in Update
  BY LenProperties
<1>3. \A i \in 1 .. n : QuantityIn(updates[i]) \in 0 .. MaxQuantity
  BY <1>2, UpdatesAssumption DEF QuantityIn, Update
<1>4. /\ DOMAIN all = Symbols \X OrderIds
      /\ all = [o \in Symbols \X OrderIds |->
                 IF touching(o) = {} THEN b[o] ELSE QuantityIn(updates[Max(touching(o))])]
  BY <1>1 DEF AfterAll
<1>5. \A o : /\ touching(o) \in SUBSET (1 .. n)
             /\ \A i \in 1 .. n : i \in touching(o) <=> Touches(updates[i], o)
  BY <1>2
<1> HIDE DEF n, touching, all
<1>6. ASSUME NEW o \in Symbols \X OrderIds
      PROVE  /\ \/ /\ \A i \in 1 .. n : ~ Touches(updates[i], o)
                   /\ all[o] = b[o]
                \/ \E i \in 1 .. n :
                     /\ Touches(updates[i], o)
                     /\ \A j \in 1 .. n : Touches(updates[j], o) => j <= i
                     /\ all[o] = QuantityIn(updates[i])
             /\ all[o] \in 0 .. MaxQuantity
  <2>1. CASE touching(o) = {}
    BY <2>1, <1>1, <1>4, <1>5
  <2>2. CASE touching(o) # {}
    <3> DEFINE i == Max(touching(o))
    <3>1. i \in touching(o) /\ \A y \in touching(o) : i >= y
      BY <2>2, <1>2, <1>5, MaxFacts
    <3>2. all[o] = QuantityIn(updates[i])
      BY <2>2, <1>4
    <3> HIDE DEF i
    <3>3. i \in 1 .. n /\ Touches(updates[i], o)
      BY <3>1, <1>5
    <3>4. \A j \in 1 .. n : Touches(updates[j], o) => j <= i
      BY <3>1, <3>3, <1>2, <1>5
    <3> QED BY <3>2, <3>3, <3>4, <1>3
  <2> QED BY <2>1, <2>2
<1>7. all \in Books
  BY <1>4, <1>6 DEF Books
<1> QED BY <1>6, <1>7 DEF n, all

\* Two books that agree on every order are the same.
LEMMA SameBook ==
  ASSUME NEW b \in Books, NEW c \in Books,
         \A o \in Symbols \X OrderIds : b[o] = c[o]
  PROVE  b = c
BY DEF Books

\* One update more.
LEMMA AfterAllAppend ==
  ASSUME NEW b \in Books, NEW updates \in Seq(Update), NEW u \in Update
  PROVE  AfterAll(b, Append(updates, u)) = After(AfterAll(b, updates), u)
<1> DEFINE n == Len(updates)
           more == Append(updates, u)
           before == AfterAll(b, updates)
           whole == AfterAll(b, more)
<1>1. /\ more \in Seq(Update) /\ Len(more) = n + 1 /\ n \in Nat
      /\ \A i \in 1 .. n : more[i] = updates[i]
      /\ more[n + 1] = u
  BY AppendProperties, LenProperties
<1>2. before \in Books /\ whole \in Books
  BY <1>1, AfterAllFacts
<1>3. After(before, u) \in Books
  BY <1>2, AfterBook
<1>4. ASSUME NEW o \in Symbols \X OrderIds
      PROVE  whole[o] = After(before, u)[o]
  <2>1. After(before, u)[o] = IF Touches(u, o) THEN QuantityIn(u) ELSE before[o]
    BY <1>2, AfterBook
  <2>2. \/ /\ \A i \in 1 .. n : ~ Touches(updates[i], o)
           /\ before[o] = b[o]
        \/ \E i \in 1 .. n :
             /\ Touches(updates[i], o)
             /\ \A j \in 1 .. n : Touches(updates[j], o) => j <= i
             /\ before[o] = QuantityIn(updates[i])
    BY AfterAllFacts
  <2>3. \/ /\ \A i \in 1 .. n + 1 : ~ Touches(more[i], o)
           /\ whole[o] = b[o]
        \/ \E i \in 1 .. n + 1 :
             /\ Touches(more[i], o)
             /\ \A j \in 1 .. n + 1 : Touches(more[j], o) => j <= i
             /\ whole[o] = QuantityIn(more[i])
    BY <1>1, AfterAllFacts
  <2> HIDE DEF n, more, before, whole
  <2>4. CASE Touches(u, o)
    BY <2>1, <2>3, <2>4, <1>1
  <2>5. CASE ~ Touches(u, o)
    <3>1. CASE \A i \in 1 .. n : ~ Touches(updates[i], o)
      BY <3>1, <2>1, <2>2, <2>3, <2>5, <1>1
    <3>2. CASE \E i \in 1 .. n : Touches(updates[i], o)
      <4>1. PICK i \in 1 .. n : /\ Touches(updates[i], o)
                                /\ \A j \in 1 .. n : Touches(updates[j], o) => j <= i
                                /\ before[o] = QuantityIn(updates[i])
        BY <3>2, <2>2
      <4>2. i \in 1 .. n + 1 /\ Touches(more[i], o)
        BY <4>1, <1>1
      <4>3. PICK k \in 1 .. n + 1 : /\ Touches(more[k], o)
                                    /\ \A j \in 1 .. n + 1 : Touches(more[j], o) => j <= k
                                    /\ whole[o] = QuantityIn(more[k])
        BY <4>2, <2>3
      <4>4. k # n + 1
        BY <4>3, <2>5, <1>1
      <4>5. k \in 1 .. n /\ more[k] = updates[k]
        BY <4>3, <4>4, <1>1
      <4>6. k = i
        BY <4>1, <4>2, <4>3, <4>5, <1>1
      <4> QED BY <4>1, <4>3, <4>5, <4>6, <2>1, <2>5
    <3> QED BY <3>1, <3>2
  <2> QED BY <2>4, <2>5
<1> HIDE DEF before, whole
<1>5. whole = After(before, u)
  BY <1>2, <1>3, <1>4, SameBook
<1> QED BY <1>5 DEF before, whole, more

-----------------------------------------------------------------------------
\* A cycle of the snapshot.

\* The slots of a book, enumerated.
LEMMA SlotsFacts ==
  ASSUME NEW b \in Books
  PROVE  LET q == SlotsInOrder(b) count == Cardinality(Slots(b))
         IN  /\ count \in Nat
             /\ q \in [1 .. count -> Slots(b)]
             /\ Len(q) = count
             /\ \A i, j \in 1 .. count : i < j => SlotBefore(q[i], q[j])
             /\ \A e \in Slots(b) : \E i \in 1 .. count : q[i] = e
<1> DEFINE S == Slots(b)
           c == Cardinality(S)
           q == SlotsInOrder(b)
           R == {p \in S \X S : SlotBefore(p[1], p[2])}
<1>1. S \subseteq Symbols \X (OrderIds \cup {0})
  BY DEF Slots
<1>2. IsFiniteSet(S)
  <2>1. IsFiniteSet(OrderIds \cup {0})
    BY UpdatesAssumption, FS_AddElement
  <2>2. IsFiniteSet(Symbols \X (OrderIds \cup {0}))
    BY <2>1, UpdatesAssumption, FS_Product
  <2> QED BY <1>1, <2>2, FS_Subset
<1>3. c \in Nat
  BY <1>2, FS_CardinalityType
<1>4. \A e \in S : e[1] \in Nat /\ e[2] \in Nat /\ e = <<e[1], e[2]>>
  BY <1>1, UpdatesAssumption
<1>5. ASSUME NEW T \in SUBSET S, T # {}
      PROVE  \E m \in T : \A x \in T \ {m} : <<m, x>> \in R
  <2> DEFINE firsts == {e[1] : e \in T}
  <2>1. firsts \in SUBSET Nat /\ firsts # {}
    BY <1>4, <1>5
  <2>2. PICK f \in firsts : \A k \in firsts : f <= k
    BY <2>1, LeastExists, Zenon
  <2> DEFINE seconds == {e[2] : e \in {t \in T : t[1] = f}}
  <2>3. seconds \in SUBSET Nat /\ seconds # {}
    BY <1>4, <1>5, <2>2
  <2>4. PICK g \in seconds : \A k \in seconds : g <= k
    BY <2>3, LeastExists, Zenon
  <2>5. PICK m \in T : m[1] = f /\ m[2] = g
    BY <2>4
  <2>6. ASSUME NEW x \in T, x # m PROVE SlotBefore(m, x)
    <3>1. x[1] \in firsts /\ f <= x[1]
      BY <2>2
    <3>2. x[1] = f => x[2] \in seconds /\ g <= x[2]
      BY <2>4
    <3>3. /\ x[1] \in Nat /\ x[2] \in Nat /\ x = <<x[1], x[2]>>
          /\ m[1] \in Nat /\ m[2] \in Nat /\ m = <<m[1], m[2]>>
      BY <1>4
    <3>4. ~ (x[1] = m[1] /\ x[2] = m[2])
      BY <3>3, <2>6
    <3> HIDE DEF firsts, seconds
    <3> QED BY <3>1, <3>2, <3>3, <3>4, <2>5 DEF SlotBefore
  <2>7. \A x \in T \ {m} : <<m, x>> \in R
    BY <2>6
  <2> QED BY <2>7
<1>6. \E r \in [1 .. c -> S] : \A i, j \in 1 .. c : i < j => SlotBefore(r[i], r[j])
  <2>1. \E r \in [1 .. c -> S] : \A i, j \in 1 .. c : i < j => <<r[i], r[j]>> \in R
    <3> HIDE DEF S, R
    <3> QED BY <1>2, <1>5, Enumerable
  <2>2. \A e, f : <<e, f>> \in R => SlotBefore(e, f)
    OBVIOUS
  <2> HIDE DEF R
  <2> QED BY <2>1, <2>2
<1>7. q \in [1 .. c -> S] /\ \A i, j \in 1 .. c : i < j => SlotBefore(q[i], q[j])
  <2>1. \E r \in [1 .. c -> S] : \A i, j \in DOMAIN r : i < j => SlotBefore(r[i], r[j])
    BY <1>6
  <2>2. /\ q \in [1 .. c -> S]
        /\ \A i, j \in DOMAIN q : i < j => SlotBefore(q[i], q[j])
    BY <2>1, Zenon DEF SlotsInOrder
  <2> HIDE DEF q, c, S
  <2> QED BY <2>2
<1>8. \A i, j \in 1 .. c : i < j => q[i] # q[j]
  <2> HIDE DEF q, c, S
  <2>1. \A i \in 1 .. c : q[i] \in S
    BY <1>7
  <2> QED BY <2>1, <1>4, <1>7 DEF SlotBefore
<1>9. \A e \in S : \E i \in 1 .. c : q[i] = e
  BY <1>2, <1>7, <1>8, EnumerationComplete
<1>10. Len(q) = c
  <2>1. q \in Seq(S)
    BY <1>3, <1>7, SeqDef
  <2>2. DOMAIN q = 1 .. c /\ DOMAIN q = 1 .. Len(q) /\ Len(q) \in Nat
    BY <2>1, <1>7, LenProperties
  <2> HIDE DEF q, c, S
  <2> QED BY <2>2, <1>3
<1> QED BY <1>3, <1>7, <1>9, <1>10

\* What stands between the start and the end of a cycle.
Middle(b) == [i \in 1 .. Cardinality(Slots(b)) |-> Entry(b, SlotsInOrder(b)[i])]
EndOf(b) == Cardinality(Slots(b)) + 2

\* What is published of a slot.
LEMMA EntryFacts ==
  ASSUME NEW b \in Books, NEW e \in Slots(b)
  PROVE  /\ Entry(b, e) \in Update
         /\ Entry(b, e).type = IF e[2] = 0 THEN "CLEAR" ELSE "ADD"
         /\ \A o \in Symbols \X OrderIds :
              Touches(Entry(b, e), o) <=> o[1] = e[1] /\ (e[2] = 0 \/ e[2] = o[2])
         /\ e[2] # 0 => QuantityIn(Entry(b, e)) = b[e]
         /\ e[2] = 0 => QuantityIn(Entry(b, e)) = 0
<1>1. e \in Symbols \X (OrderIds \cup {0}) /\ e = <<e[1], e[2]>>
  BY DEF Slots
<1>2. e[1] \in Symbols /\ e[2] \in Nat /\ (e[2] # 0 => e \in Symbols \X OrderIds)
  <2>1. e[1] \in Symbols /\ e[2] \in OrderIds \cup {0}
    BY <1>1
  <2>2. e[2] # 0 => <<e[1], e[2]>> \in Symbols \X OrderIds
    BY <2>1
  <2>3. e[2] # 0 => e \in Symbols \X OrderIds
    BY <1>1, <2>2, Zenon
  <2>4. e[2] \in Nat
    <3>1. \A k \in OrderIds \cup {0} : k \in Nat
      BY UpdatesAssumption
    <3> QED BY <2>1, <3>1, Zenon
  <2> QED BY <2>1, <2>3, <2>4, Zenon
<1>3. CASE e[2] = 0
  <2>1. /\ Entry(b, e) = [type |-> "CLEAR", symbol |-> e[1], order |-> 0, quantity |-> 0]
        /\ 0 \in 0 .. MaxQuantity
    BY <1>3, UpdatesAssumption DEF Entry, MakeUpdate
  <2> QED BY <2>1, <1>2, <1>3 DEF Update, Types, Touches, QuantityIn
<1>4. CASE e[2] # 0
  <2>1. b[e] \in 0 .. MaxQuantity
    BY <1>2, <1>4 DEF Books
  <2>2. Entry(b, e) = [type |-> "ADD", symbol |-> e[1], order |-> e[2], quantity |-> b[e]]
    BY <1>4 DEF Entry, MakeUpdate
  <2>3. Entry(b, e) \in Update /\ Entry(b, e).type = "ADD" /\ QuantityIn(Entry(b, e)) = b[e]
    BY <2>1, <2>2, <1>2, <1>4 DEF Update, Types, QuantityIn
  <2>4. \A o \in Symbols \X OrderIds :
          Touches(Entry(b, e), o) <=> o[1] = e[1] /\ e[2] = o[2]
    <3>1. \A o \in Symbols \X OrderIds : o = <<o[1], o[2]>>
      OBVIOUS
    <3> QED BY <2>2, <3>1 DEF Touches
  <2> QED BY <2>3, <2>4, <1>4
<1> QED BY <1>3, <1>4

\* The messages of a cycle: the start, the slots, the end.
LEMMA CycleFacts ==
  ASSUME NEW b \in Books, NEW last \in Nat
  PROVE  LET cycle == SnapshotUpdates(b, last)
         IN  /\ Cardinality(Slots(b)) \in Nat
             /\ DOMAIN cycle = 1 .. EndOf(b)
             /\ cycle \in Seq(Update) /\ Len(cycle) = EndOf(b)
             /\ cycle[1].type = "SNAPSHOT_START" /\ cycle[1].order = last
             /\ cycle[EndOf(b)].type = "SNAPSHOT_END" /\ cycle[EndOf(b)].order = last
             /\ \A i \in 1 .. Cardinality(Slots(b)) :
                  cycle[i + 1] = Middle(b)[i] /\ cycle[i + 1].type \in {"CLEAR", "ADD"}
             /\ Middle(b) \in Seq(Update) /\ Len(Middle(b)) = Cardinality(Slots(b))
<1> DEFINE c == Cardinality(Slots(b))
           q == SlotsInOrder(b)
           start == MakeUpdate("SNAPSHOT_START", 0, last, 0)
           end == MakeUpdate("SNAPSHOT_END", 0, last, 0)
           cycle == SnapshotUpdates(b, last)
<1>1. c \in Nat /\ q \in [1 .. c -> Slots(b)] /\ Len(q) = c
  BY SlotsFacts
<1>2. cycle = [i \in 1 .. c + 2 |-> IF i = 1 THEN start
                                    ELSE IF i = c + 2 THEN end ELSE Entry(b, q[i - 1])]
  BY <1>1 DEF SnapshotUpdates
<1>3. /\ start \in Update /\ start.type = "SNAPSHOT_START" /\ start.order = last
      /\ end \in Update /\ end.type = "SNAPSHOT_END" /\ end.order = last
  BY UpdatesAssumption DEF MakeUpdate, Update, Types
<1>4. \A i \in 1 .. c : Entry(b, q[i]) \in Update /\ Entry(b, q[i]).type \in {"CLEAR", "ADD"}
  BY <1>1, EntryFacts
<1>5. Middle(b) = [i \in 1 .. c |-> Entry(b, q[i])] /\ EndOf(b) = c + 2
  BY DEF Middle, EndOf
<1> HIDE DEF c, q, start, end, cycle
<1>6. \A i \in 1 .. c + 2 : i # 1 /\ i # c + 2 => i - 1 \in 1 .. c
  BY <1>1
<1>7. \A i \in 1 .. c : i + 1 \in 1 .. c + 2 /\ i + 1 # 1 /\ i + 1 # c + 2 /\ (i + 1) - 1 = i
  BY <1>1
<1>8. cycle \in [1 .. c + 2 -> Update]
  BY <1>2, <1>3, <1>4, <1>6
<1>9. Middle(b) \in [1 .. c -> Update]
  BY <1>4, <1>5
<1>10. c + 2 \in Nat /\ 1 \in 1 .. c + 2 /\ c + 2 \in 1 .. c + 2 /\ c + 2 # 1
  BY <1>1
<1>11. \A i \in 1 .. c : cycle[i + 1] = Entry(b, q[i])
  BY <1>2, <1>7
<1>12. cycle[1] = start /\ cycle[c + 2] = end
  BY <1>2, <1>10
<1>13. cycle \in Seq(Update) /\ Len(cycle) = c + 2
  BY <1>8, <1>10, SeqDef, LenProperties
<1>14. Middle(b) \in Seq(Update) /\ Len(Middle(b)) = c
  <2>1. Middle(b) \in Seq(Update)
    BY <1>1, <1>9, SeqDef
  <2> QED BY <2>1, <1>1, <1>9, LenProperties
<1>15. \A i \in 1 .. c : cycle[i + 1] = Middle(b)[i] /\ cycle[i + 1].type \in {"CLEAR", "ADD"}
  BY <1>4, <1>5, <1>11
<1> QED BY <1>1, <1>3, <1>5, <1>8, <1>12, <1>13, <1>14, <1>15 DEF c, cycle

\* Between its ends a cycle carries the messages of the slots.
LEMMA CycleEntries ==
  ASSUME NEW b \in Books, NEW last \in Nat
  PROVE  /\ Cardinality(Slots(b)) \in Nat
         /\ \A i \in 1 .. Cardinality(Slots(b)) : SnapshotUpdates(b, last)[i + 1] = Middle(b)[i]
         /\ Middle(b) \in Seq(Update)
<1> DEFINE cycle == SnapshotUpdates(b, last)
<1>1. /\ Cardinality(Slots(b)) \in Nat
      /\ \A i \in 1 .. Cardinality(Slots(b)) : cycle[i + 1] = Middle(b)[i]
      /\ Middle(b) \in Seq(Update)
  <2> HIDE DEF cycle
  <2>1. cycle = SnapshotUpdates(b, last)
    BY DEF cycle
  <2> QED BY <2>1, CycleFacts
<1> QED BY <1>1

\* A cycle makes the book it was taken of out of any other.
LEMMA SnapshotRebuilds ==
  ASSUME NEW b \in Books, NEW any \in Books
  PROVE  AfterAll(any, Middle(b)) = b
<1> DEFINE c == Cardinality(Slots(b))
           q == SlotsInOrder(b)
           rebuilt == AfterAll(any, Middle(b))
<1>1. /\ c \in Nat /\ q \in [1 .. c -> Slots(b)]
      /\ \A i, j \in 1 .. c : i < j => SlotBefore(q[i], q[j])
      /\ \A e \in Slots(b) : \E i \in 1 .. c : q[i] = e
  BY SlotsFacts
<1>2. Middle(b) \in Seq(Update) /\ Len(Middle(b)) = c
  BY CycleFacts, 0 \in Nat
<1>3. \A i \in 1 .. c : Middle(b)[i] = Entry(b, q[i])
  BY DEF Middle
<1>4. ASSUME NEW o \in Symbols \X OrderIds
      PROVE  rebuilt[o] = b[o]
  <2>1. o[1] \in Symbols /\ o[2] \in OrderIds /\ o = <<o[1], o[2]>>
    OBVIOUS
  <2>2. o[1] \in Nat /\ o[2] \in Nat /\ o[2] # 0
    BY <2>1, UpdatesAssumption
  <2>3. <<o[1], 0>> \in Slots(b)
    BY <2>1 DEF Slots
  <2>4. b[o] \in 0 .. MaxQuantity
    BY DEF Books
  <2>5. b[o] # 0 => o \in Slots(b)
    BY <2>1, <2>4, UpdatesAssumption DEF Slots
  <2>6. \A i \in 1 .. c : Touches(Middle(b)[i], o) <=>
          q[i] = <<o[1], 0>> \/ q[i] = o
    <3> SUFFICES ASSUME NEW i \in 1 .. c
                 PROVE  Touches(Middle(b)[i], o) <=> q[i] = <<o[1], 0>> \/ q[i] = o
      OBVIOUS
    <3>1. q[i] \in Slots(b) /\ q[i] = <<q[i][1], q[i][2]>>
      BY <1>1 DEF Slots
    <3>2. Touches(Middle(b)[i], o) <=>
            o[1] = q[i][1] /\ (q[i][2] = 0 \/ q[i][2] = o[2])
      BY <3>1, <1>3, EntryFacts
    <3> QED BY <3>1, <3>2, <2>1
  <2>7. PICK k \in 1 .. c : q[k] = <<o[1], 0>>
    BY <2>3, <1>1
  <2>8. PICK i \in 1 .. c :
          /\ Touches(Middle(b)[i], o)
          /\ \A j \in 1 .. c : Touches(Middle(b)[j], o) => j <= i
          /\ rebuilt[o] = QuantityIn(Middle(b)[i])
    <3>1. Touches(Middle(b)[k], o)
      BY <2>6, <2>7
    <3>2. \/ \A i \in 1 .. Len(Middle(b)) : ~ Touches(Middle(b)[i], o)
          \/ \E i \in 1 .. Len(Middle(b)) :
               /\ Touches(Middle(b)[i], o)
               /\ \A j \in 1 .. Len(Middle(b)) : Touches(Middle(b)[j], o) => j <= i
               /\ rebuilt[o] = QuantityIn(Middle(b)[i])
      BY <1>2, AfterAllFacts
    <3> HIDE DEF c, rebuilt
    <3> QED BY <3>1, <3>2, <1>2
  <2> HIDE DEF c, q, rebuilt
  <2>9. CASE q[i] = o
    <3>1. QuantityIn(Entry(b, q[i])) = b[o]
      BY <2>2, <2>9, <1>1, EntryFacts
    <3> QED BY <3>1, <2>8, <1>3
  <2>10. CASE q[i] = <<o[1], 0>>
    <3>1. QuantityIn(Entry(b, q[i])) = 0
      <4>1. q[i] \in Slots(b) /\ q[i][2] = 0
        BY <2>10, <1>1
      <4> QED BY <4>1, EntryFacts
    <3>2. ASSUME b[o] # 0 PROVE FALSE
      <4>1. PICK j \in 1 .. c : q[j] = o
        BY <3>2, <2>5, <1>1
      <4>2. j <= i
        BY <4>1, <2>6, <2>8
      <4>3. j # i
        BY <4>1, <2>1, <2>2, <2>10
      <4>4. SlotBefore(q[j], q[i])
        BY <4>2, <4>3, <1>1
      <4>5. o[1] < o[1] \/ o[2] < 0
        BY <4>1, <4>4, <2>10 DEF SlotBefore
      <4> QED BY <4>5, <2>2
    <3> QED BY <3>1, <3>2, <2>8, <1>3
  <2> QED BY <2>6, <2>8, <2>9, <2>10
<1>5. rebuilt \in Books
  BY <1>2, AfterAllFacts
<1> HIDE DEF rebuilt
<1>6. rebuilt = b
  BY <1>4, <1>5, SameBook
<1> QED BY <1>6 DEF rebuilt

-----------------------------------------------------------------------------
\* What a message may be.

\* u is the update numbered n of the books h.
IsUpdate(h, n, u) ==
  /\ n \in Nat /\ 1 <= n /\ n < Len(h)
  /\ u \in Update
  /\ h[n + 1] = After(h[n], u)
  /\ u.type = "ADD" => h[n][<<u.symbol, u.order>>] = 0
  /\ u.type \in {"MODIFY", "CANCEL"} => h[n][<<u.symbol, u.order>>] > 0

\* u is message n of a cycle taken of the books h after the update last.
InCycle(h, last, n, u) ==
  /\ last \in Nat /\ last < Len(h) /\ n \in Nat
  /\ n + 1 <= EndOf(h[last + 1])
  /\ u = SnapshotUpdates(h[last + 1], last)[n + 1]

FromUpdates(h, datagram) ==
  /\ datagram \in Datagrams
  /\ \A i \in 1 .. Len(datagram) : IsUpdate(h, datagram[i].seq, datagram[i].update)
FromCycle(h, last, datagram) ==
  /\ datagram \in Datagrams
  /\ \A i \in 1 .. Len(datagram) : InCycle(h, last, datagram[i].seq, datagram[i].update)

\* The queued snapshot messages begin a cycle; what joined it since is of
\* that cycle or of a later one, none later than c.
CycleQueue(h, c, queued) ==
  DOMAIN queued # {} =>
    /\ StartsCycle(queued) /\ ~ Ended(queued)
    /\ \E a \in 0 .. c : /\ InCycle(h, a, 0, queued[0])
                         /\ \A n \in DOMAIN queued :
                              \E b \in a .. c : InCycle(h, b, n, queued[n])

\* A snapshot that checkSnapshotSync finds complete is one cycle, whole.
WholeCycle(h, c, queued) ==
  \E a \in 0 .. c : /\ LastOf(queued).order = a
                    /\ Cardinality(DOMAIN queued) = EndOf(h[a + 1])
                    /\ \A n \in DOMAIN queued : InCycle(h, a, n, queued[n])

\* One book more takes nothing away.
LEMMA OneBookMore ==
  ASSUME NEW h \in Seq(Books), NEW b \in Books
  PROVE  LET more == Append(h, b)
         IN  /\ more \in Seq(Books) /\ Len(more) = Len(h) + 1 /\ Len(h) \in Nat
             /\ \A i \in 1 .. Len(h) : more[i] = h[i]
             /\ more[Len(h) + 1] = b
             /\ \A n, u : IsUpdate(h, n, u) => IsUpdate(more, n, u)
             /\ \A last, n, u : InCycle(h, last, n, u) => InCycle(more, last, n, u)
<1> DEFINE more == Append(h, b)
<1>1. /\ more \in Seq(Books) /\ Len(more) = Len(h) + 1 /\ Len(h) \in Nat
      /\ \A i \in 1 .. Len(h) : more[i] = h[i]
      /\ more[Len(h) + 1] = b
  BY AppendProperties, LenProperties
<1> HIDE DEF more
<1>2. ASSUME NEW n, NEW u, IsUpdate(h, n, u) PROVE IsUpdate(more, n, u)
  <2>1. n \in 1 .. Len(h) /\ n + 1 \in 1 .. Len(h)
    BY <1>1, <1>2 DEF IsUpdate
  <2>2. more[n] = h[n] /\ more[n + 1] = h[n + 1]
    BY <1>1, <2>1
  <2> QED BY <1>1, <1>2, <2>2 DEF IsUpdate
<1>3. ASSUME NEW last, NEW n, NEW u, InCycle(h, last, n, u)
      PROVE  InCycle(more, last, n, u)
  <2>1. last + 1 \in 1 .. Len(h)
    BY <1>1, <1>3 DEF InCycle
  <2>2. more[last + 1] = h[last + 1]
    BY <1>1, <2>1
  <2> QED BY <1>1, <1>3, <2>2 DEF InCycle
<1> QED BY <1>1, <1>2, <1>3 DEF more

\* A message of a cycle, and which of them are the first and the last.
LEMMA InCycleFacts ==
  ASSUME NEW h \in Seq(Books), NEW last, NEW n, NEW u, InCycle(h, last, n, u)
  PROVE  /\ h[last + 1] \in Books /\ u \in Update
         /\ EndOf(h[last + 1]) \in Nat /\ EndOf(h[last + 1]) >= 2
         /\ u.type = "SNAPSHOT_END" => n + 1 = EndOf(h[last + 1]) /\ u.order = last
         /\ n = 0 => u.order = last /\ u.type = "SNAPSHOT_START"
<1> DEFINE b == h[last + 1]
           cycle == SnapshotUpdates(b, last)
           c == Cardinality(Slots(b))
<1>1. last \in Nat /\ last + 1 \in 1 .. Len(h) /\ n \in Nat
  BY LenProperties DEF InCycle
<1>2. b \in Books
  BY <1>1, ElementOfSeq
<1>3. /\ c \in Nat
      /\ cycle \in Seq(Update) /\ Len(cycle) = EndOf(b)
      /\ cycle[1].type = "SNAPSHOT_START" /\ cycle[1].order = last
      /\ cycle[EndOf(b)].order = last
      /\ \A i \in 1 .. c : cycle[i + 1].type \in {"CLEAR", "ADD"}
  BY <1>1, <1>2, CycleFacts
<1>4. n + 1 <= EndOf(b) /\ u = cycle[n + 1]
  BY DEF InCycle
<1>5. EndOf(b) = c + 2
  BY DEF EndOf
<1> HIDE DEF b, cycle, c
<1>6. n + 1 \in 1 .. EndOf(b)
  BY <1>1, <1>3, <1>4, <1>5
<1>7. u \in Update
  BY <1>3, <1>4, <1>6, ElementOfSeq
<1>8. CASE n = 0
  BY <1>2, <1>3, <1>4, <1>5, <1>7, <1>8 DEF b
<1>9. CASE n # 0 /\ n + 1 # EndOf(b)
  <2>1. n \in 1 .. c
    BY <1>1, <1>3, <1>5, <1>6, <1>9
  <2> QED BY <2>1, <1>2, <1>3, <1>4, <1>5, <1>7, <1>9 DEF b
<1>10. CASE n # 0 /\ n + 1 = EndOf(b)
  BY <1>2, <1>3, <1>4, <1>5, <1>7, <1>10 DEF b
<1> QED BY <1>8, <1>9, <1>10

\* A snapshot message queued by queueMessage: either what is queued does not
\* begin a cycle, or it goes on with one; and if the message is the end of
\* the cycle that is queued, the cycle is whole.
LEMMA PutSnapshot ==
  ASSUME NEW h \in Seq(Books), NEW c \in Nat, NEW queued, Queue(queued),
         CycleQueue(h, c, queued),
         NEW message \in Message, InCycle(h, c, message.seq, message.update),
         NEW kept,
         kept = IF message.seq = 0 \/ message.seq \in DOMAIN queued THEN Empty ELSE queued
  PROVE  LET snapshots == Put(kept, message)
         IN  /\ Queue(snapshots)
             /\ CompleteSnapshot(snapshots) => WholeCycle(h, c, snapshots)
             /\ StartsCycle(snapshots) /\ ~ Ended(snapshots) => CycleQueue(h, c, snapshots)
<1> DEFINE snapshots == Put(kept, message)
           seq == message.seq
           k == Cardinality(DOMAIN snapshots)
<1>1. seq \in Nat /\ message.update \in Update
  BY DEF Message
<1>2. Queue(kept)
  BY EmptyQueue
<1>3. Queue(snapshots) /\ DOMAIN snapshots = DOMAIN kept \cup {seq}
  BY <1>2, PutQueue
<1>4. /\ snapshots[seq] = message.update
      /\ \A n \in DOMAIN kept : n # seq => snapshots[n] = kept[n]
  BY <1>3 DEF Put
<1>5. k \in Nat
  BY <1>3, FS_CardinalityType DEF Queue
<1>6. SUFFICES ASSUME StartsCycle(snapshots)
               PROVE  /\ CompleteSnapshot(snapshots) => WholeCycle(h, c, snapshots)
                      /\ ~ Ended(snapshots) => CycleQueue(h, c, snapshots)
  BY <1>3, Zenon DEF CompleteSnapshot
<1>7. DOMAIN snapshots = 0 .. (k - 1) /\ snapshots[0].type = "SNAPSHOT_START"
  BY <1>6 DEF StartsCycle
<1>8. k # 0 /\ 0 \in DOMAIN snapshots
  <2> HIDE DEF k, snapshots
  <2> QED BY <1>3, <1>5, <1>7
<1>9. CASE seq = 0
  <2>1. DOMAIN kept = {} /\ DOMAIN snapshots = {0}
    BY <1>3, <1>9, EmptyQueue
  <2>2. InCycle(h, c, 0, snapshots[0])
    BY <1>4, <1>9
  <2>3. LastOf(snapshots) = snapshots[0]
    <3>1. k = 1
      BY <2>1, FS_Singleton
    <3> QED BY <3>1 DEF LastOf
  <2>4. ~ Ended(snapshots)
    BY <2>3, <1>7 DEF Ended
  <2>5. ~ CompleteSnapshot(snapshots)
    BY <2>4 DEF CompleteSnapshot
  <2>6. c \in 0 .. c /\ c \in c .. c
    OBVIOUS
  <2>7. \A n \in DOMAIN snapshots : InCycle(h, c, n, snapshots[n])
    BY <2>1, <2>2
  <2> HIDE DEF snapshots
  <2>8. CycleQueue(h, c, snapshots)
    BY <2>2, <2>4, <2>6, <2>7, <1>6 DEF CycleQueue
  <2> QED BY <2>5, <2>8
<1>10. CASE seq # 0
  <2>1. DOMAIN kept # {}
    BY <1>3, <1>8, <1>10
  <2>2. kept = queued /\ seq \notin DOMAIN queued
    BY <2>1, EmptyQueue
  <2> DEFINE j == Cardinality(DOMAIN queued)
  <2>3. /\ StartsCycle(queued)
        /\ \E a \in 0 .. c : /\ InCycle(h, a, 0, queued[0])
                             /\ \A n \in DOMAIN queued :
                                  \E b \in a .. c : InCycle(h, b, n, queued[n])
    BY <2>1, <2>2, Zenon DEF CycleQueue
  <2>4. PICK a \in 0 .. c : /\ InCycle(h, a, 0, queued[0])
                            /\ \A n \in DOMAIN queued :
                                 \E b \in a .. c : InCycle(h, b, n, queued[n])
    BY <2>3
  <2>5. DOMAIN queued = 0 .. (j - 1) /\ j \in Nat
    BY <2>3, FS_CardinalityType DEF StartsCycle, Queue
  <2>6. k = j + 1
    BY <2>2, <1>3, FS_AddElement DEF Queue
  <2>7. seq \in DOMAIN snapshots
    BY <1>3
  <2> HIDE DEF j, k
  <2>8. seq = k - 1 /\ 0 \in DOMAIN queued
    BY <2>1, <2>2, <2>5, <2>6, <2>7, <1>1, <1>7
  <2>9. LastOf(snapshots) = message.update
    BY <2>8, <1>4 DEF LastOf, k
  <2>10. snapshots[0] = queued[0]
    BY <2>2, <2>8, <1>4, <1>10
  <2>11. \A n \in DOMAIN snapshots : \E b \in a .. c : InCycle(h, b, n, snapshots[n])
    <3>1. c \in a .. c
      BY <2>4
    <3>2. \A n \in DOMAIN snapshots : n = seq \/ (n \in DOMAIN queued /\ n # seq)
      BY <1>3, <2>2
    <3> HIDE DEF snapshots, seq
    <3> QED BY <3>1, <3>2, <2>2, <2>4, <1>4 DEF seq
  <2>12. ASSUME CompleteSnapshot(snapshots) PROVE WholeCycle(h, c, snapshots)
    <3>1. Ended(snapshots) /\ OneCycle(snapshots)
      BY <2>12 DEF CompleteSnapshot
    <3>2. message.update.type = "SNAPSHOT_END"
      BY <3>1, <2>9 DEF Ended
    <3>3. seq + 1 = EndOf(h[c + 1]) /\ message.update.order = c
      BY <3>2, InCycleFacts
    <3>4. queued[0].order = a
      BY <2>4, InCycleFacts
    <3>5. a = c
      BY <3>1, <3>3, <3>4, <2>9, <2>10 DEF OneCycle
    <3>6. \A n \in DOMAIN snapshots : InCycle(h, c, n, snapshots[n])
      <4>1. \A b \in a .. c : b = c
        BY <3>5
      <4> QED BY <4>1, <2>11
    <3>7. k = EndOf(h[c + 1])
      BY <3>3, <2>8, <1>1, <1>5
    <3>8. LastOf(snapshots).order = c /\ c \in 0 .. c
      BY <3>3, <2>9
    <3> HIDE DEF snapshots
    <3> QED BY <3>6, <3>7, <3>8 DEF WholeCycle, k
  <2>13. ASSUME ~ Ended(snapshots) PROVE CycleQueue(h, c, snapshots)
    <3>1. InCycle(h, a, 0, snapshots[0])
      BY <2>4, <2>10
    <3> HIDE DEF snapshots
    <3> QED BY <3>1, <2>11, <2>13, <1>6 DEF CycleQueue
  <2> QED BY <2>12, <2>13
<1> QED BY <1>9, <1>10

-----------------------------------------------------------------------------
\* The book that a recovery makes.

\* s and then n of the queued messages, from the number first on.
Run(s, queued, first, n) == s \o [i \in 1 .. n |-> queued[first + i - 1]]

\* One queued message more at the end of what is passed on.
LEMMA RunGrows ==
  ASSUME NEW s \in Seq(Update), NEW queued, NEW first \in Nat, NEW k \in Nat,
         \A i \in 1 .. k + 1 : queued[first + i - 1] \in Update
  PROVE  /\ Run(s, queued, first, k + 1) \in Seq(Update)
         /\ Run(s, queued, first, k + 1) = Append(Run(s, queued, first, k), queued[first + k])
<1> DEFINE tail(n) == [i \in 1 .. n |-> queued[first + i - 1]]
           run(n) == s \o tail(n)
           l == Len(s)
           m == queued[first + k]
<1>1. l \in Nat
  BY LenProperties
<1>4. /\ \A i \in 1 .. k : i \in 1 .. k + 1
      /\ k + 1 \in 1 .. k + 1 /\ k + 1 \in Nat
      /\ first + (k + 1) - 1 = first + k
  OBVIOUS
<1>5. /\ \A i \in 1 .. k : queued[first + i - 1] \in Update
      /\ m \in Update
  BY <1>4
<1>6. tail(k) \in Seq(Update) /\ Len(tail(k)) = k
  <2>1. tail(k) \in [1 .. k -> Update]
    BY <1>5
  <2> HIDE DEF tail
  <2>2. tail(k) \in Seq(Update)
    BY <2>1, SeqDef
  <2> QED BY <2>1, <2>2, LenProperties
<1>7. tail(k + 1) \in Seq(Update) /\ Len(tail(k + 1)) = k + 1
  <2>1. tail(k + 1) \in [1 .. k + 1 -> Update]
    OBVIOUS
  <2> HIDE DEF tail
  <2>2. tail(k + 1) \in Seq(Update)
    BY <2>1, <1>4, SeqDef
  <2> QED BY <2>1, <2>2, <1>4, LenProperties
<1>8. /\ \A i \in 1 .. k : tail(k + 1)[i] = tail(k)[i]
      /\ tail(k + 1)[k + 1] = m
  BY <1>4
<1> HIDE DEF tail, m
<1>9. /\ run(k) \in Seq(Update) /\ Len(run(k)) = l + k
      /\ \A i \in 1 .. l + k : run(k)[i] = IF i <= l THEN s[i] ELSE tail(k)[i - l]
  BY <1>6, ConcatProperties
<1>10. /\ run(k + 1) \in Seq(Update) /\ Len(run(k + 1)) = l + (k + 1)
       /\ \A i \in 1 .. l + (k + 1) :
            run(k + 1)[i] = IF i <= l THEN s[i] ELSE tail(k + 1)[i - l]
  <2> DEFINE j == k + 1
             longer == tail(j)
  <2>1. longer \in Seq(Update) /\ Len(longer) = j
    BY <1>7
  <2> HIDE DEF longer, j
  <2>2. /\ s \o longer \in Seq(Update) /\ Len(s \o longer) = Len(s) + j
        /\ \A i \in 1 .. Len(s) + j :
             (s \o longer)[i] = IF i <= Len(s) THEN s[i] ELSE longer[i - Len(s)]
    BY <2>1, ConcatProperties
  <2> QED BY <2>2 DEF longer, j
<1>11. /\ Append(run(k), m) \in Seq(Update) /\ Len(Append(run(k), m)) = l + k + 1
       /\ \A i \in 1 .. l + k : Append(run(k), m)[i] = run(k)[i]
       /\ Append(run(k), m)[l + k + 1] = m
  BY <1>5, <1>9, AppendProperties
<1> HIDE DEF run, l
<1>12. ASSUME NEW i \in 1 .. l + k + 1 PROVE run(k + 1)[i] = Append(run(k), m)[i]
  <2>1. CASE i <= l
    <3>1. i \in 1 .. l + k /\ i \in 1 .. l + (k + 1)
      BY <2>1, <1>1
    <3> QED BY <3>1, <2>1, <1>9, <1>10, <1>11
  <2>2. CASE i > l /\ i <= l + k
    <3>1. /\ i - l \in 1 .. k /\ ~ (i <= l)
          /\ i \in 1 .. l + k /\ i \in 1 .. l + (k + 1)
      BY <2>2, <1>1
    <3>2. run(k + 1)[i] = tail(k + 1)[i - l] /\ run(k)[i] = tail(k)[i - l]
      BY <3>1, <1>9, <1>10
    <3>3. tail(k + 1)[i - l] = tail(k)[i - l]
      BY <3>1, <1>8, Zenon
    <3>4. Append(run(k), m)[i] = run(k)[i]
      BY <3>1, <1>11, Zenon
    <3> QED BY <3>2, <3>3, <3>4, Zenon
  <2>3. CASE i = l + k + 1
    <3>1. i - l = k + 1 /\ ~ (i <= l)
      BY <2>3, <1>1
    <3>2. run(k + 1)[i] = tail(k + 1)[k + 1]
      BY <3>1, <2>3, <1>1, <1>10
    <3> QED BY <3>2, <2>3, <1>8, <1>11
  <2>4. i <= l \/ (i > l /\ i <= l + k) \/ i = l + k + 1
    BY <1>1
  <2> QED BY <2>1, <2>2, <2>3, <2>4, Zenon
<1>13. l + (k + 1) = l + k + 1
  BY <1>1
<1>14. run(k + 1) = Append(run(k), m)
  BY <1>10, <1>11, <1>12, <1>13, SeqEqual
<1> QED BY <1>10, <1>14 DEF run, tail, m, Run

\* What a recovery passes on makes, of any book, the one the exchange had
\* after the last of the messages.
LEMMA RecoveredBook ==
  ASSUME NEW h \in Seq(Books), NEW c \in Nat,
         NEW snapshots, Queue(snapshots), CompleteSnapshot(snapshots),
         WholeCycle(h, c, snapshots),
         NEW incrementals, Queue(incrementals),
         \A n \in DOMAIN incrementals : IsUpdate(h, n, incrementals[n]),
         NEW any \in Books
  PROVE  /\ NextMissing(snapshots, incrementals) \in 1 .. Len(h)
         /\ AfterAll(any, FinalEvents(snapshots, incrementals))
              = h[NextMissing(snapshots, incrementals)]
<1>1. PICK a \in 0 .. c : /\ LastOf(snapshots).order = a
                          /\ Cardinality(DOMAIN snapshots) = EndOf(h[a + 1])
                          /\ \A n \in DOMAIN snapshots : InCycle(h, a, n, snapshots[n])
  BY Zenon DEF WholeCycle
<1> DEFINE b == h[a + 1]
           count == Cardinality(Slots(b))
           first == a + 1
           next == NextMissing(snapshots, incrementals)
           last == next - first
           run(n) == Run(Middle(b), incrementals, first, n)
           Good(n) == run(n) \in Seq(Update) /\ AfterAll(any, run(n)) = h[first + n]
<1>2. DOMAIN snapshots = 0 .. (EndOf(b) - 1) /\ DOMAIN snapshots # {}
  BY <1>1 DEF CompleteSnapshot, StartsCycle
<1>3. PICK m \in DOMAIN snapshots : InCycle(h, a, m, snapshots[m])
  BY <1>1, <1>2
<1>4. a \in Nat /\ a < Len(h) /\ b \in Books /\ Len(h) \in Nat
  BY <1>3, InCycleFacts, LenProperties DEF InCycle
<1>5. /\ count \in Nat /\ EndOf(b) = count + 2
      /\ \A i \in 1 .. count : SnapshotUpdates(b, a)[i + 1] = Middle(b)[i]
      /\ Middle(b) \in Seq(Update)
  <2>1. EndOf(b) = count + 2
    BY DEF EndOf
  <2> HIDE DEF b, next, last, first, run, Good
  <2>2. /\ Cardinality(Slots(b)) \in Nat
        /\ \A i \in 1 .. Cardinality(Slots(b)) : SnapshotUpdates(b, a)[i + 1] = Middle(b)[i]
        /\ Middle(b) \in Seq(Update)
    BY ONLY <1>4, CycleEntries
  <2> QED BY <2>1, <2>2
<1>6. Middle(b) = [i \in 1 .. Cardinality(DOMAIN snapshots) - 2 |-> snapshots[i]]
  <2>1. Cardinality(DOMAIN snapshots) - 2 = count
    BY <1>1, <1>5
  <2>2. Middle(b) = [i \in 1 .. count |-> Middle(b)[i]]
    BY DEF Middle
  <2>3. \A i \in 1 .. count : snapshots[i] = SnapshotUpdates(b, a)[i + 1]
    <3>1. \A i \in 1 .. count : i \in DOMAIN snapshots
      BY <1>2, <1>5
    <3> QED BY <3>1, <1>1 DEF InCycle
  <2> HIDE DEF count, b
  <2>4. \A i \in 1 .. count : Middle(b)[i] = snapshots[i]
    BY <2>3, <1>5
  <2> QED BY <2>1, <2>2, <2>4
<1>7. next \in Nat /\ next >= first /\ first .. (next - 1) \subseteq DOMAIN incrementals
  BY <1>1, NextMissingExact
<1>8. FinalEvents(snapshots, incrementals) = run(last)
  BY <1>1, <1>6 DEF FinalEvents, Run
<1> HIDE DEF b, next, count
<1>9. last \in Nat /\ first + last = next /\ first \in Nat
  BY <1>4, <1>7
<1> HIDE DEF last
<1>10. ASSUME NEW n \in Nat, n < last
       PROVE  /\ \A i \in 1 .. n + 1 : incrementals[first + i - 1] \in Update
              /\ IsUpdate(h, first + n, incrementals[first + n])
  <2>1. \A i \in 1 .. n + 1 : first + i - 1 \in DOMAIN incrementals
    BY <1>4, <1>7, <1>9, <1>10
  <2>2. first + n \in DOMAIN incrementals
    BY <1>4, <1>7, <1>9, <1>10
  <2> QED BY <2>1, <2>2 DEF IsUpdate
<1>11. Good(0)
  <2>1. run(0) = Middle(b)
    <3>1. [i \in 1 .. 0 |-> incrementals[first + i - 1]] = << >>
      OBVIOUS
    <3> QED BY <3>1, <1>5, ConcatEmptySeq DEF Run
  <2>2. AfterAll(any, Middle(b)) = b
    BY <1>4, SnapshotRebuilds
  <2>3. h[first + 0] = b
    BY <1>4 DEF b
  <2> QED BY <2>1, <2>2, <2>3, <1>5
<1>12. ASSUME NEW n \in Nat, n < last, Good(n) PROVE Good(n + 1)
  <2> DEFINE u == incrementals[first + n]
  <2>1. /\ \A i \in 1 .. n + 1 : incrementals[first + i - 1] \in Update
        /\ IsUpdate(h, first + n, u)
    BY <1>10, <1>12
  <2>2. run(n + 1) \in Seq(Update) /\ run(n + 1) = Append(run(n), u)
    <3>1. Middle(b) \in Seq(Update) /\ n \in Nat
      BY <1>5
    <3>2. first \in Nat /\ \A i \in 1 .. n + 1 : incrementals[first + i - 1] \in Update
      BY <1>9, <2>1
    <3> HIDE DEF first, Good
    <3>3. /\ Run(Middle(b), incrementals, first, n + 1) \in Seq(Update)
          /\ Run(Middle(b), incrementals, first, n + 1)
               = Append(Run(Middle(b), incrementals, first, n), incrementals[first + n])
      BY <3>1, <3>2, RunGrows
    <3> QED BY <3>3, Zenon DEF first
  <2>3. run(n) \in Seq(Update) /\ AfterAll(any, run(n)) = h[first + n]
    BY <1>12
  <2> HIDE DEF run, u
  <2>4. u \in Update /\ h[first + n + 1] = After(h[first + n], u)
    BY <2>1 DEF IsUpdate
  <2>5. AfterAll(any, run(n + 1)) = After(h[first + n], u)
    BY <2>2, <2>3, <2>4, AfterAllAppend
  <2>6. first + (n + 1) = first + n + 1
    BY <1>9
  <2> QED BY <2>2, <2>4, <2>5, <2>6
<1> HIDE DEF Good
<1>13. Good(last)
  <2> DEFINE Bad == {n \in Nat : n <= last /\ ~ Good(n)}
  <2>1. SUFFICES ASSUME Bad # {} PROVE FALSE
    BY <1>9
  <2>2. PICK n \in Bad : \A k \in Bad : n <= k
    BY <2>1, LeastExists, Zenon
  <2>3. n # 0
    BY <2>2, <1>11
  <2>4. n - 1 \in Nat /\ n - 1 < last /\ (n - 1) + 1 = n
    BY <2>2, <2>3, <1>9
  <2>5. Good(n - 1)
    BY <2>2, <2>4, <1>9
  <2>6. Good((n - 1) + 1)
    BY <2>4, <2>5, <1>12
  <2> QED BY <2>2, <2>4, <2>6
<1>14. next <= Len(h)
  <2>1. CASE last = 0
    BY <2>1, <1>4, <1>9
  <2>2. CASE last # 0
    <3>1. last - 1 \in Nat /\ last - 1 < last /\ first + (last - 1) = next - 1
      BY <2>2, <1>9
    <3>2. IsUpdate(h, next - 1, incrementals[next - 1])
      BY <3>1, <1>10
    <3> QED BY <3>2, <1>4, <1>7 DEF IsUpdate
  <2> QED BY <2>1, <2>2
<1>15. next \in 1 .. Len(h)
  BY <1>4, <1>7, <1>14
<1> QED BY <1>8, <1>9, <1>13, <1>15 DEF Good, next

-----------------------------------------------------------------------------
\* The inductive invariant of the three threads and the network together.

\* The exchange numbers its updates, and adds no order it has used before;
\* what is on its way on the incremental stream are those updates.
PublisherInv ==
  /\ history \in Seq(Books) /\ history # << >>
  /\ next_order_id_ \in [Symbols -> Nat]
  /\ \A s \in Symbols, o \in OrderIds : o >= next_order_id_[s] => TheBook[<<s, o>>] = 0
  /\ FromUpdates(history, outbound)
  /\ \A datagram \in incrementalNet : FromUpdates(history, datagram)

\* The synthesizer has the book of the number it stamps on it, and the next
\* updates in its queue.
SynthesizerInv ==
  /\ last_inc_seq_num_ \in Nat
  /\ FromUpdates(history, snapshot_md_updates_)
  /\ last_inc_seq_num_ + Len(snapshot_md_updates_) + 1 = Len(history)
  /\ orders = history[last_inc_seq_num_ + 1]
  /\ \A i \in 1 .. Len(snapshot_md_updates_) :
       snapshot_md_updates_[i].seq = last_inc_seq_num_ + i

\* All that is on its way on the snapshot stream is of one cycle, that of c.
FromCycleOf(c) ==
  /\ c <= last_inc_seq_num_
  /\ \A i \in 1 .. Len(snapshotNet) : FromCycle(history, c, snapshotNet[i])
  /\ is_snapshot => FromCycle(history, c, inbound)
  /\ CycleQueue(history, c, snapshot_queued_msgs_)
SnapshotInv == snapshotNet \in Seq(Datagrams) /\ \E c \in Nat : FromCycleOf(c)

\* The client has a book of the exchange's, and queued updates of it.
ClientInv ==
  /\ ~ is_snapshot => FromUpdates(history, inbound)
  /\ \A n \in DOMAIN incremental_queued_msgs_ :
       IsUpdate(history, n, incremental_queued_msgs_[n])
  /\ version < Len(history)
  /\ book = history[version + 1]

FeedInv == IInv /\ PublisherInv /\ SynthesizerInv /\ SnapshotInv /\ ClientInv

\* A cycle queued stays one when later cycles are let join it, and when the
\* exchange has one book more.
LEMMA CycleQueueLater ==
  ASSUME NEW h, NEW more, \A last, n, u : InCycle(h, last, n, u) => InCycle(more, last, n, u),
         NEW c \in Nat, NEW d \in Nat, c <= d, NEW queued, CycleQueue(h, c, queued)
  PROVE  CycleQueue(more, d, queued)
<1> SUFFICES ASSUME DOMAIN queued # {} PROVE CycleQueue(more, d, queued)
  BY DEF CycleQueue
<1>1. StartsCycle(queued) /\ ~ Ended(queued)
  BY Zenon DEF CycleQueue
<1>2. PICK a \in 0 .. c : /\ InCycle(h, a, 0, queued[0])
                          /\ \A n \in DOMAIN queued :
                               \E b \in a .. c : InCycle(h, b, n, queued[n])
  BY Zenon DEF CycleQueue
<1>3. a \in 0 .. d /\ \A b \in a .. c : b \in a .. d
  OBVIOUS
<1>4. InCycle(more, a, 0, queued[0])
  BY <1>2
<1>5. \A n \in DOMAIN queued : \E b \in a .. d : InCycle(more, b, n, queued[n])
  BY <1>2, <1>3, Zenon
<1> QED BY <1>1, <1>3, <1>4, <1>5, Zenon DEF CycleQueue

\* A queue with one more of the exchange's updates.
LEMMA PutUpdate ==
  ASSUME NEW h, NEW queued, \A n \in DOMAIN queued : IsUpdate(h, n, queued[n]),
         NEW message, IsUpdate(h, message.seq, message.update)
  PROVE  \A n \in DOMAIN Put(queued, message) : IsUpdate(h, n, Put(queued, message)[n])
<1> SUFFICES ASSUME NEW n \in DOMAIN Put(queued, message)
             PROVE  IsUpdate(h, n, Put(queued, message)[n])
  OBVIOUS
<1>1. /\ n \in DOMAIN queued \cup {message.seq}
      /\ Put(queued, message)[n] = IF n = message.seq THEN message.update ELSE queued[n]
  BY DEF Put
<1>2. CASE n = message.seq
  BY <1>1, <1>2, Zenon
<1>3. CASE n # message.seq
  <2>1. n \in DOMAIN queued /\ Put(queued, message)[n] = queued[n]
    BY <1>1, <1>3
  <2> QED BY <2>1, Zenon
<1> QED BY <1>2, <1>3

\* What checkSnapshotSync does to the client's book: nothing, or it gives it a
\* later one of the exchange's.
LEMMA CheckFeed ==
  ASSUME NEW snapshots, Queue(snapshots), NEW incrementals, Queue(incrementals),
         history \in Seq(Books), NEW c \in Nat,
         version \in Nat, version < Len(history), book = history[version + 1],
         CompleteSnapshot(snapshots) => WholeCycle(history, c, snapshots),
         DOMAIN snapshots # {} /\ StartsCycle(snapshots) /\ ~ Ended(snapshots)
           => CycleQueue(history, c, snapshots),
         \A n \in DOMAIN incrementals : IsUpdate(history, n, incrementals[n]),
         \E n \in DOMAIN incrementals : n > version + 1,
         CheckSnapshotSync(snapshots, incrementals)
  PROVE  /\ CycleQueue(history, c, snapshot_queued_msgs_')
         /\ \A n \in DOMAIN incremental_queued_msgs_' :
              IsUpdate(history, n, incremental_queued_msgs_'[n])
         /\ \/ version' = version /\ book' = book
            \/ version' \in version + 1 .. Len(history) - 1 /\ book' = history[version' + 1]
<1>1. DOMAIN Empty = {} /\ CycleQueue(history, c, Empty)
  BY EmptyQueue DEF CycleQueue
<1>2. CASE KeepWaiting(snapshots, incrementals)
  <2>1. /\ DOMAIN snapshots # {} => StartsCycle(snapshots) /\ ~ Ended(snapshots)
        /\ snapshot_queued_msgs_' = snapshots
        /\ incremental_queued_msgs_' = incrementals
        /\ version' = version /\ book' = book
    BY <1>2, Zenon DEF KeepWaiting
  <2>2. CycleQueue(history, c, snapshots)
    <3>1. CASE DOMAIN snapshots = {}
      BY <3>1, Zenon DEF CycleQueue
    <3>2. CASE DOMAIN snapshots # {}
      BY <3>2, <2>1, Zenon
    <3> QED BY <3>1, <3>2
  <2> QED BY <2>1, <2>2, Zenon
<1>3. CASE DropSnapshot(snapshots, incrementals)
  <2>1. /\ snapshot_queued_msgs_' = Empty
        /\ incremental_queued_msgs_' = incrementals
        /\ version' = version /\ book' = book
    BY <1>3, Zenon DEF DropSnapshot
  <2> QED BY <2>1, <1>1, Zenon
<1>4. CASE SnapshotTooOld(snapshots, incrementals)
  <2>1. /\ snapshot_queued_msgs_' = Empty
        /\ incremental_queued_msgs_' = incrementals
        /\ version' = version /\ book' = book
    BY <1>4, Zenon DEF SnapshotTooOld
  <2> QED BY <2>1, <1>1, Zenon
<1>5. CASE Recovered(snapshots, incrementals)
  <2> DEFINE next == NextMissing(snapshots, incrementals)
  <2>1. /\ CompleteSnapshot(snapshots)
        /\ NoIncrementalMissing(snapshots, incrementals)
        /\ snapshot_queued_msgs_' = Empty
        /\ incremental_queued_msgs_' = Empty
        /\ version' = next - 1
        /\ book' = AfterAll(book, FinalEvents(snapshots, incrementals))
    BY <1>5, Zenon DEF Recovered
  <2>2. book \in Books
    <3>1. version + 1 \in 1 .. Len(history)
      BY LenProperties
    <3> QED BY <3>1, ElementOfSeq
  <2>3. WholeCycle(history, c, snapshots)
    BY <2>1, Zenon
  <2>4. next \in 1 .. Len(history) /\ book' = history[next]
    BY <2>1, <2>2, <2>3, RecoveredBook
  <2>5. \A n \in DOMAIN incrementals : n \in Nat /\ n < next
    BY <2>1 DEF NoIncrementalMissing, Queue
  <2> HIDE DEF next
  <2>6. Len(history) \in Nat
    BY LenProperties
  <2>7. next - 1 \in version + 1 .. Len(history) - 1 /\ (next - 1) + 1 = next
    BY <2>4, <2>5, <2>6
  <2>8. version' \in version + 1 .. Len(history) - 1 /\ book' = history[version' + 1]
    BY <2>1, <2>4, <2>7
  <2> QED BY <2>1, <2>8, <1>1, Zenon
<1> QED BY <1>2, <1>3, <1>4, <1>5 DEF CheckSnapshotSync

\* The datagrams: their first message, the rest of them, and one message more.
LEMMA UpdatesTail ==
  ASSUME NEW h, NEW datagram, FromUpdates(h, datagram), datagram # << >>
  PROVE  /\ Head(datagram) \in Message /\ datagram[1] = Head(datagram)
         /\ IsUpdate(h, Head(datagram).seq, Head(datagram).update)
         /\ FromUpdates(h, Tail(datagram))
         /\ Len(datagram) \in Nat \ {0} /\ Len(Tail(datagram)) = Len(datagram) - 1
         /\ \A i \in 1 .. Len(Tail(datagram)) : Tail(datagram)[i] = datagram[i + 1]
<1>1. datagram \in Seq(Message)
  BY DEF FromUpdates, Datagrams
<1>2. /\ Head(datagram) \in Message /\ Tail(datagram) \in Seq(Message)
      /\ Len(Tail(datagram)) = Len(datagram) - 1
      /\ \A i \in 1 .. Len(Tail(datagram)) : Tail(datagram)[i] = datagram[i + 1]
  BY <1>1, HeadTailProperties
<1>3. Len(datagram) \in Nat \ {0}
  BY <1>1, EmptySeq
<1>4. Head(datagram) = datagram[1]
  BY <1>1
<1>5. 1 \in 1 .. Len(datagram) /\ \A i \in 1 .. Len(Tail(datagram)) : i + 1 \in 1 .. Len(datagram)
  BY <1>2, <1>3
<1>6. \A i \in 1 .. Len(datagram) : IsUpdate(h, datagram[i].seq, datagram[i].update)
  BY DEF FromUpdates
<1>7. IsUpdate(h, Head(datagram).seq, Head(datagram).update)
  BY <1>4, <1>5, <1>6, Zenon
<1>8. \A i \in 1 .. Len(Tail(datagram)) :
        IsUpdate(h, Tail(datagram)[i].seq, Tail(datagram)[i].update)
  BY <1>2, <1>5, <1>6, Zenon
<1> QED BY <1>2, <1>3, <1>4, <1>7, <1>8 DEF FromUpdates, Datagrams

\* The same of a datagram of the snapshot stream.
LEMMA CycleTail ==
  ASSUME NEW h, NEW c, NEW datagram, FromCycle(h, c, datagram), datagram # << >>
  PROVE  /\ Head(datagram) \in Message
         /\ InCycle(h, c, Head(datagram).seq, Head(datagram).update)
         /\ FromCycle(h, c, Tail(datagram))
<1>1. datagram \in Seq(Message)
  BY DEF FromCycle, Datagrams
<1>2. /\ Head(datagram) \in Message /\ Tail(datagram) \in Seq(Message)
      /\ Len(Tail(datagram)) = Len(datagram) - 1
      /\ \A i \in 1 .. Len(Tail(datagram)) : Tail(datagram)[i] = datagram[i + 1]
  BY <1>1, HeadTailProperties
<1>3. Len(datagram) \in Nat \ {0} /\ Head(datagram) = datagram[1]
  BY <1>1, EmptySeq
<1>4. 1 \in 1 .. Len(datagram) /\ \A i \in 1 .. Len(Tail(datagram)) : i + 1 \in 1 .. Len(datagram)
  BY <1>2, <1>3
<1>5. \A i \in 1 .. Len(datagram) : InCycle(h, c, datagram[i].seq, datagram[i].update)
  BY DEF FromCycle
<1>6. InCycle(h, c, Head(datagram).seq, Head(datagram).update)
  BY <1>3, <1>4, <1>5, Zenon
<1>7. \A i \in 1 .. Len(Tail(datagram)) :
        InCycle(h, c, Tail(datagram)[i].seq, Tail(datagram)[i].update)
  BY <1>2, <1>4, <1>5, Zenon
<1> QED BY <1>2, <1>6, <1>7 DEF FromCycle, Datagrams

\* One update more at the end of a datagram or of the synthesizer's queue.
LEMMA UpdatesAppend ==
  ASSUME NEW h, NEW datagram, FromUpdates(h, datagram),
         NEW message \in Message, IsUpdate(h, message.seq, message.update)
  PROVE  /\ FromUpdates(h, Append(datagram, message))
         /\ Len(Append(datagram, message)) = Len(datagram) + 1 /\ Len(datagram) \in Nat
         /\ \A i \in 1 .. Len(datagram) : Append(datagram, message)[i] = datagram[i]
         /\ Append(datagram, message)[Len(datagram) + 1] = message
<1> DEFINE longer == Append(datagram, message)
<1>1. datagram \in Seq(Message)
  BY DEF FromUpdates, Datagrams
<1>2. /\ longer \in Seq(Message) /\ Len(longer) = Len(datagram) + 1 /\ Len(datagram) \in Nat
      /\ \A i \in 1 .. Len(datagram) : longer[i] = datagram[i]
      /\ longer[Len(datagram) + 1] = message
  BY <1>1, AppendProperties, LenProperties
<1> HIDE DEF longer
<1>3. ASSUME NEW i \in 1 .. Len(longer) PROVE IsUpdate(h, longer[i].seq, longer[i].update)
  <2>1. CASE i = Len(datagram) + 1
    BY <2>1, <1>2
  <2>2. CASE i # Len(datagram) + 1
    <3>1. i \in 1 .. Len(datagram) /\ longer[i] = datagram[i]
      BY <2>2, <1>2
    <3> QED BY <3>1 DEF FromUpdates
  <2> QED BY <2>1, <2>2
<1>4. FromUpdates(h, longer)
  BY <1>2, <1>3 DEF FromUpdates, Datagrams
<1> QED BY <1>2, <1>4 DEF longer

\* A callback of the consumer.
LEMMA CallbackFeed ==
  ASSUME FeedInv, RecvCallback, NEW c \in Nat, FromCycleOf(c)
  PROVE  /\ is_snapshot' = is_snapshot
         /\ is_snapshot => FromCycle(history, c, inbound')
         /\ ~ is_snapshot => FromUpdates(history, inbound')
         /\ CycleQueue(history, c, snapshot_queued_msgs_')
         /\ \A n \in DOMAIN incremental_queued_msgs_' :
              IsUpdate(history, n, incremental_queued_msgs_'[n])
         /\ \/ version' = version /\ book' = book
            \/ version' \in version + 1 .. Len(history) - 1 /\ book' = history[version' + 1]
<1>1. /\ history \in Seq(Books) /\ Len(history) \in Nat
      /\ IInv /\ Typed
      /\ version \in Nat /\ version < Len(history) /\ book = history[version + 1]
      /\ \A n \in DOMAIN incremental_queued_msgs_ :
           IsUpdate(history, n, incremental_queued_msgs_[n])
      /\ Queue(snapshot_queued_msgs_) /\ Queue(incremental_queued_msgs_)
  BY LenProperties DEF FeedInv, PublisherInv, ClientInv, IInv, Typed
<1>2. /\ is_snapshot => FromCycle(history, c, inbound)
      /\ ~ is_snapshot => FromUpdates(history, inbound)
      /\ CycleQueue(history, c, snapshot_queued_msgs_)
  BY DEF FeedInv, ClientInv, FromCycleOf
<1>3. /\ inbound # << >> /\ inbound' = Tail(inbound) /\ is_snapshot' = is_snapshot
  BY Zenon DEF RecvCallback, NextMessage, Ignore, PassOn, EnterRecovery, QueueIncremental, QueueSnapshot
<1>4. /\ is_snapshot => /\ FromCycle(history, c, inbound')
                        /\ InCycle(history, c, request.seq, request.update)
      /\ ~ is_snapshot => /\ FromUpdates(history, inbound')
                          /\ IsUpdate(history, request.seq, request.update)
      /\ request \in Message
  <2>1. CASE is_snapshot
    BY <2>1, <1>2, <1>3, CycleTail DEF request
  <2>2. CASE ~ is_snapshot
    BY <2>2, <1>2, <1>3, UpdatesTail DEF request
  <2> QED BY <2>1, <2>2
<1>5. SUFFICES /\ CycleQueue(history, c, snapshot_queued_msgs_')
               /\ \A n \in DOMAIN incremental_queued_msgs_' :
                    IsUpdate(history, n, incremental_queued_msgs_'[n])
               /\ \/ version' = version /\ book' = book
                  \/ version' \in version + 1 .. Len(history) - 1 /\ book' = history[version' + 1]
  BY <1>3, <1>4, Zenon
<1>6. CASE Ignore
  BY <1>6, <1>1, <1>2 DEF Ignore
<1>7. CASE PassOn
  <2>1. /\ ~ is_snapshot /\ ~ in_recovery_ /\ request.seq = next_exp_inc_seq_num_
        /\ snapshot_queued_msgs_' = snapshot_queued_msgs_
        /\ incremental_queued_msgs_' = incremental_queued_msgs_
        /\ version' = request.seq /\ book' = After(book, request.update)
    BY <1>7, Zenon DEF PassOn
  <2>2. request.seq = version + 1
    BY <2>1, <1>1 DEF IInv, NextExpectedExact
  <2>3. IsUpdate(history, version + 1, request.update)
    BY <2>1, <2>2, <1>4, Zenon
  <2>4. /\ version + 1 \in version + 1 .. Len(history) - 1
        /\ history[(version + 1) + 1] = After(book, request.update)
    BY <2>3, <1>1 DEF IsUpdate
  <2>5. version' \in version + 1 .. Len(history) - 1 /\ book' = history[version' + 1]
    BY <2>1, <2>2, <2>4, Zenon
  <2> QED BY <2>1, <2>5, <1>1, <1>2, Zenon
<1>8. CASE EnterRecovery
  <2>1. /\ ~ is_snapshot /\ ~ in_recovery_ /\ ~ NotNeeded /\ request.seq # next_exp_inc_seq_num_
        /\ CheckSnapshotSync(Empty, Put(Empty, request))
    BY <1>8, Zenon DEF EnterRecovery
  <2>2. request.seq > version + 1
    BY <2>1, <1>1, <1>4 DEF NotNeeded, IInv, Typed, NextExpectedExact, Message
  <2>3. /\ Queue(Empty) /\ Queue(Put(Empty, request))
        /\ DOMAIN Empty = {} /\ DOMAIN Put(Empty, request) = {} \cup {request.seq}
    BY <1>4, EmptyQueue, PutQueue
  <2>4. \A n \in DOMAIN Empty : IsUpdate(history, n, Empty[n])
    BY <2>3
  <2>5. \A n \in DOMAIN Put(Empty, request) : IsUpdate(history, n, Put(Empty, request)[n])
    BY <2>1, <2>4, <1>4, PutUpdate
  <2>6. ~ CompleteSnapshot(Empty)
    BY <2>3 DEF CompleteSnapshot
  <2>7. \E n \in DOMAIN Put(Empty, request) : n > version + 1
    BY <2>2, <2>3
  <2> QED BY <2>1, <2>3, <2>5, <2>6, <2>7, <1>1, CheckFeed
<1>9. CASE QueueIncremental
  <2> DEFINE incrementals == Put(incremental_queued_msgs_, request)
  <2>1. /\ ~ is_snapshot /\ in_recovery_
        /\ CheckSnapshotSync(snapshot_queued_msgs_, incrementals)
    BY <1>9, Zenon DEF QueueIncremental
  <2>2. /\ Queue(incrementals)
        /\ DOMAIN incrementals = DOMAIN incremental_queued_msgs_ \cup {request.seq}
    BY <1>1, <1>4, PutQueue
  <2>3. \A n \in DOMAIN incrementals : IsUpdate(history, n, incrementals[n])
    BY <2>1, <1>1, <1>4, PutUpdate
  <2>4. ~ CompleteSnapshot(snapshot_queued_msgs_)
    BY <1>2 DEF CompleteSnapshot, CycleQueue
  <2> HIDE DEF incrementals
  <2>5. \E n \in DOMAIN incrementals : n > version + 1
    BY <2>1, <2>2, <1>1 DEF IInv, RecoveryIsAhead
  <2> QED BY <2>1, <2>2, <2>3, <2>4, <2>5, <1>1, <1>2, CheckFeed
<1>10. CASE QueueSnapshot
  <2> DEFINE kept == KeptBefore(snapshot_queued_msgs_)
             snapshots == Put(kept, request)
  <2>1. /\ is_snapshot /\ in_recovery_
        /\ CheckSnapshotSync(snapshots, incremental_queued_msgs_)
    BY <1>10, Zenon DEF QueueSnapshot
  <2>2. kept = IF request.seq = 0 \/ request.seq \in DOMAIN snapshot_queued_msgs_
               THEN Empty ELSE snapshot_queued_msgs_
    BY DEF KeptBefore
  <2> HIDE DEF kept
  <2>3. /\ Queue(snapshots)
        /\ CompleteSnapshot(snapshots) => WholeCycle(history, c, snapshots)
        /\ StartsCycle(snapshots) /\ ~ Ended(snapshots) => CycleQueue(history, c, snapshots)
    BY <2>1, <2>2, <1>1, <1>2, <1>4, PutSnapshot
  <2> HIDE DEF snapshots
  <2>4. \E n \in DOMAIN incremental_queued_msgs_ : n > version + 1
    BY <2>1, <1>1 DEF IInv, RecoveryIsAhead
  <2> QED BY <2>1, <2>3, <2>4, <1>1, CheckFeed
<1> QED BY <1>6, <1>7, <1>8, <1>9, <1>10 DEF RecvCallback

-----------------------------------------------------------------------------
\* The steps of the other threads.

\* What the matching engine says next is an update of its book, after which
\* it still has no order with an id that is yet to come.
LEMMA NextUpdateFacts ==
  ASSUME PublisherInv, NEW u \in NextUpdates, Publish(u)
  PROVE  /\ u \in Update
         /\ IsUpdate(history', Len(history), u)
         /\ next_order_id_' \in [Symbols -> Nat]
         /\ \A s \in Symbols, o \in OrderIds :
              o >= next_order_id_'[s] => history'[Len(history')][<<s, o>>] = 0
<1> DEFINE more == history'
           ids == next_order_id_'
           l == Len(history)
           resting == TheBook[<<u.symbol, u.order>>]
           next == After(TheBook, u)
<1>1. /\ history \in Seq(Books) /\ history # << >>
      /\ next_order_id_ \in [Symbols -> Nat]
      /\ \A s \in Symbols, o \in OrderIds : o >= next_order_id_[s] => TheBook[<<s, o>>] = 0
  BY DEF PublisherInv
<1>0. /\ more = Append(history, next)
      /\ ids = [next_order_id_ EXCEPT ![u.symbol] = @ + (IF u.type = "ADD" THEN 1 ELSE 0)]
  BY DEF Publish
<1> HIDE DEF more, ids
<1>2. l \in Nat \ {0}
  BY <1>1, EmptySeq
<1>3. TheBook \in Books
  <2>1. l \in 1 .. l
    BY <1>2
  <2> QED BY <2>1, <1>1, ElementOfSeq DEF TheBook
<1>4. /\ u.type \in {"ADD", "MODIFY", "CANCEL", "TRADE"}
      /\ u.symbol \in Symbols /\ u.order \in OrderIds /\ u.quantity \in 0 .. MaxQuantity
      /\ u = MakeUpdate(u.type, u.symbol, u.order, u.quantity)
      /\ \/ u.type = "ADD" /\ u.order = next_order_id_[u.symbol] /\ u.quantity > 0
         \/ u.type = "MODIFY" /\ 0 < u.quantity /\ u.quantity < resting
         \/ u.type \in {"CANCEL", "TRADE"} /\ u.quantity = 0 /\ resting > 0
  BY TypesAssumption DEF NextUpdates, MakeUpdate
<1>5. u.order \in Nat
  <2>1. \A o \in OrderIds : o \in Nat
    BY UpdatesAssumption
  <2> QED BY <2>1, <1>4, Zenon
<1>6. u \in Update
  <2>1. MakeUpdate(u.type, u.symbol, u.order, u.quantity) \in Update
    BY <1>4, <1>5 DEF MakeUpdate, Update, Types
  <2> QED BY <2>1, <1>4, Zenon
<1>7. /\ next \in Books
      /\ \A o \in Symbols \X OrderIds :
           next[o] = IF Touches(u, o) THEN QuantityIn(u) ELSE TheBook[o]
  BY <1>3, <1>6, AfterBook
<1>8. /\ more \in Seq(Books) /\ Len(more) = l + 1
      /\ \A i \in 1 .. l : more[i] = history[i]
      /\ more[l + 1] = next
  BY <1>0, <1>1, <1>7, OneBookMore
<1>9. more[l] = TheBook
  BY <1>2, <1>8 DEF TheBook
<1>10. resting \in 0 .. MaxQuantity /\ (u.type = "ADD" => resting = 0)
  <2>1. <<u.symbol, u.order>> \in Symbols \X OrderIds
    BY <1>4
  <2>2. resting \in 0 .. MaxQuantity
    BY <2>1, <1>3 DEF Books
  <2>3. u.type = "ADD" => u.order >= next_order_id_[u.symbol]
    BY <1>4, <1>5
  <2> HIDE DEF resting
  <2> QED BY <2>2, <2>3, <1>1, <1>4 DEF resting
<1> HIDE DEF next, l, resting
<1>11. u.type \in {"MODIFY", "CANCEL"} => resting > 0
  BY <1>4, <1>10, UpdatesAssumption
<1>12. IsUpdate(more, l, u)
  BY <1>2, <1>6, <1>8, <1>9, <1>10, <1>11 DEF IsUpdate, next, resting
<1>13. /\ ids \in [Symbols -> Nat]
       /\ \A s \in Symbols : ids[s] >= next_order_id_[s]
       /\ u.type = "ADD" => ids[u.symbol] = u.order + 1
  BY <1>0, <1>1, <1>4
<1>14. ASSUME NEW s \in Symbols, NEW o \in OrderIds, o >= ids[s]
       PROVE  next[<<s, o>>] = 0
  <2>1. o \in Nat
    BY UpdatesAssumption
  <2>2. o >= next_order_id_[s]
    BY <2>1, <1>1, <1>13, <1>14
  <2>3. TheBook[<<s, o>>] = 0
    BY <2>2, <1>1
  <2>4. CASE ~ Touches(u, <<s, o>>)
    BY <2>3, <2>4, <1>7
  <2>5. CASE Touches(u, <<s, o>>)
    <3>1. next[<<s, o>>] = QuantityIn(u)
      BY <2>5, <1>7
    <3>2. u.type \in {"ADD", "MODIFY", "CANCEL"} /\ s = u.symbol /\ o = u.order
      BY <2>5, <1>4 DEF Touches
    <3>3. resting = 0
      BY <2>3, <3>2 DEF resting
    <3>4. u.type # "ADD"
      BY <3>2, <2>1, <1>13, <1>14
    <3>5. u.type # "MODIFY"
      BY <3>3, <1>4
    <3> QED BY <3>1, <3>4, <3>5 DEF QuantityIn
  <2> QED BY <2>4, <2>5
<1>15. more[Len(more)] = next
  BY <1>8
<1> QED BY <1>6, <1>12, <1>13, <1>14, <1>15 DEF l, more, ids

\* What is from one book's updates and cycles is from a later book's.
LEMMA FromMore ==
  ASSUME NEW h, NEW more,
         \A n, u : IsUpdate(h, n, u) => IsUpdate(more, n, u),
         \A last, n, u : InCycle(h, last, n, u) => InCycle(more, last, n, u)
  PROVE  /\ \A datagram : FromUpdates(h, datagram) => FromUpdates(more, datagram)
         /\ \A c, datagram : FromCycle(h, c, datagram) => FromCycle(more, c, datagram)
BY DEF FromUpdates, FromCycle

\* The publisher takes an update from the matching engine.
LEMMA PublishStep ==
  ASSUME FeedInv, NEW u \in NextUpdates, Publish(u)
  PROVE  FeedInv'
<1> DEFINE l == Len(history)
           b == After(TheBook, u)
           message == Numbered(l, u)
<1>1. /\ PublisherInv /\ history \in Seq(Books) /\ history # << >>
      /\ l \in Nat \ {0} /\ TheBook \in Books
  <2>1. PublisherInv /\ history \in Seq(Books) /\ history # << >>
    BY DEF FeedInv, PublisherInv
  <2>2. l \in Nat \ {0}
    BY <2>1, EmptySeq
  <2>3. l \in 1 .. l
    BY <2>2
  <2> QED BY <2>1, <2>2, <2>3, ElementOfSeq DEF TheBook
<1>2. /\ history' = Append(history, b)
      /\ next_order_id_' = [next_order_id_ EXCEPT
                              ![u.symbol] = @ + (IF u.type = "ADD" THEN 1 ELSE 0)]
      /\ outbound' = Append(outbound, message)
      /\ snapshot_md_updates_' = Append(snapshot_md_updates_, message)
      /\ UNCHANGED <<consumerVars, synthesizerVars, networkVars>>
  BY Zenon DEF Publish, next_inc_seq_num_
<1>3. /\ UNCHANGED consumerVars
      /\ UNCHANGED <<in_recovery_, next_exp_inc_seq_num_, snapshot_queued_msgs_,
                     incremental_queued_msgs_, inbound, is_snapshot, book, version>>
      /\ UNCHANGED <<orders, last_inc_seq_num_, incrementalNet, snapshotNet>>
  BY <1>2 DEF consumerVars, synthesizerVars, networkVars
<1>4. /\ u \in Update
      /\ IsUpdate(history', l, u)
      /\ next_order_id_' \in [Symbols -> Nat]
      /\ \A s \in Symbols, o \in OrderIds :
           o >= next_order_id_'[s] => history'[Len(history')][<<s, o>>] = 0
  BY <1>1, NextUpdateFacts
<1>5. b \in Books
  BY <1>1, <1>4, AfterBook
<1>6. /\ history' \in Seq(Books) /\ Len(history') = l + 1
      /\ \A i \in 1 .. l : history'[i] = history[i]
      /\ \A n, v : IsUpdate(history, n, v) => IsUpdate(history', n, v)
      /\ \A last, n, v : InCycle(history, last, n, v) => InCycle(history', last, n, v)
  BY <1>1, <1>2, <1>5, OneBookMore
<1>7. /\ \A datagram : FromUpdates(history, datagram) => FromUpdates(history', datagram)
      /\ \A c, datagram : FromCycle(history, c, datagram) => FromCycle(history', c, datagram)
  BY <1>6, FromMore
<1>8. message \in Message /\ message.seq = l /\ message.update = u
  BY <1>1, <1>4 DEF Numbered, Message
<1> HIDE DEF message, l, b
<1>9. IInv'
  BY <1>3, Step DEF FeedInv
<1>10. PublisherInv'
  <2>1. FromUpdates(history, outbound)
    BY DEF FeedInv, PublisherInv
  <2>2. FromUpdates(history', outbound')
    BY <2>1, <1>2, <1>4, <1>7, <1>8, UpdatesAppend
  <2>3. \A datagram \in incrementalNet' : FromUpdates(history', datagram)
    BY <1>3, <1>7 DEF FeedInv, PublisherInv
  <2>4. history' # << >>
    <3>1. Len(history') # 0
      BY <1>1, <1>6
    <3>2. Len(<< >>) = 0
      OBVIOUS
    <3> QED BY <3>1, <3>2
  <2> QED BY <2>2, <2>3, <2>4, <1>4, <1>6 DEF PublisherInv, TheBook
<1>11. SynthesizerInv'
  <2> DEFINE queue == snapshot_md_updates_
  <2>1. /\ last_inc_seq_num_ \in Nat /\ FromUpdates(history, queue)
        /\ last_inc_seq_num_ + Len(queue) + 1 = l
        /\ orders = history[last_inc_seq_num_ + 1]
        /\ \A i \in 1 .. Len(queue) : queue[i].seq = last_inc_seq_num_ + i
    BY DEF FeedInv, SynthesizerInv, l
  <2>2. /\ FromUpdates(history', queue') /\ Len(queue') = Len(queue) + 1 /\ Len(queue) \in Nat
        /\ \A i \in 1 .. Len(queue) : queue'[i] = queue[i]
        /\ queue'[Len(queue) + 1] = message
    BY <2>1, <1>2, <1>4, <1>7, <1>8, UpdatesAppend
  <2>3. orders' = history'[last_inc_seq_num_' + 1]
    <3>1. last_inc_seq_num_ + 1 \in 1 .. l
      BY <2>1, <2>2
    <3> QED BY <3>1, <2>1, <1>3, <1>6
  <2>4. \A i \in 1 .. Len(queue') : queue'[i].seq = last_inc_seq_num_ + i
    BY <2>1, <2>2, <1>8
  <2>5. last_inc_seq_num_ + Len(queue') + 1 = Len(history')
    BY <2>1, <2>2, <1>6
  <2> QED BY <2>1, <2>2, <2>3, <2>4, <2>5, <1>3 DEF SynthesizerInv
<1>12. SnapshotInv'
  <2>1. PICK c \in Nat : FromCycleOf(c)
    BY DEF FeedInv, SnapshotInv
  <2>2. CycleQueue(history', c, snapshot_queued_msgs_)
    BY <2>1, <1>6, CycleQueueLater DEF FromCycleOf
  <2>3. FromCycleOf(c)'
    BY <2>1, <2>2, <1>3, <1>7 DEF FromCycleOf
  <2>4. snapshotNet' \in Seq(Datagrams)
    BY <1>3 DEF FeedInv, SnapshotInv
  <2> QED BY <2>3, <2>4 DEF SnapshotInv
<1>13. ClientInv'
  <2>1. /\ ~ is_snapshot => FromUpdates(history, inbound)
        /\ \A n \in DOMAIN incremental_queued_msgs_ :
             IsUpdate(history, n, incremental_queued_msgs_[n])
        /\ version < l /\ book = history[version + 1] /\ version \in Nat
    BY DEF FeedInv, ClientInv, IInv, Typed, l
  <2>2. version + 1 \in 1 .. l
    BY <2>1, <1>1
  <2>3. book' = history'[version' + 1] /\ version' < Len(history')
    BY <2>1, <2>2, <1>1, <1>3, <1>6
  <2> QED BY <2>1, <2>3, <1>3, <1>6, <1>7 DEF ClientInv
<1> QED BY <1>9, <1>10, <1>11, <1>12, <1>13 DEF FeedInv

\* The synthesizer takes an update from the publisher.
LEMMA AddtoSnapshotStep ==
  ASSUME FeedInv, AddtoSnapshot
  PROVE  FeedInv' /\ version' = version /\ book' = book /\ history' = history
<1> DEFINE queue == snapshot_md_updates_
           u == Head(queue).update
<1>1. /\ queue # << >> /\ queue' = Tail(queue)
      /\ orders' = After(orders, u) /\ last_inc_seq_num_' = Head(queue).seq
      /\ UNCHANGED <<consumerVars, history, next_order_id_, outbound, networkVars>>
  BY Zenon DEF AddtoSnapshot
<1>2. /\ UNCHANGED consumerVars
      /\ UNCHANGED <<in_recovery_, next_exp_inc_seq_num_, snapshot_queued_msgs_,
                     incremental_queued_msgs_, inbound, is_snapshot, book, version>>
      /\ UNCHANGED <<history, next_order_id_, outbound, incrementalNet, snapshotNet>>
  BY <1>1 DEF consumerVars, networkVars
<1>3. /\ last_inc_seq_num_ \in Nat /\ FromUpdates(history, queue)
      /\ last_inc_seq_num_ + Len(queue) + 1 = Len(history)
      /\ orders = history[last_inc_seq_num_ + 1]
      /\ \A i \in 1 .. Len(queue) : queue[i].seq = last_inc_seq_num_ + i
  BY DEF FeedInv, SynthesizerInv
<1>4. /\ Head(queue) \in Message /\ queue[1] = Head(queue)
      /\ IsUpdate(history, Head(queue).seq, u)
      /\ FromUpdates(history, queue')
      /\ Len(queue) \in Nat \ {0} /\ Len(queue') = Len(queue) - 1
      /\ \A i \in 1 .. Len(queue') : queue'[i] = queue[i + 1]
  BY <1>1, <1>3, UpdatesTail
<1> HIDE DEF u
<1>5. last_inc_seq_num_' = last_inc_seq_num_ + 1
  BY <1>1, <1>3, <1>4
<1>6. IInv'
  BY <1>2, Step DEF FeedInv
<1>7. PublisherInv'
  BY <1>2 DEF FeedInv, PublisherInv, TheBook
<1>8. SynthesizerInv'
  <2>1. history[last_inc_seq_num_ + 2] = orders'
    <3>1. IsUpdate(history, last_inc_seq_num_ + 1, u)
      BY <1>1, <1>4, <1>5
    <3>2. history[(last_inc_seq_num_ + 1) + 1] = After(history[last_inc_seq_num_ + 1], u)
      BY <3>1 DEF IsUpdate
    <3> QED BY <3>2, <1>1, <1>3
  <2>2. \A i \in 1 .. Len(queue') : queue'[i].seq = last_inc_seq_num_' + i
    <3> SUFFICES ASSUME NEW i \in 1 .. Len(queue')
                 PROVE  queue'[i].seq = last_inc_seq_num_' + i
      OBVIOUS
    <3>1. i + 1 \in 1 .. Len(queue) /\ queue'[i] = queue[i + 1]
      BY <1>4
    <3>2. queue[i + 1].seq = last_inc_seq_num_ + (i + 1)
      BY <3>1, <1>3
    <3> QED BY <3>1, <3>2, <1>3, <1>5
  <2>3. last_inc_seq_num_' + Len(queue') + 1 = Len(history)
    BY <1>3, <1>4, <1>5
  <2> QED BY <2>1, <2>2, <2>3, <1>2, <1>3, <1>4, <1>5 DEF SynthesizerInv
<1>9. SnapshotInv'
  <2>1. PICK c \in Nat : FromCycleOf(c)
    BY DEF FeedInv, SnapshotInv
  <2>2. FromCycleOf(c)'
    BY <2>1, <1>2, <1>3, <1>5 DEF FromCycleOf
  <2> QED BY <2>2, <1>2 DEF FeedInv, SnapshotInv
<1>10. ClientInv'
  BY <1>2 DEF FeedInv, ClientInv
<1> QED BY <1>2, <1>6, <1>7, <1>8, <1>9, <1>10 DEF FeedInv

\* The datagrams of a cycle are made of the messages of the cycle.
LEMMA CycleDatagrams ==
  ASSUME NEW h \in Seq(Books), NEW last \in Nat, last < Len(h),
         NEW updates, updates = SnapshotUpdates(h[last + 1], last)
  PROVE  LET datagrams == SnapshotDatagrams(updates)
         IN  /\ datagrams \in Seq(Datagrams)
             /\ \A k \in 1 .. Len(datagrams) : FromCycle(h, last, datagrams[k])
<1> DEFINE n == EndOf(h[last + 1])
           F == Flushed(updates)
           f == Cardinality(F)
           ends == FlushedInOrder(updates)
           messages == [i \in DOMAIN updates |-> Numbered(i - 1, updates[i])]
           start(k) == IF k = 1 THEN 1 ELSE ends[k - 1] + 1
           piece(k) == SubSeq(messages, start(k), ends[k])
           R == {p \in F \X F : p[1] < p[2]}
<1>1. h[last + 1] \in Books
  <2>1. last + 1 \in 1 .. Len(h)
    BY LenProperties
  <2> QED BY <2>1, ElementOfSeq
<1>2. n \in Nat /\ DOMAIN updates = 1 .. n /\ \A i \in 1 .. n : updates[i] \in Update
  <2>1. updates \in Seq(Update) /\ Len(updates) = n
    BY <1>1, CycleFacts
  <2> QED BY <2>1, LenProperties
<1>3. /\ F \in SUBSET (1 .. n) /\ IsFiniteSet(F) /\ f \in Nat
  <2>1. F \in SUBSET (1 .. n)
    BY <1>2 DEF Flushed
  <2>2. IsFiniteSet(1 .. n)
    BY <1>2, FS_Interval
  <2> QED BY <2>1, <2>2, FS_Subset, FS_CardinalityType
<1> HIDE DEF n, F
<1>4. ends \in [1 .. f -> F] /\ \A i, j \in 1 .. f : i < j => ends[i] < ends[j]
  <2>1. ASSUME NEW T \in SUBSET F, T # {}
        PROVE  \E m \in T : \A x \in T \ {m} : <<m, x>> \in R
    <3>1. T \in SUBSET Nat
      BY <1>2, <1>3
    <3>2. PICK m \in T : \A x \in T : m <= x
      BY <2>1, <3>1, LeastExists, Zenon
    <3> QED BY <3>1, <3>2
  <2>2. \E q \in [1 .. f -> F] : \A i, j \in 1 .. f : i < j => <<q[i], q[j]>> \in R
    <3> HIDE DEF R
    <3> QED BY <2>1, <1>3, Enumerable
  <2>3. \A x, y : <<x, y>> \in R => x < y
    OBVIOUS
  <2> HIDE DEF R
  <2>4. \E q \in [1 .. f -> F] : \A i, j \in DOMAIN q : i < j => q[i] < q[j]
    BY <2>2, <2>3
  <2>5. ends \in [1 .. f -> F] /\ \A i, j \in DOMAIN ends : i < j => ends[i] < ends[j]
    BY <2>4, Zenon DEF FlushedInOrder, F
  <2> HIDE DEF ends
  <2> QED BY <2>5
<1> HIDE DEF f, ends, R
<1>5. \A i \in 1 .. n : /\ messages[i] \in Message
                        /\ messages[i].seq = i - 1 /\ messages[i].update = updates[i]
  BY <1>2 DEF Numbered, Message
<1>6. \A i \in 1 .. n : InCycle(h, last, i - 1, updates[i])
  <2> SUFFICES ASSUME NEW i \in 1 .. n PROVE InCycle(h, last, i - 1, updates[i])
    OBVIOUS
  <2>1. i - 1 \in Nat /\ (i - 1) + 1 = i /\ i <= n
    BY <1>2
  <2> QED BY <2>1 DEF InCycle, n
<1> HIDE DEF messages
<1>7. ASSUME NEW k \in 1 .. f PROVE FromCycle(h, last, piece(k))
  <2> DEFINE from == start(k)
             to == ends[k]
             datagram == SubSeq(messages, from, to)
  <2>1. to \in 1 .. n
    BY <1>3, <1>4
  <2>2. from \in 1 .. to
    <3>1. CASE k = 1
      BY <3>1, <2>1, <1>2
    <3>2. CASE k # 1
      <4>1. k - 1 \in 1 .. f /\ k - 1 < k
        BY <3>2, <1>3
      <4>2. ends[k - 1] < ends[k] /\ ends[k - 1] \in 1 .. n
        BY <4>1, <1>3, <1>4
      <4> QED BY <4>2, <3>2, <2>1, <1>2
    <3> QED BY <3>1, <3>2
  <2> HIDE DEF from, to
  <2>3. /\ from \in Int /\ to \in Int /\ from <= to
        /\ \A i \in from .. to : i \in 1 .. n /\ messages[i] \in Message
    BY <2>1, <2>2, <1>2, <1>5
  <2>4. /\ datagram \in Seq(Message) /\ Len(datagram) = to - from + 1
        /\ \A i \in 1 .. to - from + 1 : datagram[i] = messages[from + i - 1]
    BY <2>3, SubSeqProperties
  <2> HIDE DEF datagram
  <2>5. ASSUME NEW i \in 1 .. Len(datagram)
        PROVE  InCycle(h, last, datagram[i].seq, datagram[i].update)
    <3>1. from + i - 1 \in 1 .. n /\ datagram[i] = messages[from + i - 1]
      BY <2>3, <2>4
    <3> QED BY <3>1, <1>5, <1>6
  <2>6. FromCycle(h, last, datagram)
    BY <2>4, <2>5 DEF FromCycle, Datagrams
  <2> QED BY <2>6 DEF datagram, from, to
<1>8. SnapshotDatagrams(updates) = [k \in 1 .. f |-> piece(k)]
  <2>1. DOMAIN ends = 1 .. f
    BY <1>4
  <2> QED BY <2>1 DEF SnapshotDatagrams, messages, ends
<1> HIDE DEF piece
<1>9. [k \in 1 .. f |-> piece(k)] \in [1 .. f -> Datagrams]
  BY <1>7 DEF FromCycle
<1>10. /\ [k \in 1 .. f |-> piece(k)] \in Seq(Datagrams)
       /\ Len([k \in 1 .. f |-> piece(k)]) = f
  BY <1>3, <1>9, SeqDef, LenProperties
<1> QED BY <1>7, <1>8, <1>10

\* The synthesizer sends a cycle of its book.
LEMMA PublishSnapshotStep ==
  ASSUME FeedInv, PublishSnapshot, inbound = << >>
  PROVE  FeedInv' /\ version' = version /\ book' = book /\ history' = history
<1> DEFINE c == last_inc_seq_num_
<1>1. /\ UNCHANGED <<consumerVars, exchangeVars, synthesizerVars, incrementalNet>>
      /\ snapshotNet' = SnapshotDatagrams(SnapshotUpdates(orders, c))
  BY Zenon DEF PublishSnapshot
<1>2. /\ UNCHANGED consumerVars
      /\ UNCHANGED <<in_recovery_, next_exp_inc_seq_num_, snapshot_queued_msgs_,
                     incremental_queued_msgs_, inbound, is_snapshot, book, version>>
      /\ UNCHANGED <<history, next_order_id_, outbound, snapshot_md_updates_,
                     orders, last_inc_seq_num_, incrementalNet>>
  BY <1>1 DEF consumerVars, exchangeVars, synthesizerVars
<1>3. /\ history \in Seq(Books) /\ c \in Nat /\ c < Len(history) /\ orders = history[c + 1]
  <2>1. /\ history \in Seq(Books) /\ c \in Nat /\ orders = history[c + 1]
        /\ snapshot_md_updates_ \in Seq(Message)
        /\ c + Len(snapshot_md_updates_) + 1 = Len(history)
    BY DEF FeedInv, PublisherInv, SynthesizerInv, FromUpdates, Datagrams
  <2>2. Len(snapshot_md_updates_) \in Nat
    BY <2>1, LenProperties
  <2> QED BY <2>1, <2>2
<1>4. /\ snapshotNet' \in Seq(Datagrams)
      /\ \A k \in 1 .. Len(snapshotNet') : FromCycle(history, c, snapshotNet'[k])
  BY <1>1, <1>3, CycleDatagrams
<1>5. FromCycle(history, c, << >>)
  BY DEF FromCycle, Datagrams
<1>6. PICK d \in Nat : FromCycleOf(d)
  BY DEF FeedInv, SnapshotInv
<1>7. CycleQueue(history, c, snapshot_queued_msgs_)
  BY <1>3, <1>6, CycleQueueLater DEF FromCycleOf
<1>8. FromCycleOf(c)'
  BY <1>2, <1>3, <1>4, <1>5, <1>7 DEF FromCycleOf
<1>9. SnapshotInv'
  BY <1>2, <1>3, <1>4, <1>8 DEF SnapshotInv
<1>10. IInv'
  BY <1>2, Step DEF FeedInv
<1>11. PublisherInv' /\ SynthesizerInv' /\ ClientInv'
  BY <1>2 DEF FeedInv, PublisherInv, TheBook, SynthesizerInv, ClientInv
<1> QED BY <1>2, <1>9, <1>10, <1>11 DEF FeedInv

\* The network and the sockets hand on what they were given, and change
\* nothing else.
Transport ==
  /\ UNCHANGED <<history, next_order_id_, snapshot_md_updates_, orders, last_inc_seq_num_,
                 in_recovery_, next_exp_inc_seq_num_, snapshot_queued_msgs_,
                 incremental_queued_msgs_, book, version>>
  /\ FromUpdates(history, outbound')
  /\ \A datagram \in incrementalNet' : FromUpdates(history, datagram)
  /\ snapshotNet' \in Seq(Datagrams)
  /\ \A i \in 1 .. Len(snapshotNet') :
       \E j \in 1 .. Len(snapshotNet) : snapshotNet'[i] = snapshotNet[j]
  /\ \/ UNCHANGED <<inbound, is_snapshot>>
     \/ is_snapshot' = FALSE /\ FromUpdates(history, inbound')
     \/ /\ is_snapshot' = TRUE
        /\ \E j \in 1 .. Len(snapshotNet) : inbound' = snapshotNet[j]

\* Whatever is handed on is an update of the exchange's or of the cycle sent.
LEMMA TransportStep ==
  ASSUME FeedInv, Transport
  PROVE  FeedInv' /\ version' = version /\ book' = book /\ history' = history
<1>1. UNCHANGED <<history, next_order_id_, snapshot_md_updates_, orders, last_inc_seq_num_,
                  in_recovery_, next_exp_inc_seq_num_, snapshot_queued_msgs_,
                  incremental_queued_msgs_, book, version>>
  BY DEF Transport
<1>2. PICK c \in Nat : FromCycleOf(c)
  BY DEF FeedInv, SnapshotInv
<1>3. \A j \in 1 .. Len(snapshotNet) : FromCycle(history, c, snapshotNet[j])
  BY <1>2 DEF FromCycleOf
<1>4. /\ is_snapshot' \in BOOLEAN
      /\ is_snapshot' => FromCycle(history, c, inbound')
      /\ ~ is_snapshot' => FromUpdates(history, inbound')
  <2>1. CASE UNCHANGED <<inbound, is_snapshot>>
    BY <2>1, <1>2 DEF FeedInv, IInv, Typed, FromCycleOf, ClientInv
  <2>2. CASE is_snapshot' = FALSE /\ FromUpdates(history, inbound')
    BY <2>2
  <2>3. CASE /\ is_snapshot' = TRUE
             /\ \E j \in 1 .. Len(snapshotNet) : inbound' = snapshotNet[j]
    BY <2>3, <1>3
  <2> QED BY <2>1, <2>2, <2>3 DEF Transport
<1>5. inbound' \in Datagrams
  BY <1>4 DEF FromCycle, FromUpdates
<1>6. IInv'
  BY <1>1, <1>4, <1>5
     DEF FeedInv, IInv, Typed, NextExpectedExact, RecoveryIsAhead, NoneQueuedOutside
<1>7. PublisherInv'
  BY <1>1 DEF Transport, FeedInv, PublisherInv, TheBook
<1>8. SynthesizerInv' /\ ClientInv'
  BY <1>1, <1>4 DEF FeedInv, SynthesizerInv, ClientInv
<1>9. SnapshotInv'
  <2>1. \A i \in 1 .. Len(snapshotNet') : FromCycle(history, c, snapshotNet'[i])
    BY <1>3 DEF Transport
  <2>2. FromCycleOf(c)'
    BY <2>1, <1>1, <1>2, <1>4 DEF FromCycleOf
  <2> QED BY <2>2 DEF Transport, SnapshotInv
<1> QED BY <1>1, <1>6, <1>7, <1>8, <1>9 DEF FeedInv

\* Every action of the network and its sockets is transport.
LEMMA NetworkStep ==
  ASSUME FeedInv,
         \/ SendIncrementals \/ ReceiveIncremental \/ ReceiveSnapshot
         \/ LoseIncremental \/ RepeatIncremental
         \/ LoseSnapshot \/ RepeatSnapshot \/ ReorderSnapshots
  PROVE  Transport
<1> DEFINE same == UNCHANGED <<history, next_order_id_, snapshot_md_updates_, orders,
                               last_inc_seq_num_, in_recovery_, next_exp_inc_seq_num_,
                               snapshot_queued_msgs_, incremental_queued_msgs_,
                               book, version>>
           from(net) == /\ net \in Seq(Datagrams)
                        /\ \A i \in 1 .. Len(net) :
                             \E j \in 1 .. Len(snapshotNet) : net[i] = snapshotNet[j]
           handed == \/ UNCHANGED <<inbound, is_snapshot>>
                     \/ is_snapshot' = FALSE /\ FromUpdates(history, inbound')
                     \/ /\ is_snapshot' = TRUE
                        /\ \E j \in 1 .. Len(snapshotNet) : inbound' = snapshotNet[j]
<1>1. /\ FromUpdates(history, outbound)
      /\ \A datagram \in incrementalNet : FromUpdates(history, datagram)
      /\ snapshotNet \in Seq(Datagrams) /\ Len(snapshotNet) \in Nat
      /\ FromUpdates(history, << >>)
  BY LenProperties DEF FeedInv, PublisherInv, SnapshotInv, FromUpdates, Datagrams
<1>2. from(snapshotNet)
  BY <1>1
<1>3. ASSUME snapshotNet # << >>
      PROVE  /\ 1 \in 1 .. Len(snapshotNet) /\ Head(snapshotNet) = snapshotNet[1]
             /\ from(Tail(snapshotNet))
  <2>1. /\ Tail(snapshotNet) \in Seq(Datagrams)
        /\ Len(Tail(snapshotNet)) = Len(snapshotNet) - 1
        /\ \A i \in 1 .. Len(Tail(snapshotNet)) : Tail(snapshotNet)[i] = snapshotNet[i + 1]
    BY <1>1, <1>3, HeadTailProperties
  <2>2. Len(snapshotNet) \in Nat \ {0} /\ Head(snapshotNet) = snapshotNet[1]
    BY <1>1, <1>3, EmptySeq
  <2>3. \A i \in 1 .. Len(Tail(snapshotNet)) : i + 1 \in 1 .. Len(snapshotNet)
    BY <2>1, <2>2
  <2> QED BY <2>1, <2>2, <2>3
<1>4. SUFFICES /\ same /\ from(snapshotNet') /\ handed
               /\ FromUpdates(history, outbound')
               /\ \A datagram \in incrementalNet' : FromUpdates(history, datagram)
  BY Zenon DEF Transport
<1> HIDE DEF from
<1>5. CASE SendIncrementals
  BY <1>1, <1>2, <1>5 DEF SendIncrementals, consumerVars, synthesizerVars
<1>6. CASE ReceiveIncremental
  BY <1>1, <1>2, <1>6 DEF ReceiveIncremental, Receive, exchangeVars, synthesizerVars
<1>7. CASE ReceiveSnapshot
  <2>1. /\ snapshotNet # << >> /\ snapshotNet' = Tail(snapshotNet)
        /\ UNCHANGED <<exchangeVars, synthesizerVars, incrementalNet>>
        /\ Receive(Head(snapshotNet), TRUE) \/ UNCHANGED consumerVars
    BY <1>7 DEF ReceiveSnapshot
  <2> QED BY <2>1, <1>1, <1>3 DEF Receive, consumerVars, exchangeVars, synthesizerVars
<1>8. CASE LoseIncremental
  BY <1>1, <1>2, <1>8
     DEF LoseIncremental, Misbehave, consumerVars, exchangeVars, synthesizerVars
<1>9. CASE RepeatIncremental
  BY <1>1, <1>2, <1>9 DEF RepeatIncremental, Misbehave, Receive, exchangeVars, synthesizerVars
<1>10. CASE LoseSnapshot
  BY <1>1, <1>3, <1>10
     DEF LoseSnapshot, Misbehave, consumerVars, exchangeVars, synthesizerVars
<1>11. CASE RepeatSnapshot
  <2>1. /\ snapshotNet # << >> /\ Receive(Head(snapshotNet), TRUE)
        /\ UNCHANGED <<incrementalNet, snapshotNet, exchangeVars, synthesizerVars>>
    BY <1>11 DEF RepeatSnapshot, Misbehave
  <2> QED BY <2>1, <1>1, <1>2, <1>3 DEF Receive, exchangeVars, synthesizerVars
<1>12. CASE ReorderSnapshots
  <2> DEFINE two == <<snapshotNet[2], snapshotNet[1]>>
             rest == SubSeq(snapshotNet, 3, Len(snapshotNet))
             l == Len(snapshotNet)
  <2>1. /\ l > 1 /\ snapshotNet' = two \o rest
        /\ UNCHANGED <<consumerVars, incrementalNet, exchangeVars, synthesizerVars>>
    BY <1>12 DEF ReorderSnapshots, Misbehave
  <2>2. 1 \in 1 .. l /\ 2 \in 1 .. l
    BY <2>1, <1>1
  <2>3. snapshotNet[1] \in Datagrams /\ snapshotNet[2] \in Datagrams
    BY <2>2, <1>1, ElementOfSeq
  <2>4. /\ rest \in Seq(Datagrams) /\ Len(rest) = IF 3 <= l THEN l - 3 + 1 ELSE 0
        /\ \A i \in 1 .. l - 3 + 1 : rest[i] = snapshotNet[3 + i - 1]
    <3>1. \A i \in 3 .. l : snapshotNet[i] \in Datagrams
      <4>1. \A i \in 3 .. l : i \in 1 .. l
        BY <1>1
      <4> QED BY <4>1, <1>1, ElementOfSeq
    <3> QED BY <3>1, <1>1, SubSeqProperties
  <2>5. two \in Seq(Datagrams) /\ Len(two) = 2 /\ two[1] = snapshotNet[2] /\ two[2] = snapshotNet[1]
    BY <2>3
  <2> HIDE DEF two, rest, l
  <2>6. /\ two \o rest \in Seq(Datagrams) /\ Len(two \o rest) = 2 + Len(rest)
        /\ \A i \in 1 .. 2 + Len(rest) :
             (two \o rest)[i] = IF i <= 2 THEN two[i] ELSE rest[i - 2]
    <3>1. /\ two \o rest \in Seq(Datagrams) /\ Len(two \o rest) = Len(two) + Len(rest)
          /\ \A i \in 1 .. Len(two) + Len(rest) :
               (two \o rest)[i] = IF i <= Len(two) THEN two[i] ELSE rest[i - Len(two)]
      BY <2>4, <2>5, ConcatProperties
    <3> QED BY <3>1, <2>5
  <2>7. ASSUME NEW i \in 1 .. Len(two \o rest)
        PROVE  \E j \in 1 .. l : (two \o rest)[i] = snapshotNet[j]
    <3>1. CASE i <= 2
      <4>1. i = 1 \/ i = 2
        BY <3>1
      <4> QED BY <4>1, <2>2, <2>4, <2>5, <2>6, <2>7, <1>1 DEF l
    <3>2. CASE i > 2
      <4>1. i - 2 \in 1 .. l - 3 + 1 /\ i \in 1 .. l /\ 3 + (i - 2) - 1 = i
        BY <3>2, <2>4, <2>6, <1>1 DEF l
      <4>2. (two \o rest)[i] = rest[i - 2]
        BY <3>2, <2>6
      <4> QED BY <4>1, <4>2, <2>4
    <3> QED BY <3>1, <3>2
  <2>8. from(snapshotNet')
    BY <2>1, <2>6, <2>7 DEF from, l
  <2> QED BY <2>1, <2>8, <1>1 DEF consumerVars, exchangeVars, synthesizerVars
<1> QED BY <1>5, <1>6, <1>7, <1>8, <1>9, <1>10, <1>11, <1>12

-----------------------------------------------------------------------------
\* A callback of the consumer, with all else unchanged.
LEMMA ConsumeStep ==
  ASSUME FeedInv, Consume
  PROVE  /\ FeedInv' /\ history' = history
         /\ \/ version' = version /\ book' = book
            \/ version' \in version + 1 .. Len(history) - 1 /\ book' = history[version' + 1]
<1>1. /\ RecvCallback
      /\ UNCHANGED <<history, next_order_id_, outbound, snapshot_md_updates_,
                     orders, last_inc_seq_num_, incrementalNet, snapshotNet>>
  BY DEF Consume, exchangeVars, synthesizerVars, networkVars
<1>2. PICK c \in Nat : FromCycleOf(c)
  BY DEF FeedInv, SnapshotInv
<1>3. /\ is_snapshot' = is_snapshot
      /\ is_snapshot => FromCycle(history, c, inbound')
      /\ ~ is_snapshot => FromUpdates(history, inbound')
      /\ CycleQueue(history, c, snapshot_queued_msgs_')
      /\ \A n \in DOMAIN incremental_queued_msgs_' :
           IsUpdate(history, n, incremental_queued_msgs_'[n])
      /\ \/ version' = version /\ book' = book
         \/ version' \in version + 1 .. Len(history) - 1 /\ book' = history[version' + 1]
  BY <1>1, <1>2, CallbackFeed
<1>4. IInv'
  BY <1>1, Step DEF FeedInv, ConsumerNext
<1>5. PublisherInv' /\ SynthesizerInv'
  BY <1>1 DEF FeedInv, PublisherInv, SynthesizerInv, TheBook
<1>6. SnapshotInv'
  <2>1. FromCycleOf(c)'
    BY <1>1, <1>2, <1>3 DEF FromCycleOf
  <2> QED BY <2>1, <1>1 DEF FeedInv, SnapshotInv
<1>7. ClientInv'
  <2>1. /\ version \in Nat /\ version < Len(history) /\ book = history[version + 1]
        /\ history \in Seq(Books)
    BY DEF FeedInv, ClientInv, IInv, Typed, PublisherInv
  <2>2. Len(history) \in Nat
    BY <2>1, LenProperties
  <2>3. version' < Len(history) /\ book' = history[version' + 1]
    BY <2>1, <2>2, <1>3
  <2> QED BY <2>3, <1>1, <1>3 DEF ClientInv
<1> QED BY <1>1, <1>3, <1>4, <1>5, <1>6, <1>7 DEF FeedInv

\* Every step keeps the invariant and is one of the feed's, or none.
LEMMA FeedStep ==
  ASSUME FeedInv, [Next]_vars
  PROVE  FeedInv' /\ [Feed!Next]_(Feed!vars)
<1>1. ASSUME FeedInv', version' = version, book' = book, history' = history
      PROVE  FeedInv' /\ [Feed!Next]_(Feed!vars)
  BY <1>1 DEF Feed!vars
<1>2. CASE Consume
  <2>1. /\ FeedInv' /\ history' = history
        /\ \/ version' = version /\ book' = book
           \/ version' \in version + 1 .. Len(history) - 1 /\ book' = history[version' + 1]
    BY <1>2, ConsumeStep
  <2>2. CASE version' = version /\ book' = book
    BY <2>1, <2>2, <1>1
  <2>3. CASE version' \in version + 1 .. Len(history) - 1 /\ book' = history[version' + 1]
    <3>1. Feed!MoveOn
      BY <2>1, <2>3 DEF Feed!MoveOn
    <3> QED BY <2>1, <3>1 DEF Feed!Next
  <2> QED BY <2>1, <2>2, <2>3
<1>3. CASE \E u \in NextUpdates : Publish(u)
  <2>1. PICK u \in NextUpdates : Publish(u)
    BY <1>3
  <2>2. FeedInv'
    BY <2>1, PublishStep
  <2>3. /\ history' = Append(history, After(TheBook, u))
        /\ version' = version /\ book' = book
    BY <2>1 DEF Publish, consumerVars
  <2>4. After(TheBook, u) \in Books
    <3>1. u \in Update
      BY <2>1, NextUpdateFacts DEF FeedInv
    <3>2. history \in Seq(Books) /\ history # << >>
      BY DEF FeedInv, PublisherInv
    <3>3. Len(history) \in 1 .. Len(history)
      BY <3>2, EmptySeq
    <3>4. TheBook \in Books
      BY <3>2, <3>3, ElementOfSeq DEF TheBook
    <3> QED BY <3>1, <3>4, AfterBook
  <2>5. Feed!Publish
    BY <2>3, <2>4 DEF Feed!Publish
  <2> QED BY <2>2, <2>5 DEF Feed!Next
<1>4. CASE AddtoSnapshot
  BY <1>1, <1>4, AddtoSnapshotStep
<1>5. CASE PublishSnapshot /\ inbound = << >>
  BY <1>1, <1>5, PublishSnapshotStep
<1>6. CASE \/ SendIncrementals \/ ReceiveIncremental \/ ReceiveSnapshot
           \/ LoseIncremental \/ RepeatIncremental
           \/ LoseSnapshot \/ RepeatSnapshot \/ ReorderSnapshots
  BY <1>1, <1>6, NetworkStep, TransportStep
<1>7. CASE UNCHANGED vars
  <2>1. /\ UNCHANGED consumerVars
        /\ UNCHANGED <<in_recovery_, next_exp_inc_seq_num_, snapshot_queued_msgs_,
                       incremental_queued_msgs_, inbound, is_snapshot, book, version>>
        /\ UNCHANGED <<history, next_order_id_, outbound, snapshot_md_updates_,
                       orders, last_inc_seq_num_, incrementalNet, snapshotNet>>
    BY <1>7 DEF vars, consumerVars, exchangeVars, synthesizerVars, networkVars
  <2>2. IInv'
    BY <2>1, Step DEF FeedInv
  <2>3. PublisherInv' /\ SynthesizerInv' /\ SnapshotInv' /\ ClientInv'
    BY <2>1 DEF FeedInv, PublisherInv, TheBook, SynthesizerInv, SnapshotInv, FromCycleOf, ClientInv
  <2> QED BY <2>1, <2>2, <2>3, <1>1 DEF FeedInv
<1> QED BY <1>2, <1>3, <1>4, <1>5, <1>6, <1>7, Zenon DEF Next, Elsewhere

\* The invariant holds at the start, where the feed starts too.
LEMMA FeedStart == Init => FeedInv /\ Feed!Init
<1> SUFFICES ASSUME Init PROVE FeedInv /\ Feed!Init
  OBVIOUS
<1>1. /\ ConsumerInit
      /\ history = <<EmptyBook>>
      /\ next_order_id_ = [s \in Symbols |-> 1]
      /\ outbound = << >> /\ snapshot_md_updates_ = << >>
      /\ orders = EmptyBook /\ last_inc_seq_num_ = 0
      /\ incrementalNet = {} /\ snapshotNet = << >>
  BY Zenon DEF Init
<1>2. /\ ~ is_snapshot /\ inbound = << >> /\ book = EmptyBook /\ version = 0
      /\ snapshot_queued_msgs_ = Empty /\ incremental_queued_msgs_ = Empty
  BY <1>1, Zenon DEF ConsumerInit
<1>3. EmptyBook \in Books
  BY UpdatesAssumption DEF EmptyBook, Books
<1>4. /\ history \in Seq(Books) /\ history # << >> /\ Len(history) = 1
      /\ history[1] = EmptyBook
  BY <1>1, <1>3
<1>5. FromUpdates(history, << >>) /\ FromCycle(history, 0, << >>)
  BY DEF FromUpdates, FromCycle, Datagrams
<1>6. IInv
  BY <1>1, Start
<1>7. PublisherInv
  <2>1. \A s \in Symbols, o \in OrderIds : TheBook[<<s, o>>] = 0
    BY <1>4 DEF TheBook, EmptyBook
  <2> QED BY <2>1, <1>1, <1>4, <1>5 DEF PublisherInv
<1>8. SynthesizerInv
  <2>1. Len(snapshot_md_updates_) = 0
    BY <1>1
  <2> QED BY <2>1, <1>1, <1>4, <1>5 DEF SynthesizerInv
<1>9. SnapshotInv
  <2>1. Len(snapshotNet) = 0 /\ snapshotNet \in Seq(Datagrams)
    BY <1>1
  <2>2. CycleQueue(history, 0, snapshot_queued_msgs_)
    BY <1>2, EmptyQueue DEF CycleQueue
  <2>3. FromCycleOf(0)
    BY <2>1, <2>2, <1>1, <1>2 DEF FromCycleOf
  <2> QED BY <2>1, <2>3 DEF SnapshotInv
<1>10. ClientInv
  <2>1. \A n \in DOMAIN incremental_queued_msgs_ :
          IsUpdate(history, n, incremental_queued_msgs_[n])
    BY <1>2, EmptyQueue
  <2> QED BY <2>1, <1>2, <1>4, <1>5 DEF ClientInv
<1>11. Feed!Init
  BY <1>1, <1>2, <1>3 DEF Feed!Init
<1> QED BY <1>6, <1>7, <1>8, <1>9, <1>10, <1>11 DEF FeedInv

\* The invariant always holds.
LEMMA FeedInvariant == Spec => []FeedInv
<1>1. FeedInv /\ [Next]_vars => FeedInv'
  BY FeedStep
<1>2. Init => FeedInv
  BY FeedStart
<1> QED BY <1>1, <1>2, PTL DEF Spec

-----------------------------------------------------------------------------
\* The client's market data is what MarketDataFeed promises: whatever the
\* network loses, repeats or reorders, the book is always one that the exchange
\* has had and never an earlier one than before.
THEOREM FeedImplemented == Spec => ImplementsFeed
<1>1. FeedInv /\ [Next]_vars => [Feed!Next]_(Feed!vars)
  BY FeedStep
<1>2. Init => Feed!Init
  BY FeedStart
<1> QED BY <1>1, <1>2, FeedInvariant, PTL DEF Spec, ImplementsFeed, Feed!Spec

\* The book in every snapshot is the one of the number stamped on it, and the
\* assertions of AddtoSnapshot hold.
THEOREM SynthesizerCorrect == Spec => []SynthesizerExact
<1>1. FeedInv => SynthesizerExact
  <2> SUFFICES ASSUME FeedInv PROVE SynthesizerExact
    OBVIOUS
  <2>1. /\ last_inc_seq_num_ \in Nat /\ FromUpdates(history, snapshot_md_updates_)
        /\ orders = history[last_inc_seq_num_ + 1]
        /\ \A i \in 1 .. Len(snapshot_md_updates_) :
             snapshot_md_updates_[i].seq = last_inc_seq_num_ + i
    BY DEF FeedInv, SynthesizerInv
  <2>2. ASSUME snapshot_md_updates_ # << >>
        PROVE  LET next == Head(snapshot_md_updates_)
                   u == next.update
               IN /\ next.seq = last_inc_seq_num_ + 1
                  /\ u.type = "ADD" => orders[<<u.symbol, u.order>>] = 0
                  /\ u.type \in {"MODIFY", "CANCEL"} => orders[<<u.symbol, u.order>>] > 0
    <3> DEFINE next == Head(snapshot_md_updates_)
    <3>1. /\ snapshot_md_updates_[1] = next /\ IsUpdate(history, next.seq, next.update)
          /\ Len(snapshot_md_updates_) \in Nat \ {0}
      BY <2>1, <2>2, UpdatesTail
    <3> HIDE DEF next
    <3>2. next.seq = last_inc_seq_num_ + 1
      BY <2>1, <3>1
    <3> QED BY <2>1, <3>1, <3>2 DEF IsUpdate, next
  <2> QED BY <2>1, <2>2 DEF SynthesizerExact
<1> QED BY <1>1, FeedInvariant, PTL

\* What the sockets deliver here is what MarketDataConsumer allows them to, so
\* that all that is proved of the consumer on its own holds in the system.
THEOREM ConsumerInFeed == Spec => ConsumerSpec
<1>1. Init => ConsumerInit
  BY DEF Init
<1>2. FeedInv /\ [Next]_vars => [ConsumerNext]_consumerVars
  <2> SUFFICES ASSUME FeedInv, [Next]_vars PROVE [ConsumerNext]_consumerVars
    OBVIOUS
  <2>1. /\ snapshotNet \in Seq(Datagrams)
        /\ \A datagram \in incrementalNet : datagram \in Datagrams
    BY DEF FeedInv, PublisherInv, SnapshotInv, FromUpdates
  <2>2. snapshotNet # << >> => Head(snapshotNet) \in Datagrams
    BY <2>1, HeadTailProperties
  <2>3. CASE Consume
    BY <2>3 DEF Consume, ConsumerNext
  <2>4. CASE ReceiveIncremental \/ RepeatIncremental
    BY <2>1, <2>4 DEF ReceiveIncremental, RepeatIncremental, ConsumerNext
  <2>5. CASE ReceiveSnapshot \/ RepeatSnapshot
    BY <2>2, <2>5 DEF ReceiveSnapshot, RepeatSnapshot, ConsumerNext
  <2>6. CASE UNCHANGED consumerVars
    BY <2>6
  <2>7. \/ Consume \/ ReceiveIncremental \/ RepeatIncremental
        \/ ReceiveSnapshot \/ RepeatSnapshot \/ UNCHANGED consumerVars
    <3>1. CASE \E u \in NextUpdates : Publish(u)
      BY <3>1 DEF Publish
    <3>2. CASE SendIncrementals \/ AddtoSnapshot \/ PublishSnapshot
      BY <3>2, Zenon DEF SendIncrementals, AddtoSnapshot, PublishSnapshot, consumerVars
    <3>3. CASE LoseIncremental \/ LoseSnapshot \/ ReorderSnapshots
      BY <3>3, Zenon DEF LoseIncremental, LoseSnapshot, ReorderSnapshots, consumerVars
    <3>4. CASE UNCHANGED vars
      BY <3>4 DEF vars
    <3> QED BY <3>1, <3>2, <3>3, <3>4, Zenon DEF Next, Elsewhere
  <2> QED BY <2>3, <2>4, <2>5, <2>6, <2>7
<1> QED BY <1>1, <1>2, FeedInvariant, PTL DEF Spec, ConsumerSpec

\* In the system as a whole the consumer expects the number after its book, a
\* recovery is about something the book does not have, and what is queued is
\* kept until the book has it.
THEOREM ConsumerCorrect ==
  Spec => []NextExpectedExact /\ []RecoveryIsAhead /\ NothingQueuedForgotten
BY ConsumerInFeed, NextExpectedCorrect, RecoveryAhead, QueuedKept, PTL
=============================================================================
