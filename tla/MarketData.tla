----------------------------- MODULE MarketData -----------------------------
(***************************************************************************)
(* From the matching engine's updates to the client's book:                *)
(*   - market_data_publisher.cc numbers the updates, multicasts them, many *)
(*     in one datagram when they come in a burst, and hands them on to     *)
(*   - snapshot_synthesizer.cc, on a thread of its own, which keeps the    *)
(*     book and multicasts the whole of it every minute;                   *)
(*   - mcast_socket.cpp and the network lose, repeat and reorder           *)
(*     datagrams;                                                          *)
(*   - MarketDataConsumer puts the two streams together again.             *)
(***************************************************************************)
EXTENDS MarketDataConsumer

CONSTANTS UpdateTypes, \* bound of the model: the kinds of updates published
          MaxFaults    \* bound of the model: datagrams lost, repeated, reordered
ASSUME FaultsAssumption == MaxFaults \in Nat
ASSUME TypesAssumption == UpdateTypes \subseteq {"ADD", "MODIFY", "CANCEL", "TRADE"}

VARIABLES
  history,           \* history: the exchange's books, one more each update
  next_order_id_,    \* of each symbol: the matching engine's next order id
  outbound,          \* the send buffer of the incremental socket
  snapshot_md_updates_, \* the queue from the publisher to the synthesizer
  orders,            \* symbol_orders_: the synthesizer's book
  last_inc_seq_num_, \* of the updates in it
  incrementalNet,    \* datagrams on their way, in any order
  snapshotNet,       \* datagrams on their way, oldest first
  faults             \* how many times the network has misbehaved

exchangeVars == <<history, next_order_id_, outbound, snapshot_md_updates_>>
synthesizerVars == <<orders, last_inc_seq_num_>>
networkVars == <<incrementalNet, snapshotNet, faults>>
vars == <<consumerVars, exchangeVars, synthesizerVars, networkVars>>

Init == /\ ConsumerInit
        /\ history = <<EmptyBook>>
        /\ next_order_id_ = [s \in Symbols |-> 1]
        /\ outbound = << >>
        /\ snapshot_md_updates_ = << >>
        /\ orders = EmptyBook
        /\ last_inc_seq_num_ = 0
        /\ incrementalNet = {}
        /\ snapshotNet = << >>
        /\ faults = 0

TheBook == history[Len(history)]
next_inc_seq_num_ == Len(history)

-----------------------------------------------------------------------------
\* The publisher's thread.

\* What BookCore can say next of its book (MatchFill, AddRest, Cancel).
NextUpdates ==
  {u \in {MakeUpdate(type, s, o, q) : type \in UpdateTypes, s \in Symbols,
                                      o \in OrderIds, q \in 0 .. MaxQuantity} :
     LET resting == TheBook[<<u.symbol, u.order>>]
     IN \/ u.type = "ADD" /\ u.order = next_order_id_[u.symbol] /\ u.quantity > 0
        \/ u.type = "MODIFY" /\ 0 < u.quantity /\ u.quantity < resting
        \/ u.type \in {"CANCEL", "TRADE"} /\ u.quantity = 0 /\ resting > 0}

\* One turn of the loop of run(): the update joins the send buffer and the
\* synthesizer's queue.
Publish(u) ==
  LET numbered == Numbered(next_inc_seq_num_, u)
  IN /\ next_inc_seq_num_ <= MaxUpdates
     /\ history' = Append(history, After(TheBook, u))
     /\ next_order_id_' = [next_order_id_ EXCEPT
                             ![u.symbol] = @ + (IF u.type = "ADD" THEN 1 ELSE 0)]
     /\ outbound' = Append(outbound, numbered)
     /\ snapshot_md_updates_' = Append(snapshot_md_updates_, numbered)
     /\ UNCHANGED <<consumerVars, synthesizerVars, networkVars>>

\* sendAndRecv after the loop: all that was buffered goes as one datagram.
SendIncrementals ==
  /\ outbound # << >>
  /\ incrementalNet' = incrementalNet \cup {outbound}
  /\ outbound' = << >>
  /\ UNCHANGED <<consumerVars, synthesizerVars, history, next_order_id_,
                 snapshot_md_updates_, snapshotNet, faults>>

-----------------------------------------------------------------------------
\* The synthesizer's thread.

\* Mutant: a CANCEL is not brought into the snapshot.
AddtoSnapshotNoCancel ==
  /\ snapshot_md_updates_ # << >>
  /\ orders' = IF Head(snapshot_md_updates_).update.type = "CANCEL"
               THEN orders ELSE After(orders, Head(snapshot_md_updates_).update)
  /\ last_inc_seq_num_' = Head(snapshot_md_updates_).seq
  /\ snapshot_md_updates_' = Tail(snapshot_md_updates_)
  /\ UNCHANGED <<consumerVars, history, next_order_id_, outbound, networkVars>>

AddtoSnapshot ==
  /\ snapshot_md_updates_ # << >>
  /\ orders' = After(orders, Head(snapshot_md_updates_).update)
  /\ last_inc_seq_num_' = Head(snapshot_md_updates_).seq
  /\ snapshot_md_updates_' = Tail(snapshot_md_updates_)
  /\ UNCHANGED <<consumerVars, history, next_order_id_, outbound, networkVars>>

\* A slot is an order of a symbol or, with 0 for the order, its CLEAR, which
\* stands before its orders.  What is published of the book b, slot by slot.
Slots(b) == {e \in Symbols \X (OrderIds \cup {0}) : e[2] # 0 => b[e] > 0}
SlotBefore(e, f) == e[1] < f[1] \/ (e[1] = f[1] /\ e[2] < f[2])
SlotsInOrder(b) ==
  CHOOSE q \in [1 .. Cardinality(Slots(b)) -> Slots(b)] :
    \A i, j \in DOMAIN q : i < j => SlotBefore(q[i], q[j])
Entry(b, e) == IF e[2] = 0 THEN MakeUpdate("CLEAR", e[1], 0, 0)
                           ELSE MakeUpdate("ADD", e[1], e[2], b[e])

\* The cycle over the book b, which stands for the updates up to last.
SnapshotUpdates(b, last) ==
  LET slots == SlotsInOrder(b)
      end == Len(slots) + 2
  IN [i \in 1 .. end |->
        IF i = 1 THEN MakeUpdate("SNAPSHOT_START", 0, last, 0)
        ELSE IF i = end THEN MakeUpdate("SNAPSHOT_END", 0, last, 0)
        ELSE Entry(b, slots[i - 1])]

\* sendAndRecv is called after each order and at the end of the cycle: the
\* datagrams end with these messages.
Flushed(updates) == {i \in DOMAIN updates : updates[i].type \in {"ADD", "SNAPSHOT_END"}}
FlushedInOrder(updates) ==
  CHOOSE q \in [1 .. Cardinality(Flushed(updates)) -> Flushed(updates)] :
    \A i, j \in DOMAIN q : i < j => q[i] < q[j]
SnapshotDatagrams(updates) ==
  LET messages == [i \in DOMAIN updates |-> Numbered(i - 1, updates[i])]
      ends == FlushedInOrder(updates)
      start(k) == IF k = 1 THEN 1 ELSE ends[k - 1] + 1
  IN [k \in DOMAIN ends |-> SubSeq(messages, start(k), ends[k])]

\* The network has done with the last cycle when, a minute later, the next
\* one is sent.
PublishSnapshot ==
  /\ snapshotNet = << >>
  /\ \E updates \in {SnapshotUpdates(orders, last_inc_seq_num_)} :
       snapshotNet' = SnapshotDatagrams(updates)
  /\ UNCHANGED <<consumerVars, exchangeVars, synthesizerVars, incrementalNet, faults>>

-----------------------------------------------------------------------------
\* The network.
ReceiveIncremental ==
  \E datagram \in incrementalNet :
    /\ Receive(datagram, FALSE)
    /\ incrementalNet' = incrementalNet \ {datagram}
    /\ UNCHANGED <<exchangeVars, synthesizerVars, snapshotNet, faults>>

\* While the consumer has not joined the stream the datagram goes nowhere.
ReceiveSnapshot ==
  /\ snapshotNet # << >>
  /\ snapshotNet' = Tail(snapshotNet)
  /\ IF in_recovery_ THEN Receive(Head(snapshotNet), TRUE)
                     ELSE UNCHANGED consumerVars
  /\ UNCHANGED <<exchangeVars, synthesizerVars, incrementalNet, faults>>

Misbehave == /\ faults < MaxFaults
             /\ faults' = faults + 1
             /\ UNCHANGED <<exchangeVars, synthesizerVars>>

LoseIncremental ==
  /\ Misbehave
  /\ \E datagram \in incrementalNet : incrementalNet' = incrementalNet \ {datagram}
  /\ UNCHANGED <<consumerVars, snapshotNet>>

RepeatIncremental ==
  /\ Misbehave
  /\ \E datagram \in incrementalNet : Receive(datagram, FALSE)
  /\ UNCHANGED <<incrementalNet, snapshotNet>>

LoseSnapshot ==
  /\ Misbehave
  /\ in_recovery_ /\ snapshotNet # << >>
  /\ snapshotNet' = Tail(snapshotNet)
  /\ UNCHANGED <<consumerVars, incrementalNet>>

RepeatSnapshot ==
  /\ Misbehave
  /\ in_recovery_ /\ snapshotNet # << >>
  /\ Receive(Head(snapshotNet), TRUE)
  /\ UNCHANGED <<incrementalNet, snapshotNet>>

ReorderSnapshots ==
  /\ Misbehave
  /\ in_recovery_ /\ Len(snapshotNet) > 1
  /\ snapshotNet' = <<snapshotNet[2], snapshotNet[1]>> \o SubSeq(snapshotNet, 3, Len(snapshotNet))
  /\ UNCHANGED <<consumerVars, incrementalNet>>

-----------------------------------------------------------------------------
Consume == /\ RecvCallback
           /\ UNCHANGED <<exchangeVars, synthesizerVars, networkVars>>

\* A callback shares nothing with the other threads, so that nothing is lost
\* by letting it come to its end before any of them goes on.
Elsewhere == /\ inbound = << >>
             /\ \/ \E u \in NextUpdates : Publish(u)
                \/ SendIncrementals
                \/ AddtoSnapshot
                \/ PublishSnapshot
                \/ ReceiveIncremental
                \/ ReceiveSnapshot
                \/ LoseIncremental
                \/ RepeatIncremental
                \/ LoseSnapshot
                \/ RepeatSnapshot
                \/ ReorderSnapshots

Next == Consume \/ Elsewhere

Spec == Init /\ [][Next]_vars

\* The threads run, the timer of the snapshots goes off again and again, and
\* the loop of the consumer polls both of its sockets in every turn.
Fairness == /\ WF_vars(SendIncrementals)
            /\ WF_vars(AddtoSnapshot)
            /\ WF_vars(PublishSnapshot)
            /\ WF_vars(Consume)
            /\ SF_vars(ReceiveIncremental)
            /\ SF_vars(ReceiveSnapshot)
FairSpec == Spec /\ Fairness

-----------------------------------------------------------------------------
TypeOK ==
  /\ history \in Seq(Books) /\ history # << >>
  /\ next_order_id_ \in [Symbols -> Nat]
  /\ {outbound, snapshot_md_updates_, inbound} \subseteq Datagrams
  /\ orders \in Books /\ book \in Books
  /\ last_inc_seq_num_ \in 0 .. MaxUpdates /\ version \in 0 .. MaxUpdates
  /\ next_exp_inc_seq_num_ \in 1 .. MaxUpdates + 1
  /\ incrementalNet \subseteq Datagrams /\ snapshotNet \in Seq(Datagrams)
  /\ in_recovery_ \in BOOLEAN /\ is_snapshot \in BOOLEAN
  /\ DOMAIN incremental_queued_msgs_ \subseteq 1 .. MaxUpdates
  /\ DOMAIN snapshot_queued_msgs_ \subseteq Nat
  /\ faults \in 0 .. MaxFaults

\* The assertions of AddtoSnapshot (lines 73, 79, 89, 105), and that what the
\* synthesizer publishes is the book as of the number it stamps on it.
SynthesizerExact ==
  /\ orders = history[last_inc_seq_num_ + 1]
  /\ snapshot_md_updates_ # << >> =>
       LET next == Head(snapshot_md_updates_)
           u == next.update
       IN /\ next.seq = last_inc_seq_num_ + 1
          /\ u.type = "ADD" => orders[<<u.symbol, u.order>>] = 0
          /\ u.type \in {"MODIFY", "CANCEL"} => orders[<<u.symbol, u.order>>] > 0

\* The client's book is always one the exchange has had, and only moves on.
Feed == INSTANCE MarketDataFeed
ImplementsFeed == Feed!Spec

\* Whatever was lost, repeated or late, a recovery comes to its end.
RecoveryEnds == in_recovery_ ~> ~ in_recovery_
=============================================================================
