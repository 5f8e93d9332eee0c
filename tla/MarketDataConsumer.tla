------------------------- MODULE MarketDataConsumer -------------------------
(***************************************************************************)
(* trading/market_data/market_data_consumer.cpp: the client's end of the   *)
(* two multicast streams.  A callback of recvCallback is the datagram it   *)
(* has to go through, taken one message a step; the sockets are those of   *)
(* the module that composes this one with the network (MarketData).        *)
(***************************************************************************)
EXTENDS MarketUpdates, FiniteSets

VARIABLES
  in_recovery_,           \* the snapshot stream is joined exactly then
  next_exp_inc_seq_num_,
  snapshot_queued_msgs_,  \* sequence number -> update
  incremental_queued_msgs_,
  inbound,                \* what recvCallback still has to go through
  is_snapshot,            \* from which socket that came
  book,                   \* the client's book, after all that was passed on
  version                 \* history: how many updates that book stands for

consumerVars == <<in_recovery_, next_exp_inc_seq_num_, snapshot_queued_msgs_,
                  incremental_queued_msgs_, inbound, is_snapshot, book, version>>

Empty == << >>
Put(queued, message) == [n \in DOMAIN queued \cup {message.seq} |->
                          IF n = message.seq THEN message.update ELSE queued[n]]

ConsumerInit ==
  /\ in_recovery_ = FALSE
  /\ next_exp_inc_seq_num_ = 1
  /\ snapshot_queued_msgs_ = Empty
  /\ incremental_queued_msgs_ = Empty
  /\ inbound = << >>
  /\ is_snapshot = FALSE
  /\ book = EmptyBook
  /\ version = 0

-----------------------------------------------------------------------------
\* checkSnapshotSync, called with the two queues as queueMessage leaves them.

\* The queued snapshot messages are the first ones of a cycle.
StartsCycle(snapshots) ==
  /\ DOMAIN snapshots = 0 .. (Cardinality(DOMAIN snapshots) - 1)
  /\ snapshots[0].type = "SNAPSHOT_START"
LastOf(snapshots) == snapshots[Cardinality(DOMAIN snapshots) - 1]
Ended(snapshots) == LastOf(snapshots).type = "SNAPSHOT_END"
\* Mutant: the two numbers of a cycle are not compared (line 102).
OneCycleUnchecked(snapshots) == TRUE
OneCycle(snapshots) == snapshots[0].order = LastOf(snapshots).order

\* Line 109 and the loop after it: the first number that is not queued.
NextMissing(snapshots, incrementals) ==
  LET first == LastOf(snapshots).order + 1
  IN CHOOSE n \in first .. first + Cardinality(DOMAIN incrementals) :
       /\ n \notin DOMAIN incrementals
       /\ first .. (n - 1) \subseteq DOMAIN incrementals
\* Mutant: what the snapshot has already is not skipped (line 115).
NoIncrementalMissingNorOld(snapshots, incrementals) ==
  DOMAIN incrementals \subseteq
    LastOf(snapshots).order + 1 .. NextMissing(snapshots, incrementals) - 1

NoIncrementalMissing(snapshots, incrementals) ==
  \A n \in DOMAIN incrementals : n < NextMissing(snapshots, incrementals)

\* final_events
FinalEvents(snapshots, incrementals) ==
  LET first == LastOf(snapshots).order + 1
      next == NextMissing(snapshots, incrementals)
  IN [i \in 1 .. Cardinality(DOMAIN snapshots) - 2 |-> snapshots[i]]
     \o [i \in 1 .. next - first |-> incrementals[first + i - 1]]

KeepWaiting(snapshots, incrementals) ==
  /\ DOMAIN snapshots # {} => StartsCycle(snapshots) /\ ~ Ended(snapshots)
  /\ snapshot_queued_msgs_' = snapshots
  /\ incremental_queued_msgs_' = incrementals
  /\ in_recovery_' = TRUE
  /\ UNCHANGED <<next_exp_inc_seq_num_, book, version>>

\* Mutant: the queued incrementals go with the snapshot.
DropSnapshotAndIncrementals(snapshots, incrementals) ==
  /\ DOMAIN snapshots # {}
  /\ StartsCycle(snapshots) => Ended(snapshots) /\ ~ OneCycle(snapshots)
  /\ snapshot_queued_msgs_' = Empty
  /\ incremental_queued_msgs_' = Empty
  /\ in_recovery_' = TRUE
  /\ UNCHANGED <<next_exp_inc_seq_num_, book, version>>

DropSnapshot(snapshots, incrementals) ==
  /\ DOMAIN snapshots # {}
  /\ StartsCycle(snapshots) => Ended(snapshots) /\ ~ OneCycle(snapshots)
  /\ snapshot_queued_msgs_' = Empty
  /\ incremental_queued_msgs_' = incrementals
  /\ in_recovery_' = TRUE
  /\ UNCHANGED <<next_exp_inc_seq_num_, book, version>>

CompleteSnapshot(snapshots) ==
  /\ DOMAIN snapshots # {} /\ StartsCycle(snapshots)
  /\ Ended(snapshots) /\ OneCycle(snapshots)

SnapshotTooOld(snapshots, incrementals) ==
  /\ CompleteSnapshot(snapshots)
  /\ ~ NoIncrementalMissing(snapshots, incrementals)
  /\ next_exp_inc_seq_num_' = NextMissing(snapshots, incrementals)
  /\ snapshot_queued_msgs_' = Empty
  /\ incremental_queued_msgs_' = incrementals
  /\ in_recovery_' = TRUE
  /\ UNCHANGED <<book, version>>

\* Mutant: the incrementals passed on are not counted (line 134).
RecoveredUncounted(snapshots, incrementals) ==
  /\ CompleteSnapshot(snapshots)
  /\ NoIncrementalMissing(snapshots, incrementals)
  /\ next_exp_inc_seq_num_' = LastOf(snapshots).order + 1
  /\ book' = AfterAll(book, FinalEvents(snapshots, incrementals))
  /\ version' = NextMissing(snapshots, incrementals) - 1
  /\ snapshot_queued_msgs_' = Empty
  /\ incremental_queued_msgs_' = Empty
  /\ in_recovery_' = FALSE

Recovered(snapshots, incrementals) ==
  /\ CompleteSnapshot(snapshots)
  /\ NoIncrementalMissing(snapshots, incrementals)
  /\ next_exp_inc_seq_num_' = NextMissing(snapshots, incrementals)
  /\ book' = AfterAll(book, FinalEvents(snapshots, incrementals))
  /\ version' = NextMissing(snapshots, incrementals) - 1
  /\ snapshot_queued_msgs_' = Empty
  /\ incremental_queued_msgs_' = Empty
  /\ in_recovery_' = FALSE

CheckSnapshotSync(snapshots, incrementals) ==
  \/ KeepWaiting(snapshots, incrementals)
  \/ DropSnapshot(snapshots, incrementals)
  \/ SnapshotTooOld(snapshots, incrementals)
  \/ Recovered(snapshots, incrementals)

-----------------------------------------------------------------------------
\* recvCallback: the next message of the datagram.
request == Head(inbound)
NextMessage == /\ inbound # << >>
               /\ inbound' = Tail(inbound)
               /\ UNCHANGED is_snapshot

\* Mutant: a repeated incremental counts as a gap (line 213).
NotNeededSnapshotOnly == is_snapshot /\ ~ in_recovery_

\* Lines 191 and 211, and 213.
NotNeeded == \/ is_snapshot /\ ~ in_recovery_
             \/ ~ is_snapshot /\ ~ in_recovery_ /\ request.seq < next_exp_inc_seq_num_
Ignore ==
  /\ NextMessage
  /\ NotNeeded
  /\ UNCHANGED <<in_recovery_, next_exp_inc_seq_num_, snapshot_queued_msgs_,
                 incremental_queued_msgs_, book, version>>

PassOn ==
  /\ NextMessage
  /\ ~ is_snapshot /\ ~ in_recovery_ /\ ~ NotNeeded
  /\ request.seq = next_exp_inc_seq_num_
  /\ next_exp_inc_seq_num_' = next_exp_inc_seq_num_ + 1
  /\ book' = After(book, request.update)
  /\ version' = request.seq
  /\ UNCHANGED <<in_recovery_, snapshot_queued_msgs_, incremental_queued_msgs_>>

\* A gap: startSnapshotSync empties both queues before the message is queued.
EnterRecovery ==
  /\ NextMessage
  /\ ~ is_snapshot /\ ~ in_recovery_ /\ ~ NotNeeded
  /\ request.seq # next_exp_inc_seq_num_
  /\ CheckSnapshotSync(Empty, Put(Empty, request))

QueueIncremental ==
  /\ NextMessage
  /\ ~ is_snapshot /\ in_recovery_
  /\ CheckSnapshotSync(snapshot_queued_msgs_, Put(incremental_queued_msgs_, request))

\* The snapshot messages kept when request comes in: none at the start of
\* a cycle or when its number is there for a second time.
KeptBefore(snapshots) ==
  IF request.seq = 0 \/ request.seq \in DOMAIN snapshots THEN Empty ELSE snapshots

QueueSnapshot ==
  /\ NextMessage
  /\ is_snapshot /\ in_recovery_
  /\ CheckSnapshotSync(Put(KeptBefore(snapshot_queued_msgs_), request),
                       incremental_queued_msgs_)

\* sendAndRecv: one recv of one socket, which starts a callback.
Receive(datagram, snapshot) ==
  /\ inbound = << >>
  /\ inbound' = datagram
  /\ is_snapshot' = snapshot
  /\ UNCHANGED <<in_recovery_, next_exp_inc_seq_num_, snapshot_queued_msgs_,
                 incremental_queued_msgs_, book, version>>

RecvCallback == \/ Ignore
                \/ PassOn
                \/ EnterRecovery
                \/ QueueIncremental
                \/ QueueSnapshot

\* The consumer on its own, with sockets that may deliver anything.
Datagrams == Seq(Message)
ConsumerNext ==
  \/ RecvCallback
  \/ \E datagram \in Datagrams, snapshot \in BOOLEAN : Receive(datagram, snapshot)
ConsumerSpec == ConsumerInit /\ [][ConsumerNext]_consumerVars

-----------------------------------------------------------------------------
\* Outside recovery the next number expected is the one after the book the
\* client has, although checkSnapshotSync overwrites it (line 109) before it
\* knows whether the snapshot will do.
NextExpectedExact == ~ in_recovery_ => next_exp_inc_seq_num_ = version + 1

\* In recovery something is queued that the client's book does not have, so
\* that no snapshot older than that book is ever taken for complete.
RecoveryIsAhead ==
  in_recovery_ => \E n \in DOMAIN incremental_queued_msgs_ : n > version + 1

\* An incremental is kept until the client's book has it: neither a snapshot
\* given up nor one found too old takes the queued incrementals with it.
NothingQueuedForgotten ==
  [][\A n \in DOMAIN incremental_queued_msgs_ :
       n \notin DOMAIN incremental_queued_msgs_' => version' >= n]_consumerVars
=============================================================================
