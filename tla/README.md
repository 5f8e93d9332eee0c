# A TLA+ development of yquant-system

`yquant-system` is an exchange and a trading client in C++, two processes that
talk over TCP (orders) and UDP multicast (market data). This directory holds
the specifications of its core: what is modelled is checked with TLC on small
instances, and what matters most is proved with TLAPS for all of them.
`PROJECT.json` lists the runs, the lines of source behind every definition, the
hazards and the theorems.

## The system

### Threads and what joins them

```
 client process                                exchange process
 TradeEngine --requests--> OrderGateway ==TCP==> OrderManager --requests--> MatchingEngine
     ^  ^                       |                  ^                            |      |
     |  +------responses--------+   <==TCP==       +---------responses----------+      | updates
     |                                                                                 v
     +--updates-- MarketDataConsumer <==UDP incremental== MarketDataPublisher <--------+
                              ^                                   | updates
                              +========UDP snapshot===== SnapshotSynthesizer
```

A box is a thread pinned to a core that polls without sleeping. A single arrow
is an `LFQueue`, the lock-free ring of one producer and one consumer, with room
for 256K items. No thread takes a lock; nothing is persisted, so a process that
ends (every failed check is an `ASSERT` that ends it) starts from nothing.

### Components, their state, operations and correctness

| Component | State | Operations | What makes it correct |
|---|---|---|---|
| `LFQueue` (common/ringBuffer.h) | slots, two atomic indices, a private cached copy of each | claim, fill, publish; peek, release; size | a bounded FIFO; no slot overwritten or read early although decisions use stale copies; a spinning producer gets out |
| `MemPool` (common/mem_pool.h) | slots that hold an object or a free-list link, bump cursor, count | allocate, deallocate, Warmup | no slot handed out twice or lost; links never overwrite live objects |
| `PriceLevels` (exchange/matcher) | per tick a linked list, total and next priority; two-level bitmap; cached best tick | AddOrder, ApplyFill, RemoveOrder, BestTick | one side of a book: arrival order, totals, best tick always exact |
| `BookCore` (exchange/matcher) | two `PriceLevels`, an index by client and client order id, the next market order id | Add, Match, Cancel | price-time priority; never crossed; index, responses and market updates agree with the book |
| `MatchingEngine` | one `BookCore` a symbol | route requests | each request handled by its book, in order |
| exchange `OrderManager`, `FIFOSequencer` | sequence numbers and socket of each client, pending requests | receive, sequence, publish, respond | requests of a client in its order, across clients by time of receipt; no response lost or misdirected |
| `TCPSocket`, `TCPServer` | send and receive buffers, epoll lists | poll, send, receive | a byte stream without holes |
| `MarketDataPublisher` | incremental sequence number | publish, forward | every update numbered once, in order, on both ways |
| `SnapshotSynthesizer` | the book by order id, last sequence number | apply, publish every minute | each cycle is the book at one sequence number |
| `MarketDataConsumer` | next expected number, recovery flag, two queues of messages | receive, queue, check the snapshot | what it passes on rebuilds the exchange's book, whatever is lost, repeated or reordered; recovery ends |
| client's `MarketOrderBook` | price levels, orders by id, best bid and offer | onMarketUpdate | the exchange's book and its best prices |
| client's `OrderManager`, `RiskManager`, `PositionKeeper` | the one order a side and symbol, position, P&L | newOrder, cancelOrder, moveOrders, onOrderUpdate, addFill | a legal life of each order; the position within its limit |
| `TradeEngine`, strategies, `FeatureEngine` | the above, features | the loop, the call-backs | responses and updates handled in order; shutdown ends |
| `OrderGateway` | sequence numbers out and in | run, receive | numbers without gaps both ways |
| `Logger` | an `LFQueue` and a file | log, flush | one producer a queue; nothing lost at destruction |

The hard behaviours, each with the line where it bites, are the hazards of
`PROJECT.json`: stale cached indices and torn slots, a slot read after its
release, caches of the best price, an index of raw pointers into a pool,
restarting priorities, two streams of datagrams without delivery guarantees and
a recovery between them, requests of equal time under an unstable sort, partial
sends, cycles of full queues, limits checked against a position that is behind,
threads that stop while others spin.

## The modules

| Module | Models | Extends / uses |
|---|---|---|
| `BoundedFIFO` | what a queue promises | |
| `LFQueue`, `CommonProofs` | common/ringBuffer.h | implements `BoundedFIFO` |
| `MemPool`, `MCTrading`, `CommonProofs` | common/mem_pool.h | |
| `BookSide` | what one side of a book promises | |
| `PriceLevels`, `PriceLevelsProofs`, `MCPriceLevels` | price_levels.h and .cc | implements `BookSide` |
| `BookCore`, `BookCoreProofs`, `MCBookCore` | book_core.h and .cc | the promise of `BookSide` |
| `MarketUpdates` | market_update.h: messages, and what an update does to a book | |
| `MarketDataConsumer` | market_data_consumer.h and .cpp | `MarketUpdates` |
| `MarketDataFeed` | what a client is promised of the market data | |
| `MarketData`, `MarketDataProofs` | market_data_publisher.cc, snapshot_synthesizer.cc, mcast_socket.cpp and the network | extends `MarketDataConsumer`, implements `MarketDataFeed` |
| `OrderEntry`, `OrderManagerProofs`, `MCOrderEntry` | order_gateway, tcp_socket, tcp_server, the exchange's order_manager and FIFOSequencer.h | |
| `ExchangePipeline`, `OrderManagerProofs` | the exchange's threads and the queues between them | queues as `BoundedFIFO` promises |
| `TradingClient`, `TradingClientProofs` | the client's order_manager and risk_manager, the position, with an exchange | what `BookCore` does with requests |
| `TradingMain`, `MCTrading`, `TradingProofs` | the client's threads, their loops and queues, and how trading_main.cpp stops them | what `LFQueue` does with items, `RequestsFit` |
| `PositionKeeper`, `MCTrading`, `TradingProofs` | position_keeper.h: averages and profit | |
| `Logger` | logging.h: the queue of a log, its thread, its destructor | |
| `ClientBook` | what the client's order book promises | |
| `MarketOrderBook`, `MarketOrderBookProofs`, `MCMarketOrderBook` | market_order_book.h and .cpp | implements `ClientBook` |

**LFQueue.** The two threads and a third one that calls `size()`. A step
touches the state of another thread at most once: the load of the other index,
the filling of the slot (two steps, with `Torn` in between, as the caller
writes through a pointer), the store of the own index. An acquire load may
return any value between the one this thread saw last and the current one.

**MemPool.** One action for each path of `allocate` (recycled, fresh,
exhausted), one for `deallocate`, `Warmup`, and one for an owner writing to its
object. A slot holds bytes, zeroes, an object or a link, so a write to the
wrong slot destroys what was there. The debug checks of `MarkSlot` are modelled;
a failed one sets `failure`, which stands for the end of the process.

**PriceLevels.** The nodes with their `next` and `prev`, the slot of every tick
with head, tail, total and next priority, the bitmap as one set of bits a word,
the summary, the cached best tick. The three operations are three actions, each
with everything the code does in it. A node is handed out by the pool as any
node outside the book.

**BookCore.** The book is a set of orders with the priority the code gives them;
the sides are used only through what `BookSide` promises. `Add` is split where
its loops turn: acceptance, one fill, the end. Two histories take the messages in the
order they are sent: `told` is what each client last heard of each of its
order numbers, `mirror` is a book kept by the rules of
`SnapshotSynthesizer::AddtoSnapshot`. Prices are in the band and on a tick, as
the comment of `BookCore::Add` demands of its caller.

**MarketData.** Three threads and the network. The publisher numbers an update,
puts it into the send buffer and the synthesizer's queue; the buffer goes out
as one datagram whenever the loop over the burst ends. The synthesizer is any
way behind. A snapshot cycle is the CLEAR of every symbol and the orders by id,
between a start and an end that carry the number of the last update applied,
cut into datagrams where the code calls `sendAndRecv`. Incrementals are a set
(any order); snapshots a sequence whose neighbours may change places.
`MarketDataConsumer` handles a datagram as the code does, one message after the
other: pass on, enter recovery, queue, check. Its actions do not
know where datagrams come from, so what is proved of it (`ConsumerSpec`) holds
for any datagrams at all. Orders are quantities here; prices and priorities do
not decide anything on this way.

**OrderEntry.** A message on the wire is two halves, so that a read may end in
the middle of one. The order manager's loop is walked step by step (`visiting`):
accept, read and write each socket, sort and publish if anything was read,
forward the answers one by one. A client may end at any moment and return with
a new connection and numbers from 1, as the process shipped here does. The
matching engine answers a client that it has a request of, any number of times.
`Sent` is what `::send` takes of a buffer: as much as the kernel has room for
(`SocketBuffer`, in halves of messages), a part of it or nothing; the code
forgets the rest. `Sorted` is any order by time, with equals in the order they
came in only up to `StableLimit`. A client is assumed to put its own id into its
requests. `MCOrderEntry` remembers the connections on which a `::send` was cut
short (`short`) and follows a behaviour up to a stream that is out of step
(`StreamsInStep`): from there on the code casts bytes out of the middle of one
message and the next to a message, and what it then does is undefined (a client id of any
value indexes `cidTcpSocketMap`).

**ExchangePipeline.** Queues are numbers of items; what matters is who waits for
room at which queue, and who could make it. The request in work keeps its slot,
as `UpdateReadIndex` comes last in `MatchingEngine::run`. `RoundSize` is the
`kMaxPendingRequests` of the code.

**TradingClient.** One symbol (symbols share only the order numbers), a queue of
requests and one of responses of any length, which stand for everything on the
way. The strategies are free: they may call `moveOrders` at any moment with any
prices, of which the market maker and the liquidity taker do a part. The
exchange accepts, fills (in part, at any moment), cancels and rejects as
`BookCore` does.

**TradingMain.** A queue is a number of items, a thread is where it is in its
loop, and the main thread is where `stop` has got to. What matters is the order:
`run` of the engine reads `run_` and the sizes of two queues one after the
other; `recvCallback` of the gateway gives a response up when it finds no room
and is told to stop, while the consumer waits on, `run_` or no `run_`; `stop`
joins one thread before it tells the next one. What the engine was told is
counted in `owed`: what lay in its queues when it was stopped and has not been
heard. The gateway gives its buffer to `::send` once and forgets it, the last one
(order_gateway.cpp 37) too; what becomes of it is `OrderEntry`'s, so that
`RequestsOffered` says of a request that it was in a buffer given to `::send`, and
not that it arrives. A strategy has no more requests under way than `StrategyRequests`, which
is what `TradingClient` shows of it (`RequestsFit`: two a side); a RANDOM client
sends from the main thread and bounds itself only by the room in the queue.

`MCTrading` puts `TradingMain`, `PositionKeeper` and `MemPool` into one run. As they
are modelled they share no state, so that nothing can go wrong between them:
one of the three is chosen at the start and does all it can do, the others rest.

**PositionKeeper.** `addFill` and `updateBBO`, field by field. Money is counted
in parts of `1/Unit`, so that the divisions of the code leave no remainder on
the instance (a remainder would show as a violation of `ProfitExact`); rounding
of doubles is what the model leaves out. Two histories, what the fills have
brought in and the price valued at last, say what the profit should be.

**Logger.** `pushValue` with `UpdateWriteIndex` as what it is, a load and a
store; an element is two fields. The flushing thread and the destructor are step
by step. One thread may log, or several.

**MarketOrderBook.** Rings of orders and of price levels with their pointers,
known by the table entries that hold them. The search of `addOrdersAtPrice` is
one operator, `Follower`: the element that the new level is put before. The
updates are those an exchange's book sends, never crossed.

## What is checked

| Run | Instance | States | Shows |
|---|---|---|---|
| `lfqueue` | 4 slots, 6 items of 2 values | all | no visible item torn or overwritten; the slot released last intact until the next read (the publisher reads it then); `size()` never negative; a bounded FIFO; a spinning producer gets its slot and every item is taken |
| `price_levels` | 6 ticks, 2 bits a word, 3 nodes, quantities to 2, priorities to 3 | 140 thousand | bitmaps and best tick exact; priorities sorted; `BookSide` implemented |
| `book_core` | 2 clients with 2 numbers each, 3 ticks, 4 orders of quantity 1 or 2, any cancels | 1.1 million | never crossed, price-time priority, exact index, clients told the truth, updates rebuild the book |
| `market_data` | 1 symbol, 2 orders, 3 updates (ADD, CANCEL) in any bursts, 2 faults | 173 thousand | the synthesizer's book is the one at its number; the consumer's number is exact outside recovery and something ahead is queued inside; no queued incremental is dropped before the book has it; `MarketDataFeed` implemented; every recovery ends |
| `order_entry` | 2 connections in all, up to 3 requests and 3 answers each and 5 messages in all, 2 receive times, a kernel with room for one message, a sort that keeps 2 equals in order, rounds of up to 3 | 1.6 million | a message is lost only by a `::send` that was cut short on its own connection; no answer is passed on after a gap or to a later connection; every round continues the requests of each client, none left out and none twice, and in order if it is short |
| `long_round` | as `order_entry`, 2 requests each, rounds of up to 2, a sort that keeps 1 in order | until found | a violation: a client's requests reach the engine in the wrong order |
| `partial_send` | as `order_entry`, 2 requests and answers each, all rounds short, a kernel with room for one message | until found | a violation: a message disappears between the buffers |
| `exchange_pipeline` | rounds of 3 requests, 2 answers each, 4 request slots, 6 response slots, 2 update slots | 4449 | the order manager and the engine never wait for each other; the order manager gets back to its sockets |
| `trading_client` | 4 orders of 2, limit 3, 2 prices | 209 thousand | the position keeps its limit; no order that can still trade is given up; at most a cancel and the next order are under way for a side; an order thought LIVE is at the exchange or its end is on the way; no order waits for ever |
| `market_order_book` | 4 orders, 4 prices, quantities 1 and 2 | 2441 | the rings are sorted and closed; `ClientBook` implemented, the best bid and offer always those of the queues |
| `trading` | threads: queues of 2, 1 and 2, a strategy's 2 requests, 2 responses and 3 updates still arriving; position: 3 prices, fills of 1, 2 and 4, 5 fills, position to 3; pool: 4 slots, 2 objects | 140 thousand | threads: every request has been given to `::send` when the gateway is over; what lay in the engine's queues it has heard; a response is given up only when nobody is left to hear it; stopping ends, unless the consumer waits for room that nobody makes any more. Position: the profit is the fills' cash and the position at its last price; what is open has an average price. Pool: objects never overwritten; `next_unused_` is the historical maximum in use; the process ends only when the pool is really full |
| `logger` | 2 threads, 2 elements each | until found | a violation: a log element is lost or torn before the log is closed |

*Why the bounds are enough.* The ring of `lfqueue` fills, empties and wraps;
with a sentinel slot, three items fit, so the producer runs into its stale copy
of the read index, and six items pass every slot twice or nearly so. Four slots
let the free list grow, shrink and be mixed with fresh slots. Six ticks of two
bits a word make three words and two summary words, the last of them not full,
so each level of the bitmap search has more than one candidate; three nodes
give a head, a middle and a tail to remove. In `book_core` four orders make one
that fills two others on two levels and rests; quantities of 1 and 2 make
partial fills of the taker and of the maker. In `market_data` three updates make a gap with something after it; two faults
lose the message that opens a gap and the snapshot that would close it, or mix
two cycles; two orders beside the CLEAR make a cycle of up to three datagrams.
The publisher and the consumer do not look at the type of an update, so ADD and
CANCEL stand for all on this way; every type is applied in `book_core` and
`market_order_book`. In `order_entry` two connections are two clients or
one that comes back; three messages are six halves, so a read can end between
two messages or inside one, and requests of one read, or of two reads with
equal or different times, meet in the sort: two keep their order, three may not.
The kernel holds one message, so that a `::send` of two takes one of them, or the half
that is left of the room, or nothing, and a third can follow a lost one; a
connection may be cut short on either side while the other one is not. Five
messages in all (`MaxMessages`) are three requests and two answers, or the reverse,
on one connection or spread over both. In `trading_client` the limit of 3
lets one order of 2 pass from 0 and not a second; four orders replace each side.
In `market_order_book` a ring grows to four elements: a level is put first, last
and between, an order leaves from the head, the middle and the end. In
`trading` each queue can be full with more arriving, before, between and
after the ends of the threads, a fill of 4 turns a position
of 1, 2 or 3 round, and five fills open, increase, reduce, close and turn it. In
`exchange_pipeline` the queue of answers just holds those of a round: with one
slot less both properties fail. The shipped values, 1024 requests a round and
2^18 - 1 slots, leave 255 answers to a request on average; a single order that
sweeps more than that from the book, 1024 times in a row while the queue of
requests is full, is outside.

`MaxQuantity`, `MaxOrders`, `MaxPriority`, `MaxWrites`, `MaxUpdates`,
`MaxFaults`, `MaxConnections`, `MaxRequests`, `MaxResponses`, `MaxMessages`, `MaxPosition`,
`MaxFills`, `MaxElements` and `MaxFlushed` are bounds of the model; where there is a proof, it holds for every value of them. Symmetry is
used for nodes, clients, client order ids and market order ids, which are only
compared, and never in a run that checks liveness.

*Fairness.* Each thread of the system is pinned to a core and polls in a loop, so
each step it can take is taken in the end: weak fairness of its steps.
- `lfqueue`: a load may return old values only for so long (the load of
  `TryGetNextToWriteTo` and `GetNextToRead` is a fair step, and a step that
  returns the same stale value again changes nothing). That a producer has
  something to send is not assumed.
- `market_data`: the publisher's flush, the synthesizer's steps, the
  minute's snapshot, and the consumer taking what is queued are weakly fair; the
  two receives are strongly fair, since `run` polls both sockets in turn while
  the network may take a datagram away in between. The network misbehaves
  `MaxFaults` times and is reliable then: without that nothing could end.
- `exchange_pipeline`: weak fairness of the order manager, of the publisher and
  of each step of the engine (its answers and updates to a request come in an
  order the model does not fix).
- `trading_client`: the trade engine takes responses and the exchange takes
  requests; that anything is ever filled or wanted is not assumed.
- `trading`: each thread is weakly fair, and so is the main thread once it
  has begun to stop; that it ever begins is not assumed. What arrives is bounded
  by `MaxResponses` and `MaxUpdates`: the engine's inner loops run until a queue
  is empty, so a feed without an end could keep it from looking at `run_`.

*Deadlock* is checked except in `market_data` (the updates of the model run out),
`order_entry`, `long_round` and `partial_send` (`FATAL` ends the exchange, the
messages of the model run out, and nothing is followed beyond a stream that is
out of step), `trading` (the program may come to its end, a pool that is
exhausted ends the process, and a flat position after the last fill is not
valued again) and `logger` (the program may end).

Every property of a passing run has a mutant, a plausible slip in the code it is about, under
which its run fails; the mutants stand next to the definitions they change.

### What a constant sets aside

`ReuseLiveIds` (`BookCore`) keeps a run inside what the code relies on. `IndexOrder`
(book_core.cc 225-234) overwrites the entry of a client order id that is still
resting, and nothing in the exchange refuses such a request. With `TRUE`, TLC
shows `IndexExact` and `ClientsToldTruth` violated: a cancel of the first order is
answered with CANCEL_REJECTED although it rests, while `book_core.h` 61-62 and the
client's `order_manager.h` 59 take that answer for the end of the order. The
client shipped here never reuses a number (`TradingClientProofs!OrdersNumbered`).

`StableLimit` and `SocketBuffer` (`OrderEntry`) are not of this kind: the run and the
theorems take them smaller than a round and than a buffer, as they are in the
program, and what is checked then is which of the code's promises are kept
(`RoundsInOrder`, `LostOnlyBySend`). The stronger ones that the comments make
(`RequestsInOrder`, `NothingLost`) are findings.

Six hazards have no property: a reused client order id (book_core.cc 233) and a price
off its tick or out of the band (price_levels.h 54) are excluded by the
precondition of `BookCore`; the consumer that waits for room after the engine has
ended (trade_engine.cpp 62) does keep the program from its end, and `StopEnds`
excepts exactly this (`ConsumerStuck`) to show that nothing else does; that more than
1024 requests in a round end the exchange (FIFOSequencer.h 33) is modelled and
forbidden by nothing; the day's limit on order numbers
(snapshot_synthesizer.cc 76) is a size; the side of a trade that the feature
engine means (feature_engine.h 38) decides which orders are wanted, and
`TradingClient` lets a strategy want anything.

### Findings

*A long round reorders a client's requests* (`long_round`, FIFOSequencer.h 48).
Requests of one `recv` share its receive time, and the round is sorted by it with
`std::ranges::sort`, which leaves the order of equals open; libstdc++ keeps it up to 16
elements, and a round may hold 1024. order_manager.h 131 checks the sequence
numbers to make sure that requests arrive in order, before the sort. A CANCEL
may so reach the book before its NEW: it is refused and the order rests.
`EntryOrdered` says that long rounds are the only way to this,
`RoundsCorrect` that none is lost or repeated even then.

*What the kernel does not take is forgotten* (`partial_send`, tcp_socket.cc 74).
`sendAndRecv` gives its buffer to a non-blocking `::send`, logs how much was taken
and empties the buffer in any case. order_gateway.cpp 63 takes a gap in the
responses for impossible since TCP is reliable, and order_manager.h 36 promises
the messages in order. A lost request stops its client for good (the numbers
after it are refused), a lost response likewise. `OnlySendLoses` says that nothing else
loses a message, and that a cut on one connection harms no other while all
streams are in step; `NothingIsLost` that nothing is lost while the kernel takes
what it is given. A gateway that is being stopped gives its last buffer to `::send`
once (order_gateway.cpp 37), so this is also the one way in which a request
that `RequestsOffered` speaks of may not arrive.

*Two threads write to a queue of one producer* (`logger`, logging.h 133). In RANDOM
mode the main thread sends requests with `TradeEngine::sendClientRequest`
(trading_main.cpp 98, 105), which logs on the engine's logger (trade_engine.cpp
75) while the engine's thread logs on it too (92). Both claim the same slot, or
one store of the write index undoes the other, so an element is overwritten
before it is in the file; logging.h 110 says that everything is written before
the logger is gone. With one thread the same run passes.

## What is proved

All theorems hold for every value of the constants, under the named assumptions
of the modules: `Capacity` a natural (positive for the ring), `Torn` and `Null`
not values, `TickCount` a positive multiple of `BitsPerWord` (the static_assert
at price_levels.h 248), a valid price band, finite tables of orders and prices
in the client's book, some price in the position keeper.

- **CommonProofs**, of `LFQueue`: types, `CachesNeverAhead` (no run needs it
  beside the theorem), `UnreadIntact`, `ReleasedSlotIntact`, `SizeNeverUnderflows` and the refinement
  `Spec => ImplementsFIFO`. The inductive invariant says that a producer with
  a claimed slot is at most `Capacity - 2` items ahead of its copy, that the
  copies are behind the indices, and that the window from one before the read
  index to the write index holds the history; two numbers less than `Capacity`
  apart are in different slots.
- **CommonProofs**, of `MemPool` (whose names start with `Pool` where the ring has
  the same ones): types, `ObjectsIntact`, `HighWaterExact`,
  `AbortsOnlyWhenFull`. The history `freed` is the stack the free list spells:
  each freed slot holds the link to the one freed before it. The invariant adds
  that the stack has no duplicates and that slots below the cursor are live or
  in the stack, never both, and that the count is exact.
- **PriceLevelsProofs**: types, `BestTickExact`, that no order is cut off from
  its queue, `PrioritiesSorted`, the totals (`TotalsExact`) and the refinement
  `Spec => ImplementsBookSide`. The bitmaps are exact only if an emptied slot
  means that no order is left at its tick, a fact about linked lists: `Linked`
  says link by link that neighbours point at each other and that priorities
  grow; then the order of least priority at a tick has no predecessor, so it is
  the head. The search for the best tick is proved through the two levels of
  the bitmap for any word size. Whole queues follow from the same links: the
  orders of a tick, a finite set, can be listed by priority (`Listed`), each
  link leads to the next of the list (`Chain`: a first place where it did not
  would have a successor whose predecessor stands earlier), so the recursive
  `Walk` is that list (`WalkIsList`). After an operation the list is the old one
  with an order appended, the same, or with one taken out; the total is the
  number of units that rest at the tick, of which an operation adds or takes
  away those of one order. That is `BookSide`, step by step.
- **BookCoreProofs**: types, `NeverCrossed`, `PriceTimePriority`,
  `UpdatesRebuildBook`, and `IndexExact` and `ClientsToldTruth` when numbers are
  not reused. The
  invariant says that ids grow with acceptance, that at one price priorities
  grow with ids across restarts of the numbering, that the taker is younger
  than the book and its limit is its price's tick. Every change of the book is
  one of three (an order leaves, shrinks, joins), and each keeps each part.
  What clients were told is followed through the middle of `Add` as well: what
  the taker has been told of filled and open is what it has left
  (`BeliefsTrue`), and every resting order's belief is its quantity.
- **MarketDataProofs**: of the consumer alone (`ConsumerSpec`, given any
  sequences of any messages, so for any loss, repetition, reordering or
  corruption of numbers): `NextExpectedExact`, `RecoveryIsAhead`,
  `NothingQueuedForgotten` and that the client's book never goes back. What
  makes it work is that a message beyond the book stays queued from the moment
  recovery starts until the book has it. Of the system: it implements
  `ConsumerSpec` (`ConsumerInFeed`), `SynthesizerExact`, and the refinement
  `Spec => ImplementsFeed`. The invariant (`FeedInv`) ties all that is on the way
  to the exchange's history of books: an incremental anywhere, in the send
  buffer, the network, the synthesizer's queue or the client's, is the update
  that made the book of its number; a snapshot message anywhere stands at its
  place in one cycle of the book stamped on it. Cycles are sent one after the
  other, so the queue of the client, which begins with a start and ends with an
  end of the same number and has no gap, is one whole cycle, whatever the
  network did. Such a cycle, applied to any book, makes the exchange's book
  (`AfterAllFacts`: the last update to touch an order decides), and the queued
  updates after it make a later one.
- **TradingClientProofs**: `PositionWithinLimit`, `NothingForgotten`, `RequestsFit`,
  `LiveIsThere` and types, for every clip, limit and number of orders, and queues
  of any length. The invariant follows an order through the queues: the request
  for it is there before any response to it, ACCEPTED is heard before its fills,
  the fills leave less and less (`Fills`), and only answers to its cancel come
  after its end (`Ends`); a cancel behind its time has the next order behind it
  (`CancelRequests`). So an idle order has nothing left anywhere, which is why
  the risk check may look at the position alone.
- **TradingProofs**, of `TradingMain`: `RequestsOffered`, `HeardBeforeStop`, `ResponsesKept`, types,
  and `StrategyNeverWaits`: a strategy inside `RequestsFit` never waits in
  `sendClientRequest`, for every capacity. How far `stop` has got says which
  threads are over (`Order`), and what a thread has found empty in the condition
  of its loop stays empty of what it owes (`Owing`).
- **TradingProofs**, of `PositionKeeper` (whose names start with `Keeper` where
  the threads have the same ones): `OpenAtAnAverage`, for any prices and
  quantities, with or without a remainder: `div` of something between n times
  the lowest and n times the highest price is between the two. `ProfitExact` is
  proved under a hypothesis of the theorem, `FineUnit`, since it is false where
  an average leaves a remainder: what one fill opens is a multiple of
  `grain[0]`, an average of what is held divides by at most `MaxPosition`, so
  that each fill takes the multiple from `grain[k]` to `grain[k + 1]`, `divisor`
  times finer (`WholeGrains`). Then nothing is lost, and the realised profit is
  the cash and what is still open (`Booked`). The run's `Unit` is of this kind
  (15552 = 2 * 6^5: five fills, positions of at most three).
- **MarketOrderBookProofs**: types, `LevelsSorted` and the refinement
  `Spec => ImplementsBook`, for any band of prices, any orders and sizes. The
  invariant describes the ring of levels without walking it (`LinksOf`): each
  price links to the best of the prices worse than it, the worst to the best of
  all, and back. That is what `Follower`, the search with three exits, finds the
  place by, and what a price joining or leaving keeps. The ring of a price goes
  round a list of exactly the orders held at it (`OrdersListed`). The walks that
  `LevelsSorted` and `ClientBook` speak of are recursive functions; they are
  shown to be these lists by the first place where they would differ. Then an
  ADD appends to a queue, a MODIFY changes one entry, a CANCEL takes one out,
  and no other queue changes; the best bid and offer, redone only when
  `Touches` says so, are those computed afresh.
- **OrderManagerProofs**, of `ExchangePipeline`: types and `NeverBothWaiting`, for all capacities.
  When the order manager leaves its last loop the queue of answers is empty;
  until it is back there, an answer in the queue is to a request that has left
  the queue of requests since, or to the one in work (`AnswersBounded`). If the
  queue of requests is full, no more have left than this round published.

- **OrderManagerProofs**, of `OrderEntry` (whose names start with `Entry` where the
  pipeline has the same ones): `RoundsInOrder` (`RoundsCorrect`), for any clients,
  connections, buffers, cutting of the streams and length of a round, with no
  hypothesis. What a read makes of its messages is a recursive function over
  them; that there is one, and that it takes numbers from the expected one on
  (`Follows`), is shown by the first message at which it would not. The invariant:
  of each client the numbers up to the expected one have been taken from one
  socket, the first of them have gone on, the others are pending (`Numbered`);
  and what is pending of a socket was read at once (`InRound`), because no socket
  is accepted twice and a round visits each once, so that all of it has one
  receive time and a sort that is stable keeps it together in order.
  `RequestsInOrder` (`EntryOrdered`) is proved of the behaviours in which every
  round is short (`[]RoundsShort`); it is false of the others, which is the first
  finding.
- **OrderManagerProofs**, of `MCOrderEntry`: `LostOnlyBySend` (`OnlySendLoses`), for any
  clients, connections, numbers of messages, kernel buffers and cutting of the
  streams, of the behaviours up to a stream that is out of step (`SendsSpec`, the
  run's specification without its bound on the messages). The property counts
  bytes, which is not inductive: a read takes whole messages out, and must find
  the right ones. So the invariant says which bytes there are, on each
  connection that was never cut short. `Streams`: what has been read of a message,
  what is on the wire and what waits in the other buffer, one after the other,
  are the two halves of each number from the one expected next to the last one
  given, each way. A read moves the cut between the first two, a send the one
  between the last two; `HalvesOf` and the lemmas after it say that the messages of
  such a stream up to any cut are the numbers in order and that what remains
  is again such a stream. `Queued`: the answers in the queue, those of each
  client in order, continue those numbered, so a forwarded answer continues
  the stream. `Unused` and `Gateways`: nothing is on a connection before it is
  made, nothing goes out on one that is not the socket bound to its client, and a
  gateway on such a one has heard nothing; so a client that comes back, whose
  numbers start again, does not mix two streams. `NothingLost` (`NothingIsLost`)
  is proved of the behaviours in which the kernel takes what it is given
  (`[]KernelTakesAll`); it is false of the others, which is the second finding.

Every safety property, action property and refinement that a passing run checks
is the statement of a theorem. Only model-checked: liveness (`SpinEnds`,
`EveryItemTaken`, `RoundEnds`, `RecoveryEnds`, `Settles`, `StopEnds`), which is out
of the prover's reach.

## What is not modelled

Left out: the rounding of floating-point money and the features; what the two
strategies want, of which `TradingClient` allows everything; routing by symbol
in the matching engine, an array access; `exchange_main`, which runs until a
signal and leaves everything to destructors, and the deletion of the client's
objects once its threads are over; printing, socket options, time stamps and
latency measurement, benchmarks; the exchange's missing checks of a request's
symbol, price and quantity, which `BookCore` takes as the precondition its
header states.
