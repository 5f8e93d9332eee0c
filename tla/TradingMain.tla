----------------------------- MODULE TradingMain -----------------------------
(***************************************************************************)
(* The trading client's threads, the bounded queues between them, and how  *)
(* they are stopped (trading_main.cpp):                                    *)
(*   - the trade engine (trade_engine.cpp run) takes responses and market  *)
(*     updates, and its strategy sends requests from within an update;     *)
(*   - the order gateway (order_gateway.cpp run) sends the requests and    *)
(*     queues the responses;                                               *)
(*   - the market data consumer (market_data_consumer.cpp run) queues the  *)
(*     market updates;                                                     *)
(*   - the main thread sends requests of its own when the algorithm is     *)
(*     RANDOM, and stops the three one after the other.                    *)
(* A queue is the number of items in it, LFQueue says what happens to      *)
(* them; TradingClient says how many requests a strategy can have under    *)
(* way.  The main thread is at "running", or where stop() has got to.      *)
(***************************************************************************)
EXTENDS Integers

CONSTANTS RequestCapacity, ResponseCapacity, UpdateCapacity,
          StrategyRequests,  \* a strategy's requests under way (RequestsFit)
          MaxResponses, MaxUpdates  \* bounds of the model: what still arrives

ASSUME CapacityAssumption ==
  /\ RequestCapacity \in Nat /\ ResponseCapacity \in Nat \ {0}
  /\ UpdateCapacity \in Nat \ {0}
  /\ StrategyRequests \in 0 .. RequestCapacity
  /\ MaxResponses \in Nat /\ MaxUpdates \in Nat

VARIABLES
  algo_type,                     \* "RANDOM", or a strategy of the engine
  main,                          \* where the main thread is
  stopping_,                     \* of the trade engine
  run_,                          \* of each thread
  requests, responses, updates,  \* how many items each queue holds
  engine,                        \* where the engine is in its loop
  toRequest,                     \* what the strategy still sends for an update
  gateway,                       \* where the gateway is in its loop
  arrivedResponses,              \* read from the socket, not yet queued
  outbound,                      \* is there anything not yet given to ::send
  consumer,                      \* where the consumer is in its loop
  arrivedUpdates,                \* read from the sockets, not yet queued
  dropped,                       \* history: has a response been given up
  owed,                          \* history: queued when the engine was stopped,
                                 \* and not yet heard
  left                           \* what the exchange still sends

mainVars == <<algo_type, main, stopping_, run_>>
queues == <<requests, responses, updates>>
engineVars == <<engine, toRequest, owed>>
gatewayVars == <<gateway, arrivedResponses, outbound, dropped>>
consumerVars == <<consumer, arrivedUpdates>>
vars == <<mainVars, queues, engineVars, gatewayVars, consumerVars, left>>

Threads == {"engine", "consumer", "gateway"}
Nothing == [responses |-> 0, updates |-> 0]

Init == /\ algo_type \in {"STRATEGY", "RANDOM"}
        /\ main = "running" /\ stopping_ = FALSE
        /\ run_ = [thread \in Threads |-> TRUE]
        /\ requests = 0 /\ responses = 0 /\ updates = 0
        /\ engine = "run" /\ toRequest = 0 /\ owed = Nothing
        /\ gateway = "run" /\ arrivedResponses = 0
        /\ outbound = FALSE /\ dropped = FALSE
        /\ consumer = "run" /\ arrivedUpdates = 0
        /\ left = [responses |-> MaxResponses, updates |-> MaxUpdates]

-----------------------------------------------------------------------------
\* The trade engine's thread.

Engine(from, to) == /\ engine = from /\ engine' = to
                    /\ UNCHANGED <<mainVars, gatewayVars, consumerVars, left>>

\* The condition of the loop is three reads, and the other threads go on
\* between them.
\* Mutant: the queue of responses is not looked at.
EngineChecksUpdatesOnly ==
  /\ Engine("run", IF run_["engine"] THEN "responses" ELSE "checkUpdates")
  /\ UNCHANGED <<queues, toRequest, owed>>

EngineChecksRun ==
  /\ Engine("run", IF run_["engine"] THEN "responses" ELSE "checkResponses")
  /\ UNCHANGED <<queues, toRequest, owed>>
EngineChecksResponses ==
  /\ Engine("checkResponses", IF responses > 0 THEN "responses" ELSE "checkUpdates")
  /\ UNCHANGED <<queues, toRequest, owed>>
EngineChecksUpdates ==
  /\ Engine("checkUpdates", IF updates > 0 THEN "responses" ELSE "ended")
  /\ UNCHANGED <<queues, toRequest, owed>>

OneHeard(kind) == [owed EXCEPT ![kind] = IF @ > 0 THEN @ - 1 ELSE 0]

\* onOrderUpdate: no strategy sends anything for a response.
HearResponse ==
  /\ responses > 0
  /\ Engine("responses", "responses")
  /\ responses' = responses - 1
  /\ owed' = OneHeard("responses")
  /\ UNCHANGED <<requests, updates, toRequest>>
ResponsesHeard ==
  /\ responses = 0
  /\ Engine("responses", "updates")
  /\ UNCHANGED <<queues, toRequest, owed>>

\* Mutant: a strategy sends whatever it is still waiting for.
MayRequestAnything ==
  IF stopping_ \/ algo_type = "RANDOM" THEN {0} ELSE 0 .. RequestCapacity + 1

\* onOrderBookUpdate and onTradeUpdate look at stopping_ before they ask the
\* strategy, once for an update.
MayRequest ==
  IF stopping_ \/ algo_type = "RANDOM" THEN {0}
  ELSE {n \in 0 .. StrategyRequests : n + requests <= StrategyRequests}

TakeUpdate ==
  /\ updates > 0
  /\ Engine("updates", "strategy")
  /\ toRequest' \in MayRequest
  /\ UNCHANGED <<queues, owed>>

\* TradeEngine::sendClientRequest waits for room, and looks at nothing else.
SendRequest ==
  /\ toRequest > 0 /\ requests < RequestCapacity
  /\ Engine("strategy", "strategy")
  /\ requests' = requests + 1
  /\ toRequest' = toRequest - 1
  /\ UNCHANGED <<responses, updates, owed>>

\* UpdateReadIndex comes when the strategy has returned.
UpdateHeard ==
  /\ toRequest = 0
  /\ Engine("strategy", "updates")
  /\ updates' = updates - 1
  /\ owed' = OneHeard("updates")
  /\ UNCHANGED <<requests, responses, toRequest>>
UpdatesHeard ==
  /\ updates = 0
  /\ Engine("updates", "run")
  /\ UNCHANGED <<queues, toRequest, owed>>

EngineThread == \/ EngineChecksRun \/ EngineChecksResponses \/ EngineChecksUpdates
                \/ HearResponse \/ ResponsesHeard
                \/ TakeUpdate \/ SendRequest \/ UpdateHeard \/ UpdatesHeard

-----------------------------------------------------------------------------
\* The order gateway's thread.

Gateway(from, to) == /\ gateway = from /\ gateway' = to
                     /\ UNCHANGED <<mainVars, updates, engineVars, consumerVars>>

\* Mutant: the loop ends with run_.
GatewayGoesOnWhileRunning == run_["gateway"]

\* The condition of the loop.  When run_ is false nobody sends requests any
\* more, so that its two reads are one.
GatewayGoesOn == run_["gateway"] \/ requests > 0

\* TCPSocket::sendAndRecv, first half: what has arrived is read, in the loop
\* and once more after it.
GatewayReceives ==
  /\ Gateway("run", IF GatewayGoesOn THEN "queue" ELSE "lastQueue")
  /\ arrivedResponses' \in 0 .. left.responses
  /\ left' = [left EXCEPT !.responses = @ - arrivedResponses']
  /\ UNCHANGED <<requests, responses, outbound, dropped>>

\* recvCallback: a response waits for room as long as the gateway runs.
QueueResponse ==
  /\ gateway \in {"queue", "lastQueue"}
  /\ arrivedResponses > 0 /\ responses < ResponseCapacity
  /\ Gateway(gateway, gateway)
  /\ responses' = responses + 1
  /\ arrivedResponses' = arrivedResponses - 1
  /\ UNCHANGED <<requests, outbound, dropped, left>>

DropResponse ==
  /\ gateway \in {"queue", "lastQueue"}
  /\ arrivedResponses > 0 /\ responses = ResponseCapacity /\ ~ run_["gateway"]
  /\ Gateway(gateway, gateway)
  /\ arrivedResponses' = arrivedResponses - 1
  /\ dropped' = TRUE
  /\ UNCHANGED <<requests, responses, outbound, left>>

\* TCPSocket::sendAndRecv, second half: the buffer is given to ::send, once.
\* What the kernel does not take of it is forgotten and nobody sends it again,
\* after the loop neither (order_gateway.cpp 37): OrderEntry says what is lost.
GatewaySends ==
  /\ arrivedResponses = 0
  /\ \/ Gateway("queue", "requests")
     \/ Gateway("lastQueue", "ended")
  /\ outbound' = FALSE
  /\ UNCHANGED <<requests, responses, arrivedResponses, dropped, left>>

\* A request joins the send buffer.
TakeRequest ==
  /\ requests > 0
  /\ Gateway("requests", "requests")
  /\ requests' = requests - 1
  /\ outbound' = TRUE
  /\ UNCHANGED <<responses, arrivedResponses, dropped, left>>
RequestsTaken ==
  /\ requests = 0
  /\ Gateway("requests", "run")
  /\ UNCHANGED <<requests, responses, arrivedResponses, outbound, dropped, left>>

GatewayThread == \/ GatewayReceives \/ QueueResponse \/ DropResponse
                 \/ GatewaySends \/ TakeRequest \/ RequestsTaken

-----------------------------------------------------------------------------
\* The market data consumer's thread.

Consumer(from, to) == /\ consumer = from /\ consumer' = to
                      /\ UNCHANGED <<mainVars, requests, responses, engineVars, gatewayVars>>

ConsumerReceives ==
  /\ run_["consumer"]
  /\ Consumer("run", "queue")
  /\ arrivedUpdates' \in 0 .. left.updates
  /\ left' = [left EXCEPT !.updates = @ - arrivedUpdates']
  /\ UNCHANGED updates
ConsumerEnds ==
  /\ ~ run_["consumer"]
  /\ Consumer("run", "ended")
  /\ UNCHANGED <<updates, arrivedUpdates, left>>

\* recvCallback and checkSnapshotSync wait for room, run_ or no run_.
QueueUpdate ==
  /\ arrivedUpdates > 0 /\ updates < UpdateCapacity
  /\ Consumer("queue", "queue")
  /\ updates' = updates + 1
  /\ arrivedUpdates' = arrivedUpdates - 1
  /\ UNCHANGED left
UpdatesQueued ==
  /\ arrivedUpdates = 0
  /\ Consumer("queue", "run")
  /\ UNCHANGED <<updates, arrivedUpdates, left>>

ConsumerThread == ConsumerReceives \/ ConsumerEnds \/ QueueUpdate \/ UpdatesQueued

-----------------------------------------------------------------------------
\* The main thread.

Main(from, to) == /\ main = from /\ main' = to
                  /\ UNCHANGED <<algo_type, responses, updates, engine, toRequest,
                                 gatewayVars, consumerVars, left>>

\* RANDOM: requests are sent from here, whatever is still unanswered.
RandomRequest ==
  /\ algo_type = "RANDOM" /\ requests < RequestCapacity
  /\ Main("running", "running")
  /\ requests' = requests + 1
  /\ UNCHANGED <<stopping_, run_, owed>>

\* TradeEngine::stop, after a minute of silence, which says nothing of what
\* is on its way.
StopEngine ==
  /\ Main("running", "stopEngine")
  /\ stopping_' = TRUE
  /\ UNCHANGED <<run_, requests, owed>>
JoinEngine ==
  /\ Main("stopEngine", "joinEngine")
  /\ run_' = [run_ EXCEPT !["engine"] = FALSE]
  /\ owed' = [responses |-> responses, updates |-> updates]
  /\ UNCHANGED <<stopping_, requests>>

\* join returns, and the next thread is stopped.
\* Mutant: the engine is not waited for.
JoinConsumerAtOnce ==
  /\ Main("joinEngine", "joinConsumer")
  /\ run_' = [run_ EXCEPT !["consumer"] = FALSE]
  /\ UNCHANGED <<stopping_, requests, owed>>

JoinConsumer ==
  /\ engine = "ended"
  /\ Main("joinEngine", "joinConsumer")
  /\ run_' = [run_ EXCEPT !["consumer"] = FALSE]
  /\ UNCHANGED <<stopping_, requests, owed>>
JoinGateway ==
  /\ consumer = "ended"
  /\ Main("joinConsumer", "joinGateway")
  /\ run_' = [run_ EXCEPT !["gateway"] = FALSE]
  /\ UNCHANGED <<stopping_, requests, owed>>
Exit ==
  /\ gateway = "ended"
  /\ Main("joinGateway", "exit")
  /\ UNCHANGED <<stopping_, run_, requests, owed>>

Stopping == JoinEngine \/ JoinConsumer \/ JoinGateway \/ Exit

-----------------------------------------------------------------------------
Next == EngineThread \/ GatewayThread \/ ConsumerThread
        \/ RandomRequest \/ StopEngine \/ Stopping

Spec == Init /\ [][Next]_vars

\* Every thread has a core of its own, and the main thread does not stop half
\* way; nothing says that it ever begins to.
FairSpec == /\ Spec
            /\ WF_vars(EngineThread) /\ WF_vars(GatewayThread)
            /\ WF_vars(ConsumerThread) /\ WF_vars(Stopping)

-----------------------------------------------------------------------------
Messages == [responses : Nat, updates : Nat]
TypeOK ==
  /\ algo_type \in {"STRATEGY", "RANDOM"}
  /\ main \in {"running", "stopEngine", "joinEngine", "joinConsumer", "joinGateway", "exit"}
  /\ stopping_ \in BOOLEAN /\ run_ \in [Threads -> BOOLEAN]
  /\ requests \in 0 .. RequestCapacity
  /\ responses \in 0 .. ResponseCapacity
  /\ updates \in 0 .. UpdateCapacity
  /\ engine \in {"run", "checkResponses", "checkUpdates", "responses", "updates",
                 "strategy", "ended"}
  /\ toRequest \in 0 .. StrategyRequests
  /\ gateway \in {"run", "queue", "requests", "lastQueue", "ended"}
  /\ consumer \in {"run", "queue", "ended"}
  /\ arrivedResponses \in Nat /\ arrivedUpdates \in Nat
  /\ outbound \in BOOLEAN /\ dropped \in BOOLEAN
  /\ owed \in Messages /\ left \in Messages

\* Every request that was queued, by the strategy's last callback too, has
\* been in a buffer given to ::send when the gateway's thread is over
\* (order_gateway.cpp 18-37); whether the kernel took it is another matter
\* (OrderEntry).
RequestsOffered == gateway = "ended" => requests = 0 /\ ~ outbound

\* What was queued when the engine was told to stop it has heard before it is
\* over (trade_engine.cpp 87), although the queues are looked at one after
\* the other and fill meanwhile: the positions logged last count those fills.
HeardBeforeStop == engine = "ended" => owed = Nothing

\* A response is given up (order_gateway.cpp 77) only when nobody is left to
\* hear it.
ResponsesKept == dropped => engine = "ended"

\* The consumer waits for room that nobody makes any more.
ConsumerStuck == /\ engine = "ended"
                 /\ arrivedUpdates > 0 /\ updates = UpdateCapacity

\* Once stopping has begun the program comes to its end; the one thing that
\* can keep it is a market data queue filled between the ends of the engine
\* and the consumer (trade_engine.cpp 62, market_data_consumer.cpp 233).
StopEnds == main = "stopEngine" ~> (main = "exit" \/ ConsumerStuck)
=============================================================================
