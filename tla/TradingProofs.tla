---------------------------- MODULE TradingProofs ----------------------------
(***************************************************************************)
(* Two of the trading client's parts that share no state.                  *)
(*                                                                         *)
(* What its threads leave behind when they are stopped (TradingMain), for  *)
(* every capacity of the queues and whatever arrives meanwhile.  stop()    *)
(* joins a thread before it tells the next one to end, so that how far the *)
(* main thread has got says who is over (Order).  A queue that a thread    *)
(* has found empty in the condition of its loop stays empty of what it     *)
(* must still take: nobody writes requests when the gateway is told to     *)
(* end, and what was owed to the engine only it takes (Owing).             *)
(*                                                                         *)
(* What the position keeper makes of the fills (PositionKeeper), for any   *)
(* prices and quantities.  An average lies between the prices it was made  *)
(* of, and what is left open after a fill is a multiple of an average      *)
(* (AverageCorrect).  That the profit is exact needs money to be counted   *)
(* so finely that no average leaves a remainder (FineUnit); then what was  *)
(* realised is the cash and what is still open (Booked).                   *)
(***************************************************************************)
EXTENDS TradingMain, PositionKeeper, TLAPS

-----------------------------------------------------------------------------
\* The threads and how they are stopped.

\* How far stop() has got, thread by thread.
EngineOver == main \in {"joinConsumer", "joinGateway", "exit"}
ConsumerOver == main \in {"joinGateway", "exit"}

Order == /\ run_["engine"] <=> main \in {"running", "stopEngine"}
         /\ run_["consumer"] <=> ~ EngineOver
         /\ run_["gateway"] <=> ~ ConsumerOver
         /\ EngineOver => engine = "ended"
         /\ ConsumerOver => consumer = "ended"

\* A loop is left, or about to be, only by a thread that was told to end.
Leaving == /\ engine \in {"checkResponses", "checkUpdates", "ended"} => ~ run_["engine"]
           /\ consumer = "ended" => ~ run_["consumer"]
           /\ gateway \in {"lastQueue", "ended"} => ~ run_["gateway"]

\* What is owed to the engine is in its queues.
Owing == /\ run_["engine"] => owed = Nothing
         /\ owed.responses <= responses
         /\ owed.updates <= updates
         /\ engine \in {"checkUpdates", "ended"} => owed.responses = 0
         /\ engine = "ended" => owed.updates = 0

\* The update under work is still in the queue.
Working == engine = "strategy" => updates > 0

\* What the gateway has still to send.
Sending == /\ gateway \in {"lastQueue", "ended"} => requests = 0
           /\ gateway = "ended" => ~ outbound

\* A strategy's requests, sent and to be sent.
Requesting == /\ toRequest > 0 => algo_type = "STRATEGY"
              /\ algo_type = "STRATEGY" => toRequest + requests <= StrategyRequests

IInv == /\ TypeOK
        /\ Order
        /\ Leaving
        /\ Owing
        /\ Working
        /\ Sending
        /\ Requesting
        /\ ResponsesKept

\* A strategy never waits for room: the gateway, which may itself wait for
\* the engine to take a response (order_gateway.cpp 73), need not come for the
\* engine to get out of sendClientRequest (trade_engine.cpp 77).
StrategyNeverWaits == toRequest > 0 => requests < RequestCapacity

-----------------------------------------------------------------------------
\* The inductive invariant holds at the start.
LEMMA InitInvariant == Init => IInv
<1> SUFFICES ASSUME Init PROVE IInv
  OBVIOUS
<1>b. /\ ~ stopping_ /\ stopping_ \in BOOLEAN
      /\ ~ outbound /\ outbound \in BOOLEAN
      /\ ~ dropped /\ dropped \in BOOLEAN
  BY Zenon DEF Init
<1>1. TypeOK
  BY <1>b, CapacityAssumption DEF Init, TypeOK, Threads, Nothing, Messages
<1>2. Order /\ Leaving
  BY DEF Init, Order, Leaving, EngineOver, ConsumerOver, Threads
<1>3. Owing /\ Working
  BY DEF Init, Owing, Working, Nothing
<1>4. Sending /\ Requesting
  BY CapacityAssumption DEF Init, Sending, Requesting
<1>5. ResponsesKept
  BY <1>b DEF ResponsesKept
<1> QED
  BY <1>1, <1>2, <1>3, <1>4, <1>5 DEF IInv

-----------------------------------------------------------------------------
\* One item heard is one less that is owed, if any is.
LEMMA HeardOne ==
  ASSUME owed \in Messages
  PROVE  /\ OneHeard("responses") \in Messages
         /\ OneHeard("responses").responses = IF owed.responses > 0 THEN owed.responses - 1 ELSE 0
         /\ OneHeard("responses").updates = owed.updates
         /\ OneHeard("updates") \in Messages
         /\ OneHeard("updates").responses = owed.responses
         /\ OneHeard("updates").updates = IF owed.updates > 0 THEN owed.updates - 1 ELSE 0
         /\ owed = Nothing => OneHeard("responses") = Nothing /\ OneHeard("updates") = Nothing
<1>1. PICK r \in Nat, u \in Nat : owed = [responses |-> r, updates |-> u]
  BY DEF Messages
<1>2. OneHeard("responses") = [responses |-> IF r > 0 THEN r - 1 ELSE 0, updates |-> u]
  BY <1>1 DEF OneHeard
<1>3. OneHeard("updates") = [responses |-> r, updates |-> IF u > 0 THEN u - 1 ELSE 0]
  BY <1>1 DEF OneHeard
<1>4. (IF r > 0 THEN r - 1 ELSE 0) \in Nat /\ (IF u > 0 THEN u - 1 ELSE 0) \in Nat
  OBVIOUS
<1> QED
  BY <1>1, <1>2, <1>3, <1>4 DEF Messages, Nothing

\* The engine's steps keep the invariant.
LEMMA EngineInvariant ==
  ASSUME IInv, EngineThread PROVE IInv'
<1> USE CapacityAssumption DEF TypeOK, Order, Leaving, Owing, Working, Sending, Requesting, ResponsesKept,
         EngineOver, ConsumerOver, Threads, Messages, Nothing, IInv
<1>1. CASE EngineChecksRun
  BY <1>1 DEF EngineChecksRun, Engine, mainVars, queues, gatewayVars, consumerVars
<1>2. CASE EngineChecksResponses
  BY <1>2 DEF EngineChecksResponses, Engine, mainVars, queues, gatewayVars, consumerVars
<1>3. CASE EngineChecksUpdates
  BY <1>3 DEF EngineChecksUpdates, Engine, mainVars, queues, gatewayVars, consumerVars
<1>4. CASE HearResponse
  <2> USE DEF HearResponse, Engine, mainVars, gatewayVars, consumerVars
  <2>1. owed \in Messages /\ owed' = OneHeard("responses")
    BY <1>4
  <2>2. /\ owed' \in Messages
        /\ owed'.responses = IF owed.responses > 0 THEN owed.responses - 1 ELSE 0
        /\ owed'.updates = owed.updates
        /\ owed = Nothing => owed' = Nothing
    <3> HIDE DEF Messages, Nothing
    <3> QED
      BY <2>1, HeardOne
  <2> HIDE DEF Messages, Nothing
  <2>3. TypeOK'
    BY <1>4, <2>2
  <2>4. Owing'
    <3>1. owed.responses \in Nat /\ owed.updates \in Nat
      BY <2>1 DEF Messages
    <3> QED
      BY <1>4, <2>2, <3>1
  <2>5. (Order /\ Leaving /\ Working /\ Sending /\ Requesting /\ ResponsesKept)'
    BY <1>4
  <2> QED
    BY <2>3, <2>4, <2>5
<1>5. CASE ResponsesHeard
  BY <1>5 DEF ResponsesHeard, Engine, mainVars, queues, gatewayVars, consumerVars
<1>6. CASE TakeUpdate
  <2>1. /\ toRequest' \in 0 .. StrategyRequests
        /\ toRequest' > 0 => algo_type = "STRATEGY"
        /\ algo_type = "STRATEGY" => toRequest' + requests <= StrategyRequests
    <3>1. CASE stopping_ \/ algo_type = "RANDOM"
      <4>1. toRequest' = 0
        BY <1>6, <3>1 DEF TakeUpdate, MayRequest
      <4> QED
        BY <4>1
    <3>2. CASE ~ (stopping_ \/ algo_type = "RANDOM")
      BY <1>6, <3>2 DEF TakeUpdate, MayRequest
    <3> QED
      BY <3>1, <3>2
  <2> QED
    BY <1>6, <2>1 DEF TakeUpdate, Engine, mainVars, queues, gatewayVars, consumerVars
<1>7. CASE SendRequest
  BY <1>7 DEF SendRequest, Engine, mainVars, queues, gatewayVars, consumerVars
<1>8. CASE UpdateHeard
  <2> USE DEF UpdateHeard, Engine, mainVars, gatewayVars, consumerVars
  <2>1. owed \in Messages /\ owed' = OneHeard("updates")
    BY <1>8
  <2>2. /\ owed' \in Messages
        /\ owed'.updates = IF owed.updates > 0 THEN owed.updates - 1 ELSE 0
        /\ owed'.responses = owed.responses
        /\ owed = Nothing => owed' = Nothing
    <3> HIDE DEF Messages, Nothing
    <3> QED
      BY <2>1, HeardOne
  <2> HIDE DEF Messages, Nothing
  <2>3. TypeOK'
    BY <1>8, <2>2
  <2>4. Owing'
    <3>1. owed.responses \in Nat /\ owed.updates \in Nat
      BY <2>1 DEF Messages
    <3> QED
      BY <1>8, <2>2, <3>1
  <2>5. (Order /\ Leaving /\ Working /\ Sending /\ Requesting /\ ResponsesKept)'
    BY <1>8
  <2> QED
    BY <2>3, <2>4, <2>5
<1>9. CASE UpdatesHeard
  BY <1>9 DEF UpdatesHeard, Engine, mainVars, queues, gatewayVars, consumerVars
<1> QED
  BY <1>1, <1>2, <1>3, <1>4, <1>5, <1>6, <1>7, <1>8, <1>9 DEF EngineThread

\* The gateway's steps keep the invariant.
LEMMA GatewayInvariant ==
  ASSUME IInv, GatewayThread PROVE IInv'
<1> USE CapacityAssumption DEF TypeOK, Order, Leaving, Owing, Working, Sending, Requesting, ResponsesKept,
         EngineOver, ConsumerOver, Threads, Messages, Nothing, IInv
<1>1. CASE GatewayReceives
  BY <1>1 DEF GatewayReceives, Gateway, mainVars, engineVars, consumerVars, GatewayGoesOn
<1>2. CASE QueueResponse
  BY <1>2 DEF QueueResponse, Gateway, mainVars, engineVars, consumerVars
<1>3. CASE DropResponse
  BY <1>3 DEF DropResponse, Gateway, mainVars, engineVars, consumerVars
<1>4. CASE GatewaySends
  BY <1>4 DEF GatewaySends, Gateway, mainVars, engineVars, consumerVars
<1>5. CASE TakeRequest
  BY <1>5 DEF TakeRequest, Gateway, mainVars, engineVars, consumerVars
<1>6. CASE RequestsTaken
  BY <1>6 DEF RequestsTaken, Gateway, mainVars, engineVars, consumerVars
<1> QED
  BY <1>1, <1>2, <1>3, <1>4, <1>5, <1>6 DEF GatewayThread

\* The consumer's steps keep the invariant.
LEMMA ConsumerInvariant ==
  ASSUME IInv, ConsumerThread PROVE IInv'
<1> USE CapacityAssumption DEF TypeOK, Order, Leaving, Owing, Working, Sending, Requesting, ResponsesKept,
         EngineOver, ConsumerOver, Threads, Messages, Nothing, IInv
<1>1. CASE ConsumerReceives
  BY <1>1 DEF ConsumerReceives, Consumer, mainVars, engineVars, gatewayVars
<1>2. CASE ConsumerEnds
  BY <1>2 DEF ConsumerEnds, Consumer, mainVars, engineVars, gatewayVars
<1>3. CASE QueueUpdate
  BY <1>3 DEF QueueUpdate, Consumer, mainVars, engineVars, gatewayVars
<1>4. CASE UpdatesQueued
  BY <1>4 DEF UpdatesQueued, Consumer, mainVars, engineVars, gatewayVars
<1> QED
  BY <1>1, <1>2, <1>3, <1>4 DEF ConsumerThread

\* The main thread's steps keep the invariant.
LEMMA MainInvariant ==
  ASSUME IInv, RandomRequest \/ StopEngine \/ Stopping PROVE IInv'
<1> USE CapacityAssumption DEF TypeOK, Order, Leaving, Owing, Working, Sending, Requesting, ResponsesKept,
         EngineOver, ConsumerOver, Threads, Messages, Nothing, IInv
<1>1. CASE RandomRequest
  BY <1>1 DEF RandomRequest, Main, gatewayVars, consumerVars
<1>2. CASE StopEngine
  BY <1>2 DEF StopEngine, Main, gatewayVars, consumerVars
<1>3. CASE JoinEngine
  BY <1>3 DEF JoinEngine, Main, gatewayVars, consumerVars
<1>4. CASE JoinConsumer
  BY <1>4 DEF JoinConsumer, Main, gatewayVars, consumerVars
<1>5. CASE JoinGateway
  BY <1>5 DEF JoinGateway, Main, gatewayVars, consumerVars
<1>6. CASE Exit
  BY <1>6 DEF Exit, Main, gatewayVars, consumerVars
<1> QED
  BY <1>1, <1>2, <1>3, <1>4, <1>5, <1>6 DEF Stopping

\* Every behaviour keeps the inductive invariant.
THEOREM Invariance == Spec => []IInv
<1>1. IInv /\ [Next]_vars => IInv'
  <2>1. IInv /\ EngineThread => IInv'
    BY EngineInvariant
  <2>2. IInv /\ GatewayThread => IInv'
    BY GatewayInvariant
  <2>3. IInv /\ ConsumerThread => IInv'
    BY ConsumerInvariant
  <2>4. IInv /\ (RandomRequest \/ StopEngine \/ Stopping) => IInv'
    BY MainInvariant
  <2>5. IInv /\ UNCHANGED vars => IInv'
    BY DEF IInv, TypeOK, Order, Leaving, Owing, Working, Sending, Requesting,
           ResponsesKept, EngineOver, ConsumerOver, vars, mainVars, queues,
           engineVars, gatewayVars, consumerVars
  <2> QED
    BY <2>1, <2>2, <2>3, <2>4, <2>5 DEF Next
<1> QED
  BY InitInvariant, <1>1, PTL DEF Spec

\* Every variable keeps its range, the queues their capacities.
THEOREM TypeCorrect == Spec => []TypeOK
<1>1. IInv => TypeOK
  BY DEF IInv
<1> QED
  BY Invariance, <1>1, PTL

\* Whatever the capacities and whenever the program is stopped, every request
\* has been in a buffer given to ::send when the gateway's thread is over
\* (order_gateway.cpp 18-37): none is left in the queue or in the buffer.
THEOREM RequestsOfferedCorrect == Spec => []RequestsOffered
<1>1. IInv => RequestsOffered
  BY DEF IInv, Sending, RequestsOffered
<1> QED
  BY Invariance, <1>1, PTL

\* The engine hears everything that was queued when it was told to stop.
THEOREM HeardBeforeStopCorrect == Spec => []HeardBeforeStop
<1>1. IInv => HeardBeforeStop
  <2> SUFFICES ASSUME IInv, engine = "ended" PROVE owed = Nothing
    BY DEF HeardBeforeStop
  <2>1. owed.responses = 0 /\ owed.updates = 0 /\ owed \in Messages
    BY DEF IInv, Owing, TypeOK
  <2> QED
    BY <2>1 DEF Messages, Nothing
<1> QED
  BY Invariance, <1>1, PTL

\* No response is given up while the engine could hear it.
THEOREM ResponsesKeptCorrect == Spec => []ResponsesKept
<1>1. IInv => ResponsesKept
  BY DEF IInv
<1> QED
  BY Invariance, <1>1, PTL

\* The engine never waits for room in the queue of requests.
THEOREM NeverWaits == Spec => []StrategyNeverWaits
<1>1. IInv => StrategyNeverWaits
  BY CapacityAssumption DEF IInv, TypeOK, Requesting, StrategyNeverWaits
<1> QED
  BY Invariance, <1>1, PTL

-----------------------------------------------------------------------------
\* The position keeper.

\* Division by what is held.
LEMMA DivisionFacts ==
  ASSUME NEW v \in Nat, NEW n \in Nat \ {0}
  PROVE  /\ v \div n \in Nat
         /\ v % n \in 0 .. (n - 1)
         /\ v = n * (v \div n) + (v % n)
  OBVIOUS

\* A distance is a number.
LEMMA AbsType == \A n \in Int : Abs(n) \in Nat
  BY DEF Abs

\* More of the same price is more.
LEMMA Scaled ==
  ASSUME NEW n \in Nat, NEW x \in Nat, NEW y \in Nat, x <= y
  PROVE  n * x <= n * y
  OBVIOUS

\* The average of what lies between two prices lies between them.
LEMMA AverageBetween ==
  ASSUME NEW v \in Nat, NEW n \in Nat \ {0}, NEW low \in Nat, NEW high \in Nat,
         n * low <= v, v <= n * high
  PROVE  low <= v \div n /\ v \div n <= high
<1> DEFINE a == v \div n
           r == v % n
<1>1. a \in Nat /\ r \in 0 .. (n - 1) /\ v = n * a + r
  BY DivisionFacts
<1> HIDE DEF a, r
<1>2. low <= a
  <2> SUFFICES ASSUME a + 1 <= low PROVE FALSE
    BY <1>1
  <2>1. n * (a + 1) <= n * low
    BY Scaled, <1>1
  <2>2. n * (a + 1) = n * a + n
    BY <1>1
  <2>3. n * a \in Nat /\ n * low \in Nat
    BY <1>1
  <2> QED BY <2>1, <2>2, <2>3, <1>1
<1>3. a <= high
  <2> SUFFICES ASSUME high + 1 <= a PROVE FALSE
    BY <1>1
  <2>1. n * (high + 1) <= n * a
    BY Scaled, <1>1
  <2>2. n * (high + 1) = n * high + n
    OBVIOUS
  <2>3. n * a \in Nat /\ n * high \in Nat
    BY <1>1
  <2> QED BY <2>1, <2>2, <2>3, <1>1
<1> QED BY <1>2, <1>3 DEF a

-----------------------------------------------------------------------------
\* What is held of a side, and at what it was opened.
Held(side) == position_ * SideValue(side)
Averaged(held, open) ==
  \E low, high \in Prices : held * low * Unit <= open /\ open <= held * high * Unit

KeeperTyped ==
  /\ position_ \in Int /\ Abs(position_) <= MaxPosition
  /\ real_pnl_ \in Int /\ unreal_pnl_ \in Int /\ total_pnl_ \in Int
  /\ open_vwap_ \in [Sides -> Nat]
  /\ fills \in 0 .. MaxFills /\ cash \in Int /\ mark \in Int

\* Nothing is open of a side that is not held.
NothingUnheld == \A side \in Sides : Held(side) <= 0 => open_vwap_[side] = 0

\* What is open of a side that is held was opened at prices there were.
HeldAveraged ==
  \A side \in Sides : Held(side) > 0 => Averaged(Held(side), open_vwap_[side])

KeeperInv == KeeperTyped /\ NothingUnheld /\ HeldAveraged

\* What a fill makes of a position p, seen from its side, that becomes q: what is
\* open of its side and of the other, and the profit realised, before and after.
Turned(p, q, price, executed, mine, others, mine2, others2, real, real2, sign) ==
  \/ /\ p >= 0 /\ real2 = real
     /\ mine2 = mine + price * executed /\ others2 = 0
  \/ /\ p < 0
     /\ real2 = real + Least(executed, 0 - p) * ((others \div (0 - p)) - price) * sign
     /\ \/ q = 0 /\ mine2 = 0 /\ others2 = 0
        \/ q > 0 /\ mine2 = price * q /\ others2 = 0
        \/ q < 0 /\ mine2 = 0 /\ others2 = (others \div (0 - p)) * (0 - q)

\* A fill, seen from its side.
LEMMA FillFacts ==
  ASSUME KeeperInv, NEW side \in Sides, NEW price \in Nat, NEW executed \in Quantities,
         AddFill(side, price, executed)
  PROVE  /\ Held(side) \in Int /\ executed \in Nat \ {0} /\ Held(side)' = Held(side) + executed
         /\ Opposite(side) \in Sides /\ Opposite(side) # side
         /\ SideValue(side) \in {1, -1}
         /\ Held(Opposite(side)) = 0 - Held(side) /\ Held(Opposite(side))' = 0 - Held(side)'
         /\ Abs(position_') <= MaxPosition /\ position_' \in Int
         /\ open_vwap_' \in [Sides -> Nat]
         /\ Turned(Held(side), Held(side)', price, executed,
                   open_vwap_[side], open_vwap_[Opposite(side)],
                   open_vwap_'[side], open_vwap_'[Opposite(side)],
                   real_pnl_, real_pnl_', SideValue(side))
<1> DEFINE p == Held(side)
           q == Held(side)'
           v == open_vwap_[Opposite(side)]
<1> USE KeeperAssumption
<1>1. /\ Opposite(side) \in Sides /\ Opposite(side) # side
      /\ SideValue(side) \in {1, -1} /\ SideValue(Opposite(side)) = 0 - SideValue(side)
      /\ \A s \in Sides : s = side \/ s = Opposite(side)
  BY DEF Sides, Opposite, SideValue
<1>2. /\ executed \in Nat \ {0} /\ position_ \in Int
      /\ position_' = position_ + executed * SideValue(side)
      /\ Abs(position_') <= MaxPosition
      /\ open_vwap_' = Open(side, price, executed, position_')
      /\ real_pnl_' = real_pnl_ + Realised(side, price, executed)
  BY DEF AddFill, KeeperInv, KeeperTyped
<1>3. /\ p \in Int /\ q \in Int /\ q = p + executed
      /\ Held(Opposite(side)) = 0 - p /\ Held(Opposite(side))' = 0 - q
  BY <1>1, <1>2 DEF Held
<1>4. /\ Opens(side) <=> p >= 0
      /\ p < 0 => Abs(position_) = 0 - p
      /\ p < 0 /\ q > 0 => Abs(position_') = q
      /\ p < 0 /\ q < 0 => Abs(position_') = 0 - q
      /\ position_' = 0 <=> q = 0
      /\ p < 0 => (position_ * position_' < 0 <=> q > 0)
  BY <1>1, <1>2 DEF Held, Opens, Abs
<1>5. /\ open_vwap_ \in [Sides -> Nat] /\ v \in Nat /\ open_vwap_[side] \in Nat
      /\ p <= 0 => open_vwap_[side] = 0
      /\ p >= 0 => v = 0
  <2>1. open_vwap_ \in [Sides -> Nat]
    BY DEF KeeperInv, KeeperTyped
  <2>2. p <= 0 => open_vwap_[side] = 0
    BY DEF KeeperInv, NothingUnheld
  <2>3. Held(Opposite(side)) <= 0 => v = 0
    BY <1>1 DEF KeeperInv, NothingUnheld
  <2> QED BY <2>1, <2>2, <2>3, <1>1, <1>3
<1> HIDE DEF p, q, v
<1>6. NothingOpen \in [Sides -> Nat] /\ \A s \in Sides : NothingOpen[s] = 0
  BY DEF NothingOpen
<1>7. p < 0 => v \div (0 - p) \in Nat
  <2>1. p < 0 => 0 - p \in Nat \ {0}
    BY <1>3
  <2> QED BY <2>1, <1>5, DivisionFacts
<1>8. /\ open_vwap_' = Open(side, price, executed, position_')
      /\ real_pnl_' = real_pnl_ + Realised(side, price, executed)
  BY <1>2
<1>9. p < 0 => Realised(side, price, executed)
                 = Least(executed, 0 - p) * ((v \div (0 - p)) - price) * SideValue(side)
  <2> SUFFICES ASSUME p < 0 PROVE Realised(side, price, executed)
                 = Least(executed, 0 - p) * ((v \div (0 - p)) - price) * SideValue(side)
    OBVIOUS
  <2>1. ~ Opens(side) /\ Abs(position_) = 0 - p
    BY <1>3, <1>4
  <2> QED BY <2>1, Zenon DEF Realised, Average, v
<1> DEFINE mine == open_vwap_'[side]
           others == open_vwap_'[Opposite(side)]
           Outcome == Turned(p, q, price, executed, open_vwap_[side], v, mine, others,
                             real_pnl_, real_pnl_', SideValue(side))
           Goal == open_vwap_' \in [Sides -> Nat] /\ Outcome
<1>10. ASSUME p >= 0 PROVE Goal
  <2>1. Opens(side) /\ position_' # 0
    BY <1>2, <1>3, <1>4, <1>10
  <2>2. open_vwap_' = [open_vwap_ EXCEPT ![side] = open_vwap_[side] + price * executed]
    BY <1>8, <2>1, Zenon DEF Open
  <2>3. Realised(side, price, executed) = 0
    BY <2>1, Zenon DEF Realised
  <2>4. open_vwap_[side] + price * executed \in Nat
    BY <1>2, <1>5
  <2>5. /\ open_vwap_' \in [Sides -> Nat]
        /\ open_vwap_'[side] = open_vwap_[side] + price * executed
        /\ open_vwap_'[Opposite(side)] = 0
    BY <2>2, <2>4, <1>1, <1>5, <1>10 DEF v
  <2>6. real_pnl_' = real_pnl_
    BY <1>8, <2>3 DEF KeeperInv, KeeperTyped
  <2> QED BY <2>5, <2>6, <1>10, Zenon DEF Turned
<1>11. ASSUME p < 0, q = 0 PROVE Goal
  <2>1. position_' = 0
    BY <1>4, <1>11
  <2>2. open_vwap_' = NothingOpen
    BY <1>8, <2>1, Zenon DEF Open
  <2> QED BY <2>2, <1>1, <1>6, <1>8, <1>9, <1>11, Zenon DEF Turned
<1>12. ASSUME p < 0, q > 0 PROVE Goal
  <2>1. /\ ~ Opens(side) /\ position_' # 0 /\ position_ * position_' < 0
        /\ Abs(position_') = q
    BY <1>3, <1>4, <1>12
  <2>2. open_vwap_' = [NothingOpen EXCEPT ![side] = price * q]
    BY <1>8, <2>1, Zenon DEF Open
  <2>3. price * q \in Nat
    BY <1>3, <1>12
  <2>4. /\ open_vwap_' \in [Sides -> Nat] /\ open_vwap_'[side] = price * q
        /\ open_vwap_'[Opposite(side)] = 0
    BY <2>2, <2>3, <1>1, <1>6
  <2> QED BY <2>4, <1>8, <1>9, <1>12, Zenon DEF Turned
<1>13. ASSUME p < 0, q < 0 PROVE Goal
  <2>1. /\ ~ Opens(side) /\ position_' # 0 /\ ~ (position_ * position_' < 0)
        /\ Abs(position_') = 0 - q /\ Abs(position_) = 0 - p
    BY <1>3, <1>4, <1>13
  <2> DEFINE rest == (v \div (0 - p)) * (0 - q)
  <2>2. open_vwap_' = [open_vwap_ EXCEPT ![Opposite(side)] = rest]
    BY <1>8, <2>1, Zenon DEF Open, Average, v
  <2>3. rest \in Nat
    BY <1>3, <1>7, <1>13
  <2> HIDE DEF rest
  <2>4. /\ open_vwap_' \in [Sides -> Nat] /\ open_vwap_'[side] = 0
        /\ open_vwap_'[Opposite(side)] = rest
    <3>1. open_vwap_[side] = 0
      BY <1>3, <1>5, <1>13
    <3> QED BY <2>2, <2>3, <3>1, <1>1, <1>5
  <2> QED BY <2>4, <1>8, <1>9, <1>13, Zenon DEF Turned, rest
<1>14. p >= 0 \/ (p < 0 /\ q = 0) \/ (p < 0 /\ q > 0) \/ (p < 0 /\ q < 0)
  BY <1>3
<1>15. Goal
  BY <1>10, <1>11, <1>12, <1>13, <1>14, Zenon
<1> HIDE DEF Goal
<1> QED BY <1>1, <1>2, <1>3, <1>15 DEF p, q, v, Goal

\* The keeper as constructed holds nothing.
LEMMA KeeperStart == KeeperInit => KeeperInv
<1> SUFFICES ASSUME KeeperInit PROVE KeeperInv
  OBVIOUS
<1>1. \A side \in Sides : Held(side) = 0 /\ open_vwap_[side] = 0
  BY DEF KeeperInit, Held, Sides, SideValue, NothingOpen
<1>2. KeeperTyped
  BY KeeperAssumption DEF KeeperInit, KeeperTyped, NothingOpen, Abs
<1> QED BY <1>1, <1>2 DEF KeeperInv, NothingUnheld, HeldAveraged

\* One price, and all of a position at it.
LEMMA OpenedAt ==
  ASSUME NEW price \in Prices, NEW q \in Nat
  PROVE  Averaged(q, (price * Unit) * q)
<1>1. price \in Nat /\ Unit \in Nat
  BY KeeperAssumption
<1>2. q * price * Unit = (price * Unit) * q /\ (price * Unit) * q \in Nat
  BY <1>1
<1> DEFINE all == (price * Unit) * q
<1>3. q * price * Unit <= all /\ all <= q * price * Unit
  BY <1>2
<1> HIDE DEF all
<1>4. Averaged(q, all)
  BY <1>3, Zenon DEF Averaged
<1> QED BY <1>4 DEF all

\* More of a side is opened.
LEMMA OpenedMore ==
  ASSUME NEW p \in Nat \ {0}, NEW open \in Nat, Averaged(p, open),
         NEW price \in Prices, NEW executed \in Nat
  PROVE  Averaged(p + executed, open + (price * Unit) * executed)
<1>1. PICK low \in Prices, high \in Prices : p * low * Unit <= open /\ open <= p * high * Unit
  BY DEF Averaged
<1>2. low \in Nat /\ high \in Nat /\ price \in Nat /\ Unit \in Nat
  BY KeeperAssumption
<1> DEFINE q == p + executed
           more == (price * Unit) * executed
<1>3. PICK l \in Prices : l <= low /\ l <= price
  BY <1>2
<1>4. PICK h \in Prices : high <= h /\ price <= h
  BY <1>2
<1>5. l \in Nat /\ h \in Nat
  BY KeeperAssumption
<1>6. q * l * Unit <= open + more
  <2>1. p * l * Unit <= p * low * Unit
    <3>1. p * l <= p * low
      BY <1>2, <1>3, <1>5, Scaled
    <3>2. Unit * (p * l) <= Unit * (p * low)
      BY <3>1, <1>2, <1>5, Scaled
    <3> QED BY <3>2, <1>2, <1>5
  <2>2. executed * l * Unit <= more
    <3>1. executed * l <= executed * price
      BY <1>2, <1>3, <1>5, Scaled
    <3>2. Unit * (executed * l) <= Unit * (executed * price)
      BY <3>1, <1>2, <1>5, Scaled
    <3> QED BY <3>2, <1>2, <1>5
  <2>3. q * l * Unit = p * l * Unit + executed * l * Unit
    BY <1>2, <1>5
  <2>4. p * l * Unit \in Nat /\ executed * l * Unit \in Nat /\ more \in Nat
        /\ p * low * Unit \in Nat
    BY <1>2, <1>5
  <2> QED BY <2>1, <2>2, <2>3, <2>4, <1>1
<1>7. open + more <= q * h * Unit
  <2>1. p * high * Unit <= p * h * Unit
    <3>1. p * high <= p * h
      BY <1>2, <1>4, <1>5, Scaled
    <3>2. Unit * (p * high) <= Unit * (p * h)
      BY <3>1, <1>2, <1>5, Scaled
    <3> QED BY <3>2, <1>2, <1>5
  <2>2. more <= executed * h * Unit
    <3>1. executed * price <= executed * h
      BY <1>2, <1>4, <1>5, Scaled
    <3>2. Unit * (executed * price) <= Unit * (executed * h)
      BY <3>1, <1>2, <1>5, Scaled
    <3> QED BY <3>2, <1>2, <1>5
  <2>3. q * h * Unit = p * h * Unit + executed * h * Unit
    BY <1>2, <1>5
  <2>4. p * h * Unit \in Nat /\ executed * h * Unit \in Nat /\ more \in Nat
        /\ p * high * Unit \in Nat
    BY <1>2, <1>5
  <2> QED BY <2>1, <2>2, <2>3, <2>4, <1>1
<1> HIDE DEF q, more
<1>8. Averaged(q, open + more)
  BY <1>6, <1>7, Zenon DEF Averaged
<1> QED BY <1>8 DEF q, more

\* A part of what is open is left, at its average.
LEMMA OpenedLess ==
  ASSUME NEW p \in Nat \ {0}, NEW open \in Nat, Averaged(p, open), NEW q \in Nat
  PROVE  Averaged(q, (open \div p) * q)
<1>1. PICK low \in Prices, high \in Prices : p * low * Unit <= open /\ open <= p * high * Unit
  BY DEF Averaged
<1>2. low \in Nat /\ high \in Nat /\ Unit \in Nat
  BY KeeperAssumption
<1> DEFINE l == low * Unit
           h == high * Unit
           a == open \div p
<1>3. l \in Nat /\ h \in Nat /\ p * l <= open /\ open <= p * h
  BY <1>1, <1>2
<1>4. a \in Nat
  BY DivisionFacts
<1> HIDE DEF l, h
<1>5. l <= a /\ a <= h
  BY <1>3, AverageBetween
<1> HIDE DEF a
<1>6. q * l <= q * a /\ q * a <= q * h
  BY <1>3, <1>4, <1>5, Scaled
<1>7. q * l = q * low * Unit /\ q * h = q * high * Unit /\ q * a = a * q
  BY <1>2, <1>4 DEF l, h
<1>8. Averaged(q, a * q)
  BY <1>6, <1>7, Zenon DEF Averaged
<1> QED BY <1>8 DEF a

\* A fill keeps it.
LEMMA FillKeeps ==
  ASSUME KeeperInv, NEW side \in Sides, NEW price \in Prices, NEW executed \in Quantities,
         AddFill(side, price * Unit, executed)
  PROVE  KeeperInv'
<1> DEFINE cost == price * Unit
           p == Held(side)
           q == Held(side)'
           v == open_vwap_[Opposite(side)]
           mine == open_vwap_'[side]
           others == open_vwap_'[Opposite(side)]
<1>1. cost \in Nat
  BY KeeperAssumption
<1> HIDE DEF cost
<1>2. AddFill(side, cost, executed)
  BY DEF cost
<1>3. /\ p \in Int /\ executed \in Nat \ {0} /\ q = p + executed
      /\ Opposite(side) \in Sides /\ Opposite(side) # side
      /\ SideValue(side) \in {1, -1}
      /\ Held(Opposite(side)) = 0 - p /\ Held(Opposite(side))' = 0 - q
      /\ Abs(position_') <= MaxPosition /\ position_' \in Int
      /\ open_vwap_' \in [Sides -> Nat]
      /\ Turned(p, q, cost, executed, open_vwap_[side], v, mine, others,
                real_pnl_, real_pnl_', SideValue(side))
  BY <1>1, <1>2, FillFacts
<1>4. /\ open_vwap_[side] \in Nat /\ v \in Nat
      /\ p <= 0 => open_vwap_[side] = 0
      /\ p > 0 => Averaged(p, open_vwap_[side])
      /\ 0 - p > 0 => Averaged(0 - p, v)
  <2>1. open_vwap_ \in [Sides -> Nat]
    BY DEF KeeperInv, KeeperTyped
  <2>2. /\ p <= 0 => open_vwap_[side] = 0
        /\ p > 0 => Averaged(p, open_vwap_[side])
    BY DEF KeeperInv, NothingUnheld, HeldAveraged
  <2>3. Held(Opposite(side)) > 0 => Averaged(Held(Opposite(side)), v)
    BY <1>3 DEF KeeperInv, HeldAveraged
  <2> QED BY <2>1, <2>2, <2>3, <1>3
<1> HIDE DEF p, q, v
<1>5. ASSUME p >= 0
      PROVE  q > 0 /\ Averaged(q, mine) /\ others = 0
  <2>1. mine = open_vwap_[side] + cost * executed /\ others = 0 /\ q > 0
    BY <1>3, <1>5 DEF Turned
  <2>2. CASE p > 0
    <3>1. Averaged(p + executed, open_vwap_[side] + (price * Unit) * executed)
      BY <1>3, <1>4, <2>2, OpenedMore
    <3> QED BY <3>1, <2>1, <1>3, Zenon DEF cost
  <2>3. CASE p = 0
    <3>1. Averaged(executed, (price * Unit) * executed)
      BY <1>3, OpenedAt
    <3>2. q = executed /\ open_vwap_[side] = 0
      BY <1>3, <1>4, <2>3
    <3>3. mine = cost * executed
      BY <3>2, <2>1, <1>1, <1>3
    <3> QED BY <3>1, <3>2, <3>3, <2>1, Zenon DEF cost
  <2> QED BY <2>1, <2>2, <2>3, <1>3, <1>5
<1>6. ASSUME p < 0, q = 0
      PROVE  mine = 0 /\ others = 0
  BY <1>3, <1>6 DEF Turned
<1>7. ASSUME p < 0, q > 0
      PROVE  Averaged(q, mine) /\ others = 0
  <2>1. mine = cost * q /\ others = 0
    BY <1>3, <1>7 DEF Turned
  <2>2. q \in Nat
    BY <1>3, <1>7
  <2> QED BY <2>1, <2>2, OpenedAt, Zenon DEF cost
<1>8. ASSUME p < 0, q < 0
      PROVE  mine = 0 /\ Averaged(0 - q, others)
  <2>1. mine = 0 /\ others = (v \div (0 - p)) * (0 - q)
    BY <1>3, <1>8 DEF Turned
  <2>2. 0 - q \in Nat /\ 0 - p \in Nat \ {0} /\ Averaged(0 - p, v)
    BY <1>3, <1>4, <1>8
  <2>3. Averaged(0 - q, (v \div (0 - p)) * (0 - q))
    BY <2>2, <1>4, OpenedLess
  <2> QED BY <2>1, <2>3, Zenon
<1>9. \A s \in Sides : s = side \/ s = Opposite(side)
  BY DEF Sides, Opposite
<1>10. /\ q <= 0 => mine = 0
       /\ q > 0 => Averaged(q, mine)
       /\ 0 - q <= 0 => others = 0
       /\ 0 - q > 0 => Averaged(0 - q, others)
  <2> HIDE DEF mine, others
  <2> QED BY <1>3, <1>5, <1>6, <1>7, <1>8
<1>11. NothingUnheld'
  BY <1>3, <1>9, <1>10 DEF NothingUnheld, q
<1>12. HeldAveraged'
  BY <1>3, <1>9, <1>10 DEF HeldAveraged, q
<1>13. KeeperTyped'
  <2>1. real_pnl_' \in Int
    <3>1. real_pnl_ \in Int
      BY DEF KeeperInv, KeeperTyped
    <3>2. p < 0 => v \div (0 - p) \in Nat
      <4>1. p < 0 => 0 - p \in Nat \ {0}
        BY <1>3
      <4> QED BY <4>1, <1>4, DivisionFacts
    <3>3. p < 0 => Least(executed, 0 - p) \in Int
      BY <1>3 DEF Least
    <3>4. CASE p < 0
      <4> DEFINE gain == Least(executed, 0 - p) * ((v \div (0 - p)) - cost) * SideValue(side)
      <4>1. gain \in Int
        BY <3>2, <3>3, <3>4, <1>1, <1>3
      <4>2. ~ (p >= 0)
        BY <1>3, <3>4
      <4>3. real_pnl_' = real_pnl_ + gain
        BY <1>3, <4>2, Zenon DEF Turned
      <4> HIDE DEF gain
      <4> QED BY <4>1, <4>3, <3>1
    <3>5. CASE p >= 0
      BY <1>3, <3>1, <3>5 DEF Turned
    <3> QED BY <3>4, <3>5, <1>3
  <2>2. unreal_pnl_' \in Int
    <3>1. unreal_pnl_' = Unrealised(position_', open_vwap_', cost)
      BY <1>2 DEF AddFill
    <3>2. /\ open_vwap_'["BUY"] \in Nat /\ open_vwap_'["SELL"] \in Nat
          /\ Abs(position_') \in Nat
      <4>1. position_' \in Int /\ open_vwap_' \in [Sides -> Nat]
        BY <1>3
      <4>2. Abs(position_') \in Nat
        BY <4>1, AbsType, Zenon
      <4> QED BY ONLY <4>1, <4>2 DEF Sides
    <3>3. cost * position_' \in Int /\ cost * Abs(position_') \in Int
      BY <3>2, <1>1, <1>3
    <3> QED BY <3>1, <3>2, <3>3 DEF Unrealised
  <2>3. /\ fills' = fills + 1 /\ fills < MaxFills /\ fills \in 0 .. MaxFills
        /\ cash' = cash - cost * executed * SideValue(side) /\ cash \in Int
        /\ mark' = cost /\ total_pnl_' = unreal_pnl_' + real_pnl_'
    BY <1>2 DEF AddFill, KeeperInv, KeeperTyped
  <2>4. cost * executed * SideValue(side) \in Int
    BY <1>1, <1>3
  <2>5. cash' \in Int
    BY <2>3, <2>4
  <2>6. fills' \in 0 .. MaxFills
    BY <2>3, KeeperAssumption
  <2> QED BY <2>1, <2>2, <2>3, <2>5, <2>6, <1>1, <1>3 DEF KeeperTyped
<1> QED BY <1>11, <1>12, <1>13 DEF KeeperInv

\* A new best price changes only what the position is worth.
LEMMA ValuedKeeps ==
  ASSUME KeeperInv, NEW bid \in Prices, NEW ask \in Prices,
         UpdateBBO(bid * Unit, ask * Unit)
  PROVE  KeeperInv'
<1> DEFINE mid == (bid * Unit + ask * Unit) \div 2
<1>1. mid \in Nat
  <2>1. bid * Unit \in Nat /\ ask * Unit \in Nat
    BY KeeperAssumption
  <2> QED BY <2>1
<1>2. /\ unreal_pnl_' = Unrealised(position_, open_vwap_, mid)
      /\ total_pnl_' = unreal_pnl_' + real_pnl_
      /\ mark' = mid
      /\ UNCHANGED <<position_, real_pnl_, open_vwap_, fills, cash>>
  BY DEF UpdateBBO
<1> HIDE DEF mid
<1>3. unreal_pnl_' \in Int
  <2>1. /\ open_vwap_["BUY"] \in Nat /\ open_vwap_["SELL"] \in Nat
        /\ Abs(position_) \in Nat /\ position_ \in Int
    BY DEF KeeperInv, KeeperTyped, Sides, Abs
  <2>2. mid * position_ \in Int /\ mid * Abs(position_) \in Int
    BY <2>1, <1>1
  <2> QED BY <2>1, <2>2, <1>2 DEF Unrealised
<1>4. KeeperTyped'
  BY <1>1, <1>2, <1>3 DEF KeeperInv, KeeperTyped
<1> QED BY <1>2, <1>4 DEF KeeperInv, NothingUnheld, HeldAveraged, Held

\* Every step keeps it.
LEMMA KeeperStep == KeeperInv /\ [KeeperNext]_keeperVars => KeeperInv'
<1> SUFFICES ASSUME KeeperInv, [KeeperNext]_keeperVars PROVE KeeperInv'
  OBVIOUS
<1>1. CASE UNCHANGED keeperVars
  BY <1>1 DEF keeperVars, KeeperInv, KeeperTyped, NothingUnheld, HeldAveraged, Held
<1> QED BY <1>1, FillKeeps, ValuedKeeps DEF KeeperNext

\* What is open has been bought, or sold, at an average of the prices there were,
\* and nothing is open of a side that is not held, whatever is filled.
THEOREM AverageCorrect == KeeperSpec => []OpenAtAnAverage
<1>1. KeeperInv => OpenAtAnAverage
  <2> SUFFICES ASSUME KeeperInv, NEW side \in Sides
               PROVE  Averaged(IF Held(side) > 0 THEN Abs(position_) ELSE 0, open_vwap_[side])
    BY DEF OpenAtAnAverage, Averaged, Held
  <2>1. CASE Held(side) > 0
    <3>1. Abs(position_) = Held(side)
      BY <2>1 DEF KeeperInv, KeeperTyped, Held, Sides, SideValue, Abs
    <3> QED BY <2>1, <3>1, Zenon DEF KeeperInv, HeldAveraged
  <2>2. CASE ~ (Held(side) > 0)
    <3>1. Held(side) \in Int
      BY DEF KeeperInv, KeeperTyped, Held, Sides, SideValue
    <3>2. open_vwap_[side] = 0
      BY <2>2, <3>1 DEF KeeperInv, NothingUnheld
    <3>3. PICK price \in Prices : TRUE
      BY KeeperAssumption
    <3>4. price \in Nat /\ Unit \in Nat
      BY KeeperAssumption
    <3>5. 0 * price * Unit = 0
      BY <3>4
    <3>6. Averaged(0, 0)
      BY <3>5 DEF Averaged
    <3> QED BY <2>2, <3>2, <3>6, Zenon
  <2> QED BY <2>1, <2>2
<1> QED BY <1>1, KeeperStart, KeeperStep, PTL DEF KeeperSpec

-----------------------------------------------------------------------------
\* The profit, when the parts of money are fine enough for the averages of all
\* the fills: each fill may divide by any position once more.

IsMultiple(n, part) == \E m \in Nat : n = m * part

Grains(grain, divisor) ==
  /\ divisor \in Nat \ {0} /\ \A n \in 1 .. MaxPosition : IsMultiple(divisor, n)
  /\ grain \in [0 .. MaxFills -> Nat]
  /\ \A k \in 0 .. MaxFills : k # MaxFills => grain[k] = grain[k + 1] * divisor
  /\ IsMultiple(Unit, grain[0])
FineUnit == \E grain, divisor : Grains(grain, divisor)

\* What is open, and a unit, are whole numbers of a grain.
WholeGrains(grain) == /\ IsMultiple(Unit, grain)
                      /\ \A side \in Sides : IsMultiple(open_vwap_[side], grain)

\* What the fills have brought in is realised or open.
Booked ==
  /\ real_pnl_ = cash + open_vwap_["BUY"] - open_vwap_["SELL"]
  /\ unreal_pnl_ = Unrealised(position_, open_vwap_, mark)
  /\ total_pnl_ = unreal_pnl_ + real_pnl_

\* Multiples of a part are closed under what a fill does.
LEMMA MultipleFacts ==
  ASSUME NEW part \in Nat
  PROVE  /\ IsMultiple(0, part)
         /\ \A n \in Nat, c \in Nat : IsMultiple(n, part) => IsMultiple(n * c, part)
         /\ \A n, c \in Nat : IsMultiple(n, part) /\ IsMultiple(c, part)
                              => IsMultiple(n + c, part)
<1>1. IsMultiple(0, part)
  <2>1. 0 = 0 * part
    OBVIOUS
  <2> QED BY <2>1 DEF IsMultiple
<1>2. ASSUME NEW n \in Nat, NEW c \in Nat, IsMultiple(n, part)
      PROVE  IsMultiple(n * c, part)
  <2>1. PICK m \in Nat : n = m * part
    BY <1>2 DEF IsMultiple
  <2>2. m * c \in Nat /\ n * c = (m * c) * part
    BY <2>1
  <2> QED BY <2>2, Zenon DEF IsMultiple
<1>3. ASSUME NEW n \in Nat, NEW c \in Nat, IsMultiple(n, part), IsMultiple(c, part)
      PROVE  IsMultiple(n + c, part)
  <2>1. PICK m \in Nat : n = m * part
    BY <1>3 DEF IsMultiple
  <2>2. PICK d \in Nat : c = d * part
    BY <1>3 DEF IsMultiple
  <2>3. m + d \in Nat /\ n + c = (m + d) * part
    BY <2>1, <2>2
  <2> QED BY <2>3, Zenon DEF IsMultiple
<1> QED BY <1>1, <1>2, <1>3

\* A multiple of a product is one of each factor.
LEMMA MultipleOfProduct ==
  ASSUME NEW n \in Nat, NEW part \in Nat, NEW divisor \in Nat, IsMultiple(n, part * divisor)
  PROVE  IsMultiple(n, part)
<1>1. PICK m \in Nat : n = m * (part * divisor)
  BY DEF IsMultiple
<1>2. m * divisor \in Nat /\ n = (m * divisor) * part
  BY <1>1
<1> QED BY <1>2, Zenon DEF IsMultiple

\* An average of a whole number of grains leaves no remainder, and is a whole
\* number of the next finer grains.
LEMMA AverageWhole ==
  ASSUME NEW n \in Nat \ {0}, NEW part \in Nat, NEW divisor \in Nat, NEW v \in Nat,
         IsMultiple(divisor, n), IsMultiple(v, part * divisor)
  PROVE  v = n * (v \div n) /\ IsMultiple(v \div n, part)
<1>1. PICK m \in Nat : v = m * (part * divisor)
  BY DEF IsMultiple
<1>2. PICK c \in Nat : divisor = c * n
  BY DEF IsMultiple
<1> DEFINE a == (m * c) * part
<1>3. m * c \in Nat /\ a \in Nat
  BY <1>1, <1>2
<1>4. v = n * a
  <2>1. m * (part * (c * n)) = n * ((m * c) * part)
    BY <1>1, <1>2
  <2> QED BY <2>1, <1>1, <1>2
<1>5. IsMultiple(a, part)
  BY <1>3, Zenon DEF IsMultiple
<1> HIDE DEF a
<1>6. a <= v \div n /\ v \div n <= a
  BY <1>3, <1>4, AverageBetween
<1>7. v \div n = a
  BY <1>3, <1>6, DivisionFacts
<1> QED BY <1>4, <1>5, <1>7

\* What has been brought in, less what is open of a side, is realised.
Balanced(real, brought, sign, mine, others) == real = brought + sign * (mine - others)

\* What has been brought in, after a fill.
Paid(brought, price, executed, sign) == brought - price * executed * sign

\* Before a fill that divides without a remainder.
BooksBefore(p, q, price, executed, mine, others, real, sign, brought) ==
  /\ p \in Int /\ executed \in Nat \ {0} /\ q = p + executed /\ price \in Nat
  /\ mine \in Nat /\ others \in Nat /\ real \in Int /\ sign \in {1, -1} /\ brought \in Int
  /\ p < 0 => others = (0 - p) * (others \div (0 - p))
  /\ p >= 0 => others = 0
  /\ p <= 0 => mine = 0
  /\ Balanced(real, brought, sign, mine, others)

\* The books after it.
LEMMA FillBooked ==
  ASSUME NEW p, NEW q, NEW price, NEW executed, NEW mine, NEW others, NEW mine2, NEW others2,
         NEW real, NEW real2, NEW sign, NEW brought,
         BooksBefore(p, q, price, executed, mine, others, real, sign, brought),
         Turned(p, q, price, executed, mine, others, mine2, others2, real, real2, sign)
  PROVE  Balanced(real2, Paid(brought, price, executed, sign), sign, mine2, others2)
<1> USE DEF BooksBefore
<1>0. SUFFICES real2 = (brought - price * executed * sign) + sign * (mine2 - others2)
  BY DEF Balanced, Paid
<1> USE DEF Balanced
<1>1. CASE p >= 0
  <2>1. real2 = real /\ mine2 = mine + price * executed /\ others2 = 0 /\ others = 0
    BY <1>1 DEF Turned
  <2>2. price * executed \in Int
    OBVIOUS
  <2>3. CASE sign = 1
    BY <2>1, <2>2, <2>3
  <2>4. CASE sign = -1
    BY <2>1, <2>2, <2>4
  <2> QED BY <2>3, <2>4
<1>2. CASE p < 0
  <2> DEFINE n == 0 - p
             a == others \div n
  <2>1. n \in Nat \ {0} /\ mine = 0
    BY <1>2
  <2>2. a \in Nat /\ others = n * a
    BY <2>1, <1>2, DivisionFacts
  <2>3. real2 = real + Least(executed, n) * (a - price) * sign
    BY <1>2 DEF Turned
  <2>4. \/ q = 0 /\ mine2 = 0 /\ others2 = 0
        \/ q > 0 /\ mine2 = price * q /\ others2 = 0
        \/ q < 0 /\ mine2 = 0 /\ others2 = a * (0 - q)
    BY <1>2 DEF Turned
  <2>5. q = executed - n
    BY <2>1
  <2> HIDE DEF n, a
  <2>6. CASE q >= 0
    <3>1. Least(executed, n) = n
      BY <2>1, <2>5, <2>6 DEF Least
    <3>2. mine2 = price * q /\ others2 = 0
      <4>1. price * 0 = 0
        OBVIOUS
      <4>2. CASE q = 0
        <5>1. ~ (q > 0) /\ ~ (q < 0)
          BY <4>2
        <5> QED BY <2>4, <4>1, <4>2, <5>1, Zenon
      <4>3. CASE q # 0
        <5>1. q # 0 /\ ~ (q < 0)
          BY <2>1, <2>5, <2>6, <4>3
        <5> QED BY <2>4, <5>1, Zenon
      <4> QED BY <4>2, <4>3
    <3>3. mine2 = price * executed - price * n
      BY <3>2, <2>1, <2>5
    <3>4. n * (a - price) = others - price * n
      BY <2>1, <2>2
    <3>5. price * executed \in Int /\ price * n \in Int
      BY <2>1
    <3>6. real2 = real + (others - price * n) * sign
      BY <2>3, <3>1, <3>4, Zenon
    <3>7. CASE sign = 1
      BY <3>2, <3>3, <3>5, <3>6, <3>7, <2>1
    <3>8. CASE sign = -1
      BY <3>2, <3>3, <3>5, <3>6, <3>8, <2>1
    <3> QED BY <3>7, <3>8
  <2>7. CASE q < 0
    <3>1. Least(executed, n) = executed
      BY <2>1, <2>5, <2>7 DEF Least
    <3>2. mine2 = 0 /\ others2 = a * (n - executed)
      BY <2>1, <2>4, <2>5, <2>7
    <3>3. others2 = others - a * executed
      BY <3>2, <2>1, <2>2
    <3>4. executed * (a - price) = a * executed - price * executed
      BY <2>2
    <3>5. price * executed \in Int /\ a * executed \in Int
      BY <2>2
    <3>6. real2 = real + (a * executed - price * executed) * sign
      BY <2>3, <3>1, <3>4, Zenon
    <3>7. CASE sign = 1
      BY <3>2, <3>3, <3>5, <3>6, <3>7, <2>1
    <3>8. CASE sign = -1
      BY <3>2, <3>3, <3>5, <3>6, <3>8, <2>1
    <3> QED BY <3>7, <3>8
  <2> QED BY <2>6, <2>7, <2>1, <2>5
<1> QED BY <1>1, <1>2

\* A fill keeps the books, and whole grains, of the next finer size.
LEMMA FillWhole ==
  ASSUME KeeperInv, Booked, NEW side \in Sides, NEW price \in Prices,
         NEW executed \in Quantities, AddFill(side, price * Unit, executed),
         NEW part \in Nat, NEW divisor \in Nat \ {0},
         \A n \in 1 .. MaxPosition : IsMultiple(divisor, n),
         WholeGrains(part * divisor)
  PROVE  Booked' /\ WholeGrains(part)'
<1> DEFINE cost == price * Unit
           p == Held(side)
           q == Held(side)'
           v == open_vwap_[Opposite(side)]
           own == open_vwap_[side]
           mine == open_vwap_'[side]
           others == open_vwap_'[Opposite(side)]
<1>1. cost \in Nat /\ price \in Nat /\ Unit \in Nat
  BY KeeperAssumption
<1>2. IsMultiple(Unit, part)
  BY <1>1, MultipleOfProduct DEF WholeGrains
<1>3. IsMultiple(cost, part)
  <2>1. cost = Unit * price
    BY <1>1
  <2> HIDE DEF cost
  <2> QED BY <2>1, <1>1, <1>2, MultipleFacts
<1> HIDE DEF cost
<1>4. AddFill(side, cost, executed)
  BY DEF cost
<1>5. /\ p \in Int /\ executed \in Nat \ {0} /\ q = p + executed
      /\ Opposite(side) \in Sides /\ Opposite(side) # side
      /\ SideValue(side) \in {1, -1}
      /\ Held(Opposite(side)) = 0 - p
      /\ open_vwap_' \in [Sides -> Nat]
      /\ Turned(p, q, cost, executed, own, v, mine, others,
                real_pnl_, real_pnl_', SideValue(side))
  BY <1>1, <1>4, FillFacts
<1>6. /\ own \in Nat /\ v \in Nat
      /\ p <= 0 => own = 0
      /\ p >= 0 => v = 0
      /\ real_pnl_ \in Int /\ cash \in Int
  <2>1. open_vwap_ \in [Sides -> Nat] /\ real_pnl_ \in Int /\ cash \in Int
    BY DEF KeeperInv, KeeperTyped
  <2>2. p <= 0 => own = 0
    BY DEF KeeperInv, NothingUnheld
  <2>3. Held(Opposite(side)) <= 0 => v = 0
    BY <1>5 DEF KeeperInv, NothingUnheld
  <2> QED BY <2>1, <2>2, <2>3, <1>5
<1>7. IsMultiple(own, part * divisor) /\ IsMultiple(v, part * divisor)
  BY <1>5 DEF WholeGrains
<1>8. p < 0 => 0 - p \in 1 .. MaxPosition
  <2>1. position_ \in Int /\ Abs(position_) <= MaxPosition
    BY DEF KeeperInv, KeeperTyped
  <2>2. p < 0 => 0 - p = Abs(position_)
    BY <2>1 DEF Held, Sides, SideValue, Abs
  <2> HIDE DEF p
  <2> QED BY <2>1, <2>2, <1>5, KeeperAssumption
<1>9. real_pnl_ = cash + SideValue(side) * (own - v)
  <2>1. real_pnl_ = cash + open_vwap_["BUY"] - open_vwap_["SELL"]
    BY DEF Booked
  <2>2. open_vwap_["BUY"] \in Nat /\ open_vwap_["SELL"] \in Nat
    BY DEF KeeperInv, KeeperTyped, Sides
  <2>3. CASE side = "BUY"
    <3>1. own = open_vwap_["BUY"] /\ v = open_vwap_["SELL"] /\ SideValue(side) = 1
      BY <2>3 DEF Opposite, SideValue
    <3> HIDE DEF own, v
    <3> QED BY <2>1, <2>2, <3>1, <1>6
  <2>4. CASE side = "SELL"
    <3>1. own = open_vwap_["SELL"] /\ v = open_vwap_["BUY"] /\ SideValue(side) = -1
      BY <2>4 DEF Opposite, SideValue
    <3> HIDE DEF own, v
    <3> QED BY <2>1, <2>2, <3>1, <1>6
  <2> QED BY <2>3, <2>4 DEF Sides
<1>10. own \in Nat /\ v \in Nat /\ mine \in Nat /\ others \in Nat
  BY <1>5, <1>6
<1>11. /\ cash' = cash - cost * executed * SideValue(side)
       /\ mark' = cost /\ total_pnl_' = unreal_pnl_' + real_pnl_'
       /\ unreal_pnl_' = Unrealised(position_', open_vwap_', cost)
  BY <1>4 DEF AddFill
<1> HIDE DEF p, q, v, own, mine, others
<1>12. p < 0 => /\ v = (0 - p) * (v \div (0 - p))
                /\ IsMultiple(v \div (0 - p), part)
  <2> SUFFICES ASSUME p < 0 PROVE /\ v = (0 - p) * (v \div (0 - p))
                                  /\ IsMultiple(v \div (0 - p), part)
    OBVIOUS
  <2> DEFINE n == 0 - p
  <2>1. n \in Nat \ {0} /\ IsMultiple(divisor, n)
    BY <1>5, <1>8
  <2> HIDE DEF n
  <2>2. v = n * (v \div n) /\ IsMultiple(v \div n, part)
    BY <2>1, <1>7, <1>10, AverageWhole
  <2> QED BY <2>2 DEF n
<1>13. Balanced(real_pnl_', cash', SideValue(side), mine, others)
  <2>1. Balanced(real_pnl_, cash, SideValue(side), own, v)
    BY <1>9, Zenon DEF Balanced
  <2>2. BooksBefore(p, q, cost, executed, own, v, real_pnl_, SideValue(side), cash)
    BY <2>1, <1>1, <1>5, <1>6, <1>12, Zenon DEF BooksBefore
  <2>3. Turned(p, q, cost, executed, own, v, mine, others,
               real_pnl_, real_pnl_', SideValue(side))
    BY <1>5, Zenon
  <2>4. cash' = Paid(cash, cost, executed, SideValue(side))
    BY <1>11, Zenon DEF Paid
  <2>5. Balanced(real_pnl_', Paid(cash, cost, executed, SideValue(side)),
                 SideValue(side), mine, others)
    BY ONLY <2>2, <2>3, FillBooked, Zenon
  <2> QED BY <2>4, <2>5, Zenon
<1>14. Booked'
  <2>1. real_pnl_' = cash' + SideValue(side) * (mine - others)
    BY <1>13, Zenon DEF Balanced
  <2>2. cash' \in Int
    <3>1. cost * executed * SideValue(side) \in Int
      BY <1>1, <1>5
    <3> QED BY <3>1, <1>6, <1>11
  <2>3. real_pnl_' = cash' + open_vwap_'["BUY"] - open_vwap_'["SELL"]
    <3>1. CASE side = "BUY"
      <4>1. mine = open_vwap_'["BUY"] /\ others = open_vwap_'["SELL"] /\ SideValue(side) = 1
        BY <3>1 DEF Opposite, SideValue, mine, others
      <4> QED BY <2>1, <2>2, <4>1, <1>10
    <3>2. CASE side = "SELL"
      <4>1. mine = open_vwap_'["SELL"] /\ others = open_vwap_'["BUY"] /\ SideValue(side) = -1
        BY <3>2 DEF Opposite, SideValue, mine, others
      <4> QED BY <2>1, <2>2, <4>1, <1>10
    <3> QED BY <3>1, <3>2 DEF Sides
  <2> QED BY <2>3, <1>11 DEF Booked
<1>15. IsMultiple(own, part)
  BY <1>7, <1>10, MultipleOfProduct
<1>16. IsMultiple(mine, part) /\ IsMultiple(others, part)
  <2>1. CASE p >= 0
    <3>1. mine = own + cost * executed /\ others = 0
      BY <1>5, <2>1 DEF Turned
    <3>2. cost * executed \in Nat /\ IsMultiple(cost * executed, part)
      <4>1. cost \in Nat /\ executed \in Nat /\ cost * executed \in Nat
        BY <1>1, <1>5
      <4> QED BY <4>1, <1>3, MultipleFacts, Zenon
    <3> DEFINE bought == cost * executed
    <3> HIDE DEF bought
    <3>3. bought \in Nat /\ IsMultiple(bought, part) /\ mine = own + bought
      BY <3>1, <3>2 DEF bought
    <3> QED BY <3>1, <3>3, <1>10, <1>15, MultipleFacts
  <2>2. CASE p < 0 /\ q = 0
    <3>1. mine = 0 /\ others = 0
      BY <1>5, <2>2 DEF Turned
    <3> QED BY <3>1, MultipleFacts
  <2>3. CASE p < 0 /\ q > 0
    <3>1. mine = cost * q /\ others = 0 /\ q \in Nat
      BY <1>5, <2>3 DEF Turned
    <3> QED BY <3>1, <1>1, <1>3, MultipleFacts
  <2>4. CASE p < 0 /\ q < 0
    <3> DEFINE a == v \div (0 - p)
               r == 0 - q
    <3>1. mine = 0 /\ others = a * r
      BY <1>5, <2>4 DEF Turned
    <3>2. a \in Nat /\ r \in Nat /\ IsMultiple(a, part)
      <4>1. 0 - p \in Nat \ {0} /\ 0 - q \in Nat
        BY <1>5, <2>4
      <4> QED BY <4>1, <2>4, <1>10, <1>12, DivisionFacts
    <3> HIDE DEF a, r
    <3> QED BY <3>1, <3>2, MultipleFacts
  <2> QED BY <2>1, <2>2, <2>3, <2>4, <1>5
<1>17. \A s \in Sides : s = side \/ s = Opposite(side)
  BY DEF Sides, Opposite
<1>18. WholeGrains(part)'
  BY <1>2, <1>16, <1>17 DEF WholeGrains, mine, others
<1> QED BY <1>14, <1>18

\* What the books say is the profit.
LEMMA BookedProfit ==
  ASSUME KeeperInv, Booked
  PROVE  ProfitExact
<1>1. /\ position_ \in Int /\ mark \in Int /\ cash \in Int
      /\ open_vwap_["BUY"] \in Nat /\ open_vwap_["SELL"] \in Nat
  BY DEF KeeperInv, KeeperTyped, Sides
<1>2. /\ position_ <= 0 => open_vwap_["BUY"] = 0
      /\ position_ >= 0 => open_vwap_["SELL"] = 0
  BY <1>1 DEF KeeperInv, NothingUnheld, Held, Sides, SideValue
<1>3. /\ real_pnl_ = cash + open_vwap_["BUY"] - open_vwap_["SELL"]
      /\ total_pnl_ = Unrealised(position_, open_vwap_, mark) + real_pnl_
  BY DEF Booked
<1>4. CASE position_ > 0
  <2>1. Unrealised(position_, open_vwap_, mark) = mark * position_ - open_vwap_["BUY"]
    BY <1>4 DEF Unrealised
  <2>2. mark * position_ = position_ * mark /\ position_ * mark \in Int
    BY <1>1
  <2> QED BY <2>1, <2>2, <1>1, <1>2, <1>3, <1>4 DEF ProfitExact
<1>5. CASE position_ <= 0
  <2>1. Abs(position_) = 0 - position_
    BY <1>1, <1>5 DEF Abs
  <2>2. Unrealised(position_, open_vwap_, mark) = open_vwap_["SELL"] - mark * (0 - position_)
    BY <1>1, <1>5, <2>1 DEF Unrealised
  <2>3. mark * (0 - position_) = 0 - position_ * mark /\ position_ * mark \in Int
    BY <1>1
  <2> QED BY <2>2, <2>3, <1>1, <1>2, <1>3, <1>5 DEF ProfitExact
<1> QED BY <1>1, <1>4, <1>5

\* The profit the risk check looks at is what the fills have brought in and what
\* the position is worth at its last price: however many fills there are, when
\* the parts of money are fine enough for their averages.
THEOREM ProfitCorrect == FineUnit => (KeeperSpec => []ProfitExact)
<1> SUFFICES ASSUME FineUnit PROVE KeeperSpec => []ProfitExact
  OBVIOUS
<1>1. PICK grain, divisor : Grains(grain, divisor)
  BY DEF FineUnit
<1> DEFINE Inv == KeeperInv /\ Booked /\ WholeGrains(grain[fills])
<1>2. /\ divisor \in Nat \ {0} /\ \A n \in 1 .. MaxPosition : IsMultiple(divisor, n)
      /\ grain \in [0 .. MaxFills -> Nat]
      /\ \A k \in 0 .. MaxFills : k # MaxFills => grain[k] = grain[k + 1] * divisor
      /\ IsMultiple(Unit, grain[0])
  BY <1>1 DEF Grains
<1>3. KeeperInit => Inv
  <2> SUFFICES ASSUME KeeperInit PROVE Inv
    OBVIOUS
  <2>1. 0 \in 0 .. MaxFills /\ grain[0] \in Nat
    BY <1>2, KeeperAssumption
  <2>2. fills = 0 /\ \A side \in Sides : open_vwap_[side] = 0
    BY DEF KeeperInit, NothingOpen
  <2>3. WholeGrains(grain[fills])
    BY <2>1, <2>2, <1>2, MultipleFacts DEF WholeGrains
  <2>4. Booked
    BY <2>2 DEF KeeperInit, Booked, Unrealised, Sides, Abs
  <2> QED BY <2>3, <2>4, KeeperStart
<1>4. Inv /\ [KeeperNext]_keeperVars => Inv'
  <2> SUFFICES ASSUME Inv, [KeeperNext]_keeperVars PROVE Inv'
    OBVIOUS
  <2>1. KeeperInv'
    BY KeeperStep
  <2>2. ASSUME NEW side \in Sides, NEW price \in Prices, NEW executed \in Quantities,
               AddFill(side, price * Unit, executed)
        PROVE  Booked' /\ WholeGrains(grain[fills])'
    <3>1. fills' = fills + 1 /\ fills \in 0 .. MaxFills /\ fills + 1 \in 0 .. MaxFills
      BY <2>2, KeeperAssumption DEF AddFill, KeeperInv, KeeperTyped
    <3>2. grain[fills] = grain[fills + 1] * divisor /\ grain[fills + 1] \in Nat
      BY <3>1, <1>2, KeeperAssumption
    <3>3. PICK part \in Nat : part = grain[fills + 1]
      BY <3>2
    <3>4. WholeGrains(part * divisor)
      BY <3>2, <3>3
    <3>5. Booked' /\ WholeGrains(part)'
      BY <3>4, <2>2, <1>2, FillWhole
    <3> QED BY <3>1, <3>3, <3>5 DEF WholeGrains
  <2>3. ASSUME NEW bid \in Prices, NEW ask \in Prices, UpdateBBO(bid * Unit, ask * Unit)
        PROVE  Booked' /\ WholeGrains(grain[fills])'
    BY <2>3 DEF UpdateBBO, Booked, WholeGrains
  <2>4. CASE UNCHANGED keeperVars
    BY <2>1, <2>4 DEF keeperVars, Booked, WholeGrains
  <2> QED BY <2>1, <2>2, <2>3, <2>4 DEF KeeperNext
<1>5. Inv => ProfitExact
  BY BookedProfit
<1> HIDE DEF Inv
<1> QED BY <1>3, <1>4, <1>5, PTL DEF KeeperSpec
=============================================================================
