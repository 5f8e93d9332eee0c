--------------------------- MODULE TradingClient ---------------------------
(***************************************************************************)
(* The trading client's order management for one symbol, and the exchange  *)
(* as it looks from there:                                                 *)
(*   - order_manager.h and .cpp keep one order a side, sent, cancelled and *)
(*     replaced as the strategies (market_maker.h, liquidity_taker.h) ask; *)
(*   - risk_manager.h checks an order against the position before it is    *)
(*     sent, and position_keeper.h moves the position with every fill;     *)
(*   - trade_engine.cpp takes the responses in the order they were sent,   *)
(*     and any time later than that: requests and responses on their way   *)
(*     are two queues here, from thread to thread and over TCP;            *)
(*   - the exchange does what BookCore does with a client's requests.      *)
(***************************************************************************)
EXTENDS Integers, Sequences

CONSTANTS Prices,         \* the prices of the band
          NoPrice,        \* std::nullopt: no order wanted on this side
          Clip,           \* TradeEngineCfg::clip_, the size of every order
          max_order_size_,
          max_position_,
          MaxOrders       \* bound of the model: orders sent (kMaxOrderIds - 1)

ASSUME TradingAssumption == /\ Clip \in Nat /\ max_order_size_ \in Nat
                            /\ max_position_ \in Nat /\ MaxOrders \in Nat
                            /\ NoPrice \notin Prices

Sides == {"BUY", "SELL"}
Ids == 1 .. MaxOrders
Sign(side) == IF side = "BUY" THEN 1 ELSE -1

VARIABLES
  ticker_side_order_,  \* the OMOrder of each side
  next_order_id_,
  position_,
  requests,            \* on their way to the exchange, oldest first
  responses,           \* on their way back
  resting              \* orders of this client at the exchange

vars == <<ticker_side_order_, next_order_id_, position_, requests, responses,
          resting>>

States == {"INVALID", "PENDING_NEW", "LIVE", "PENDING_CANCEL", "DEAD"}
OMOrder == [id : Ids \cup {0}, price : Prices \cup {NoPrice},
            quantity : 0 .. Clip, state : States]
Request == [type : {"NEW", "CANCEL"}, id : Ids, side : Sides]
Response == [type : {"ACCEPTED", "CANCELED", "CANCEL_REJECTED", "FILLED"},
             id : Ids, side : Sides \cup {"NONE"}, executed : 0 .. Clip, remaining : 0 .. Clip]
Resting == [id : Ids, side : Sides, quantity : 0 .. Clip]

NoOrder == [id |-> 0, price |-> NoPrice, quantity |-> 0, state |-> "INVALID"]
Init == /\ ticker_side_order_ = [side \in Sides |-> NoOrder]
        /\ next_order_id_ = 1
        /\ position_ = 0
        /\ requests = << >> /\ responses = << >>
        /\ resting = {}

-----------------------------------------------------------------------------
\* The trade engine's thread: a market update makes the strategy move its
\* orders.

\* checkPreTradeRisk; whether the loss is too large is up to the prices.
\* Mutant: the position is checked without the order that is to be sent.
WithinPositionSoFar(side) ==
  position_ <= max_position_ /\ position_ >= 0 - max_position_

WithinPosition(side) ==
  LET after == position_ + Sign(side) * Clip
  IN after <= max_position_ /\ after >= 0 - max_position_
Allowed(side, lossTooLarge) ==
  /\ Clip # 0 /\ Clip <= max_order_size_
  /\ WithinPosition(side)
  /\ ~ lossTooLarge

\* moveOrder: an idle order is replaced by a new one, a live one that is not
\* as wanted is cancelled, and one that waits for an answer is left alone.
\* Mutant: an order that is being cancelled is replaced at once.
SendsNewEarly(order, side, price, lossTooLarge) ==
  /\ order.state \in {"INVALID", "PENDING_CANCEL", "DEAD"}
  /\ price # NoPrice
  /\ Allowed(side, lossTooLarge)

SendsNew(order, side, price, lossTooLarge) ==
  /\ order.state \in {"INVALID", "DEAD"}
  /\ price # NoPrice
  /\ Allowed(side, lossTooLarge)

\* Mutant: an order is cancelled before it has been accepted.
SendsCancelEarly(order, price) ==
  /\ order.state \in {"PENDING_NEW", "LIVE"}
  /\ order.price # price \/ order.quantity # Clip

SendsCancel(order, price) ==
  /\ order.state = "LIVE"
  /\ order.price # price \/ order.quantity # Clip

NewOrder(id, price) ==
  [id |-> id, price |-> price, quantity |-> Clip, state |-> "PENDING_NEW"]

\* What moveOrder makes of the order of a side, and the request it sends.
Moved(order, side, price, id, lossTooLarge) ==
  IF SendsNew(order, side, price, lossTooLarge) THEN NewOrder(id, price)
  ELSE IF SendsCancel(order, price) THEN [order EXCEPT !.state = "PENDING_CANCEL"]
  ELSE order
Sent(order, side, price, id, lossTooLarge) ==
  IF SendsNew(order, side, price, lossTooLarge)
    THEN << [type |-> "NEW", id |-> id, side |-> side] >>
  ELSE IF SendsCancel(order, price)
    THEN << [type |-> "CANCEL", id |-> order.id, side |-> side] >>
  ELSE << >>

\* moveOrders: the buy order, then the sell order.  newOrder asserts that it
\* does not run out of ids.
MoveOrders(bid, ask, lossTooLarge) ==
  LET buy == ticker_side_order_["BUY"]
      sell == ticker_side_order_["SELL"]
      sellId == next_order_id_ + (IF SendsNew(buy, "BUY", bid, lossTooLarge) THEN 1 ELSE 0)
      nextId == sellId + (IF SendsNew(sell, "SELL", ask, lossTooLarge) THEN 1 ELSE 0)
  IN /\ nextId <= MaxOrders + 1
     /\ next_order_id_' = nextId
     /\ ticker_side_order_' =
          [side \in Sides |->
             IF side = "BUY" THEN Moved(buy, side, bid, next_order_id_, lossTooLarge)
                             ELSE Moved(sell, side, ask, sellId, lossTooLarge)]
     /\ requests' = requests \o Sent(buy, "BUY", bid, next_order_id_, lossTooLarge)
                             \o Sent(sell, "SELL", ask, sellId, lossTooLarge)
     /\ UNCHANGED <<position_, responses, resting>>

-----------------------------------------------------------------------------
\* The trade engine's thread: a response.

\* addFill
PositionAfter(response) ==
  IF response.type = "FILLED"
  THEN position_ + Sign(response.side) * response.executed
  ELSE position_

\* Mutant: a response is about whatever order is there.
IsAboutAny(order, response) == order.state # "INVALID"

\* onOrderUpdate: the order a response is about, if it is still there.
IsAbout(order, response) == order.state # "INVALID" /\ order.id = response.id
\* Mutant: a fill of all there is left does not end the order.
UpdatedStillLive(order, response) ==
  IF response.type = "ACCEPTED" THEN [order EXCEPT !.state = "LIVE"]
  ELSE IF response.type = "FILLED" THEN [order EXCEPT !.quantity = response.remaining]
  ELSE [order EXCEPT !.state = "DEAD"]

\* Mutant: an accepted order goes on waiting.
UpdatedNotLive(order, response) ==
  IF response.type = "ACCEPTED" THEN order
  ELSE IF response.type = "FILLED"
    THEN [order EXCEPT !.quantity = response.remaining,
                       !.state = IF response.remaining = 0 THEN "DEAD" ELSE @]
  ELSE [order EXCEPT !.state = "DEAD"]

Updated(order, response) ==
  IF response.type = "ACCEPTED" THEN [order EXCEPT !.state = "LIVE"]
  ELSE IF response.type = "FILLED"
    THEN [order EXCEPT !.quantity = response.remaining,
                       !.state = IF response.remaining = 0 THEN "DEAD" ELSE @]
  ELSE [order EXCEPT !.state = "DEAD"]

OnOrderUpdate ==
  /\ responses # << >>
  /\ LET response == Head(responses)
     IN /\ position_' = PositionAfter(response)
        /\ ticker_side_order_' =
             [side \in Sides |->
                LET order == ticker_side_order_[side]
                IN IF IsAbout(order, response) THEN Updated(order, response) ELSE order]
  /\ responses' = Tail(responses)
  /\ UNCHANGED <<next_order_id_, requests, resting>>

-----------------------------------------------------------------------------
\* The exchange.
Respond(type, id, side, executed, remaining) ==
  responses' = Append(responses, [type |-> type, id |-> id, side |-> side,
                                  executed |-> executed, remaining |-> remaining])

\* BookCore::Add; what it fills at once is a Fill that comes next.
ExchangeAdd ==
  /\ requests # << >> /\ Head(requests).type = "NEW"
  /\ requests' = Tail(requests)
  /\ LET request == Head(requests)
     IN /\ Respond("ACCEPTED", request.id, request.side, 0, Clip)
        /\ resting' = resting \cup {[id |-> request.id, side |-> request.side,
                                     quantity |-> Clip]}
  /\ UNCHANGED <<ticker_side_order_, next_order_id_, position_>>

\* BookCore::Match, with this client as the taker or as the maker.
Fill(order, executed) ==
  LET remaining == order.quantity - executed
  IN /\ Respond("FILLED", order.id, order.side, executed, remaining)
     /\ resting' = (resting \ {order}) \cup
                     (IF remaining = 0 THEN {} ELSE {[order EXCEPT !.quantity = remaining]})
     /\ UNCHANGED <<ticker_side_order_, next_order_id_, position_, requests>>

\* BookCore::Cancel
ExchangeCancel ==
  /\ requests # << >> /\ Head(requests).type = "CANCEL"
  /\ requests' = Tail(requests)
  /\ LET request == Head(requests)
         found == {order \in resting : order.id = request.id}
     IN \/ /\ found = {}
           /\ Respond("CANCEL_REJECTED", request.id, "NONE", 0, 0)
           /\ UNCHANGED resting
        \/ \E order \in found :
             /\ Respond("CANCELED", order.id, order.side, 0, order.quantity)
             /\ resting' = resting \ {order}
  /\ UNCHANGED <<ticker_side_order_, next_order_id_, position_>>

-----------------------------------------------------------------------------
Next == \/ \E bid, ask \in Prices \cup {NoPrice}, lossTooLarge \in BOOLEAN :
             MoveOrders(bid, ask, lossTooLarge)
        \/ OnOrderUpdate
        \/ ExchangeAdd
        \/ \E order \in resting : \E executed \in 1 .. order.quantity :
             Fill(order, executed)
        \/ ExchangeCancel

Spec == Init /\ [][Next]_vars

\* The threads go on reading their queues.
FairSpec == /\ Spec
            /\ WF_vars(OnOrderUpdate)
            /\ WF_vars(ExchangeAdd)
            /\ WF_vars(ExchangeCancel)

-----------------------------------------------------------------------------
TypeOK == /\ ticker_side_order_ \in [Sides -> OMOrder]
          /\ next_order_id_ \in 1 .. MaxOrders + 1
          /\ position_ \in Int
          /\ requests \in Seq(Request)
          /\ responses \in Seq(Response)
          /\ resting \subseteq Resting

Current(side) == ticker_side_order_[side]
Active(side) == Current(side).state \in {"PENDING_NEW", "LIVE", "PENDING_CANCEL"}
Outstanding(side) == IF Active(side) THEN Current(side).quantity ELSE 0

\* The position keeps within max_position, and would even if all that the
\* client thinks can still be filled were filled (risk_manager.h 53 looks at
\* the position only, not at the orders on their way).
PositionWithinLimit ==
  /\ position_ + Outstanding("BUY") <= max_position_
  /\ position_ - Outstanding("SELL") >= 0 - max_position_

\* The client never gives up an order that can still trade (order_manager.h
\* 58-61 takes a refused cancel for the end of the order, and 40-41 drops
\* late responses): whatever rests, is on its way to the exchange or has
\* been filled unheard of is about the order it has on that side, which has
\* not been told of fewer left than there are.
NothingForgotten ==
  /\ \A order \in resting :
       /\ Active(order.side) /\ Current(order.side).id = order.id
       /\ order.quantity <= Current(order.side).quantity
  /\ \A i \in DOMAIN responses :
       LET response == responses[i]
       IN response.type = "FILLED" =>
            /\ Active(response.side) /\ Current(response.side).id = response.id
            /\ response.remaining < Current(response.side).quantity
  /\ \A i \in DOMAIN requests :
       LET request == requests[i]
       IN request.type = "NEW" =>
            /\ Current(request.side).state = "PENDING_NEW"
            /\ Current(request.side).id = request.id

\* Of the requests on their way to the exchange at most two are about a side,
\* a cancel and the new order that follows when the old one has been filled
\* meanwhile: a strategy never waits for room in the queue of requests
\* (trade_engine.cpp 77), which the gateway may only make after room in the
\* queue of responses has been made by the engine.
RequestsFit ==
  \A i, j \in DOMAIN requests :
    i < j /\ requests[i].side = requests[j].side =>
      requests[i].type = "CANCEL" /\ requests[j].type = "NEW"

\* When no response is on its way the client knows what rests: an order it
\* holds for live is at the exchange with just that quantity.
LiveIsThere ==
  responses = << >> =>
    \A side \in Sides : Current(side).state = "LIVE" =>
      [id |-> Current(side).id, side |-> side,
       quantity |-> Current(side).quantity] \in resting

\* No order waits for an answer for ever.
Settles == \A side \in Sides :
  Current(side).state \in {"PENDING_NEW", "PENDING_CANCEL"} ~>
    Current(side).state \in {"LIVE", "DEAD"}
=============================================================================
