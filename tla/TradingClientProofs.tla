------------------------- MODULE TradingClientProofs -------------------------
(***************************************************************************)
(* The trading client never loses sight of an order, for every clip, limit *)
(* and number of orders and for queues of any length; so its position      *)
(* keeps within its limit.                                                 *)
(*                                                                         *)
(* Why: the responses to an order come in one order, ACCEPTED, its fills,  *)
(* its end, and are heard in that order.  The request for it is on its way *)
(* only before all of them, a cancel only after the client has seen it     *)
(* LIVE; and the client gives an order up only when it hears of its end,   *)
(* when nothing of it is left anywhere but answers to its cancel.          *)
(***************************************************************************)
EXTENDS TradingClient, TLAPS

\* Order numbers are used once: 0 is no order's, a new one is nowhere yet.
OrdersNumbered ==
  /\ \A side \in Sides : /\ Current(side).id < next_order_id_
                         /\ Current(side).id = 0 <=> Current(side).state = "INVALID"
  /\ Current("BUY").id # 0 => Current("BUY").id # Current("SELL").id
  /\ \A i \in DOMAIN requests : requests[i].id < next_order_id_
  /\ \A k \in DOMAIN responses : responses[k].id < next_order_id_
  /\ \A order \in resting : order.id < next_order_id_

\* An order on its way to the exchange is the pending one of its side, and
\* nothing has come of it yet.
NewRequests ==
  \A i \in DOMAIN requests : requests[i].type = "NEW" =>
    /\ Current(requests[i].side).id = requests[i].id
    /\ Current(requests[i].side).state = "PENDING_NEW"
    /\ Current(requests[i].side).quantity = Clip /\ Clip > 0
    /\ \A order \in resting : order.id # requests[i].id
    /\ \A k \in DOMAIN responses : responses[k].id # requests[i].id

\* A cancel on its way is about the order of its side, or about the one
\* before, and then the next one is on its way behind it.
CancelRequests ==
  \A i \in DOMAIN requests : requests[i].type = "CANCEL" =>
    \/ /\ Current(requests[i].side).id = requests[i].id
       /\ Current(requests[i].side).state \in {"PENDING_CANCEL", "DEAD"}
    \/ /\ \A side \in Sides : Current(side).id # requests[i].id
       /\ \E j \in DOMAIN requests : /\ i < j /\ requests[j].type = "NEW"
                                     /\ requests[j].side = requests[i].side

\* What rests is the order of its side, and no more than the client thinks.
RestingOrders ==
  \A order \in resting :
    /\ Active(order.side) /\ Current(order.side).id = order.id
    /\ 1 <= order.quantity /\ order.quantity <= Current(order.side).quantity
    /\ \A other \in resting : other.id = order.id => other = order

\* The responses to one order.
Accepts ==
  \A k \in DOMAIN responses : responses[k].type = "ACCEPTED" =>
    /\ responses[k].side \in Sides
    /\ Current(responses[k].side).id = responses[k].id
    /\ Current(responses[k].side).state = "PENDING_NEW"
    /\ \A j \in DOMAIN responses : j # k /\ responses[j].id = responses[k].id =>
         k < j /\ responses[j].type = "FILLED"
Fills ==
  \A k \in DOMAIN responses : responses[k].type = "FILLED" =>
    /\ responses[k].side \in Sides
    /\ Active(responses[k].side) /\ Current(responses[k].side).id = responses[k].id
    /\ 1 <= responses[k].executed
    /\ responses[k].executed + responses[k].remaining <= Current(responses[k].side).quantity
    /\ \A j \in DOMAIN responses :
         k < j /\ responses[j].id = responses[k].id /\ responses[j].type = "FILLED" =>
           responses[j].executed + responses[j].remaining <= responses[k].remaining
    /\ \A order \in resting : order.id = responses[k].id =>
         order.quantity <= responses[k].remaining
Ends ==
  \A k \in DOMAIN responses : responses[k].type \in {"CANCELED", "CANCEL_REJECTED"} =>
    /\ \A side \in Sides : Current(side).id = responses[k].id =>
         Current(side).state \in {"PENDING_CANCEL", "DEAD"}
    /\ \A order \in resting : order.id # responses[k].id
    /\ \A j \in DOMAIN responses :
         k < j /\ responses[j].id = responses[k].id =>
           responses[j].type \in {"CANCELED", "CANCEL_REJECTED"}

\* An order that is live, or about to be, is at the exchange with what the
\* last fill has left of it, unless a fill has left nothing.
IsAccepted(side) ==
  \/ Current(side).state = "LIVE"
  \/ \E k \in DOMAIN responses :
       responses[k].type = "ACCEPTED" /\ responses[k].id = Current(side).id
FilledTo(side, quantity) ==
  \E k \in DOMAIN responses : /\ responses[k].type = "FILLED"
                              /\ responses[k].id = Current(side).id
                              /\ responses[k].remaining = quantity
IsThere(side) ==
  \/ \E order \in resting :
       /\ order.id = Current(side).id
       /\ order.quantity = Current(side).quantity \/ FilledTo(side, order.quantity)
  \/ FilledTo(side, 0)
Accounted == \A side \in Sides : IsAccepted(side) => IsThere(side)

IInv == /\ TypeOK
        /\ OrdersNumbered
        /\ NewRequests
        /\ CancelRequests
        /\ RequestsFit
        /\ RestingOrders
        /\ Accepts
        /\ Fills
        /\ Ends
        /\ Accounted
        /\ PositionWithinLimit

-----------------------------------------------------------------------------
\* What is known of the record of a response, a request, an order.
LEMMA Types ==
  ASSUME TypeOK
  PROVE  /\ \A side \in Sides : Current(side) \in OMOrder
         /\ \A i \in DOMAIN requests : requests[i] \in Request /\ i \in Nat
         /\ \A k \in DOMAIN responses : responses[k] \in Response /\ k \in Nat
         /\ \A order \in resting : order \in Resting
         /\ next_order_id_ \in Nat /\ position_ \in Int
  BY DEF TypeOK, Current

\* Taking the oldest item of a queue moves all the others up.
LEMMA TailFacts ==
  ASSUME NEW S, NEW queue \in Seq(S), queue # << >>
  PROVE  /\ Tail(queue) \in Seq(S)
         /\ 1 \in DOMAIN queue /\ Head(queue) = queue[1]
         /\ \A k \in DOMAIN Tail(queue) : /\ k \in Nat /\ 1 <= k
                                          /\ k + 1 \in DOMAIN queue
                                          /\ Tail(queue)[k] = queue[k + 1]
         /\ \A k \in DOMAIN queue : k # 1 => /\ k \in Nat /\ 1 < k
                                             /\ k - 1 \in DOMAIN Tail(queue)
                                             /\ Tail(queue)[k - 1] = queue[k]
  OBVIOUS

\* Adding an item leaves the others where they are.
LEMMA AppendFacts ==
  ASSUME NEW S, NEW queue \in Seq(S), NEW item \in S
  PROVE  /\ Append(queue, item) \in Seq(S)
         /\ \A k \in DOMAIN queue : /\ k \in Nat /\ k < Len(queue) + 1
                                    /\ k \in DOMAIN Append(queue, item)
                                    /\ Append(queue, item)[k] = queue[k]
         /\ Len(queue) + 1 \in DOMAIN Append(queue, item)
         /\ Append(queue, item)[Len(queue) + 1] = item
         /\ \A k \in DOMAIN Append(queue, item) : k # Len(queue) + 1 => k \in DOMAIN queue
  OBVIOUS

-----------------------------------------------------------------------------
\* The inductive invariant holds at the start.
LEMMA InitInvariant == Init => IInv
<1> SUFFICES ASSUME Init PROVE IInv
  OBVIOUS
<1>1. \A side \in Sides : Current(side) = NoOrder
  BY DEF Init, Current
<1>2. DOMAIN requests = {} /\ DOMAIN responses = {} /\ resting = {}
  BY DEF Init
<1>3. TypeOK
  BY TradingAssumption DEF Init, TypeOK, OMOrder, NoOrder, States, Request, Response
<1>4. OrdersNumbered
  BY <1>1, <1>2 DEF Init, OrdersNumbered, NoOrder, Sides
<1>5. NewRequests /\ CancelRequests /\ RequestsFit /\ RestingOrders /\ Accepts /\ Fills /\ Ends
  BY <1>2 DEF NewRequests, CancelRequests, RequestsFit, RestingOrders, Accepts, Fills, Ends
<1>6. Accounted
  BY <1>1, <1>2 DEF Accounted, IsAccepted, NoOrder
<1>7. PositionWithinLimit
  BY <1>1, TradingAssumption DEF Init, PositionWithinLimit, Outstanding, Active, NoOrder, Sides
<1> QED
  BY <1>3, <1>4, <1>5, <1>6, <1>7 DEF IInv

-----------------------------------------------------------------------------

\* What a response makes of the order it is about: it is told of fewer left,
\* or of its state, and keeps its number.
LEMMA UpdatedFacts ==
  ASSUME NEW order \in OMOrder, NEW response \in Response
  PROVE  /\ Updated(order, response) \in OMOrder
         /\ Updated(order, response).id = order.id
         /\ response.type = "ACCEPTED" =>
              /\ Updated(order, response).state = "LIVE"
              /\ Updated(order, response).quantity = order.quantity
         /\ response.type = "FILLED" =>
              /\ Updated(order, response).quantity = response.remaining
              /\ Updated(order, response).state =
                   IF response.remaining = 0 THEN "DEAD" ELSE order.state
         /\ response.type \in {"CANCELED", "CANCEL_REJECTED"} =>
              /\ Updated(order, response).state = "DEAD"
              /\ Updated(order, response).quantity = order.quantity
<1>1. /\ order.quantity \in 0 .. Clip /\ response.remaining \in 0 .. Clip
      /\ order.state \in States
      /\ response.type \in {"ACCEPTED", "CANCELED", "CANCEL_REJECTED", "FILLED"}
  BY DEF OMOrder, Response
<1> DEFINE state == IF response.remaining = 0 THEN "DEAD" ELSE order.state
<1>2. Updated(order, response) =
        IF response.type = "ACCEPTED" THEN [order EXCEPT !.state = "LIVE"]
        ELSE IF response.type = "FILLED"
          THEN [order EXCEPT !.quantity = response.remaining, !.state = state]
        ELSE [order EXCEPT !.state = "DEAD"]
  BY DEF Updated
<1>3. state \in States
  BY <1>1 DEF States
<1> HIDE DEF state
<1>4. CASE response.type = "ACCEPTED"
  BY <1>1, <1>2, <1>4 DEF OMOrder, States
<1>5. CASE response.type = "FILLED"
  <2>1. Updated(order, response) = [order EXCEPT !.quantity = response.remaining, !.state = state]
    BY <1>2, <1>5
  <2>2. /\ Updated(order, response) \in OMOrder
        /\ Updated(order, response).id = order.id
        /\ Updated(order, response).quantity = response.remaining
        /\ Updated(order, response).state = state
    BY <2>1, <1>1, <1>3 DEF OMOrder
  <2> QED
    BY <2>2, <1>5 DEF state
<1>6. CASE response.type \in {"CANCELED", "CANCEL_REJECTED"}
  BY <1>1, <1>2, <1>6 DEF OMOrder, States
<1> QED
  BY <1>1, <1>4, <1>5, <1>6

\* Hearing a response keeps the invariant.
LEMMA OnOrderUpdateInvariant ==
  ASSUME IInv, OnOrderUpdate PROVE IInv'
<1> DEFINE h == Head(responses)
           after(side) == ticker_side_order_'[side]
<1> USE DEF Current
<1>a. TypeOK /\ responses # << >> /\ responses \in Seq(Response)
  BY DEF IInv, OnOrderUpdate, TypeOK
<1>t. /\ \A side \in Sides : Current(side) \in OMOrder
      /\ \A i \in DOMAIN requests : requests[i] \in Request /\ i \in Nat
      /\ \A k \in DOMAIN responses : responses[k] \in Response /\ k \in Nat
      /\ \A order \in resting : order \in Resting
      /\ next_order_id_ \in Nat /\ position_ \in Int
  BY <1>a, Types
<1>q. responses' = Tail(responses)
  BY DEF OnOrderUpdate
<1>r. /\ responses' \in Seq(Response)
      /\ 1 \in DOMAIN responses /\ h = responses[1]
      /\ \A k \in DOMAIN responses' : /\ k \in Nat /\ 1 <= k
                                      /\ k + 1 \in DOMAIN responses
                                      /\ responses'[k] = responses[k + 1]
      /\ \A k \in DOMAIN responses : k # 1 => /\ k \in Nat /\ 1 < k
                                              /\ k - 1 \in DOMAIN responses'
                                              /\ responses'[k - 1] = responses[k]
  BY <1>a, <1>q, TailFacts
<1>h. h \in Response /\ h.id \in Nat /\ h.id # 0 /\ h.executed \in Nat /\ h.remaining \in Nat
  BY <1>r, <1>t, TradingAssumption DEF Response, Ids
<1>u. UNCHANGED <<next_order_id_, requests, resting>>
  BY DEF OnOrderUpdate
<1>p. position_' = PositionAfter(h)
  BY DEF OnOrderUpdate
<1>o. ticker_side_order_' = [side \in Sides |->
        IF IsAbout(Current(side), h) THEN Updated(Current(side), h) ELSE Current(side)]
  BY DEF OnOrderUpdate, Current
<1> HIDE DEF h
<1>n. \A side \in Sides : Current(side).id = h.id <=> IsAbout(Current(side), h)
  BY <1>h DEF IInv, OrdersNumbered, IsAbout
<1>c. \A side \in Sides : after(side) =
        IF Current(side).id = h.id THEN Updated(Current(side), h) ELSE Current(side)
  BY <1>o, <1>n DEF Current
<1>d. \A side \in Sides :
        /\ after(side) \in OMOrder
        /\ after(side).id = Current(side).id
        /\ Current(side).id # h.id => after(side) = Current(side)
        /\ Current(side).id = h.id =>
             /\ h.type = "ACCEPTED" => /\ after(side).state = "LIVE"
                                       /\ after(side).quantity = Current(side).quantity
             /\ h.type = "FILLED" =>
                  /\ after(side).quantity = h.remaining
                  /\ after(side).state = IF h.remaining = 0 THEN "DEAD" ELSE Current(side).state
             /\ h.type \in {"CANCELED", "CANCEL_REJECTED"} =>
                  /\ after(side).state = "DEAD"
                  /\ after(side).quantity = Current(side).quantity
  BY <1>c, <1>t, <1>h, UpdatedFacts
<1>e. h.type \in {"ACCEPTED", "CANCELED", "CANCEL_REJECTED", "FILLED"}
  BY <1>h DEF Response
<1> USE DEF Active
<1>1. TypeOK'
  <2>1. ticker_side_order_' \in [Sides -> OMOrder]
    BY <1>o, <1>d DEF Current
  <2>2. position_' \in Int
    BY <1>p, <1>h, <1>t DEF PositionAfter, Sign
  <2> QED
    BY <1>a, <1>r, <1>u, <2>1, <2>2 DEF TypeOK
<1>2. OrdersNumbered'
  <2>1. \A side \in Sides : /\ after(side).id < next_order_id_
                            /\ after(side).id = 0 <=> after(side).state = "INVALID"
    BY <1>d, <1>e, <1>h DEF IInv, OrdersNumbered
  <2>2. after("BUY").id # 0 => after("BUY").id # after("SELL").id
    BY <1>d DEF IInv, OrdersNumbered, Sides
  <2>3. \A k \in DOMAIN responses' : responses'[k].id < next_order_id_
    BY <1>r DEF IInv, OrdersNumbered
  <2> QED
    BY <1>u, <2>1, <2>2, <2>3 DEF IInv, OrdersNumbered
\* The order a response is about: which other invariants speak of it.
<1>A. h.type = "ACCEPTED" =>
        /\ h.side \in Sides /\ Current(h.side).id = h.id
        /\ Current(h.side).state = "PENDING_NEW"
        /\ \A k \in DOMAIN responses' : responses'[k].id = h.id => responses'[k].type = "FILLED"
  <2> SUFFICES ASSUME h.type = "ACCEPTED"
               PROVE  /\ h.side \in Sides /\ Current(h.side).id = h.id
                      /\ Current(h.side).state = "PENDING_NEW"
                      /\ \A k \in DOMAIN responses' :
                           responses'[k].id = h.id => responses'[k].type = "FILLED"
    OBVIOUS
  <2>1. /\ h.side \in Sides /\ Current(h.side).id = h.id
        /\ Current(h.side).state = "PENDING_NEW"
        /\ \A j \in DOMAIN responses : j # 1 /\ responses[j].id = h.id =>
             responses[j].type = "FILLED"
    BY <1>r DEF IInv, Accepts
  <2>2. \A k \in DOMAIN responses' : k + 1 # 1
    BY <1>r
  <2> QED
    BY <2>1, <2>2, <1>r
<1>F. h.type = "FILLED" =>
        /\ h.side \in Sides /\ Current(h.side).id = h.id /\ Active(h.side)
        /\ 1 <= h.executed /\ h.executed + h.remaining <= Current(h.side).quantity
        /\ \A k \in DOMAIN responses' :
             responses'[k].id = h.id =>
               /\ responses'[k].type # "ACCEPTED"
               /\ responses'[k].type = "FILLED" =>
                    responses'[k].executed + responses'[k].remaining <= h.remaining
        /\ \A order \in resting : order.id = h.id => order.quantity <= h.remaining
  BY <1>r DEF IInv, Fills, Accepts
<1>E. h.type \in {"CANCELED", "CANCEL_REJECTED"} =>
        /\ \A side \in Sides : Current(side).id = h.id =>
             Current(side).state \in {"PENDING_CANCEL", "DEAD"}
        /\ \A order \in resting : order.id # h.id
        /\ \A k \in DOMAIN responses' : responses'[k].id = h.id =>
             responses'[k].type \in {"CANCELED", "CANCEL_REJECTED"}
  BY <1>r DEF IInv, Ends
<1>s. \A side \in Sides : Current(side).id = h.id =>
        \A other \in Sides : Current(other).id = h.id => other = side
  BY <1>h DEF IInv, OrdersNumbered, Sides
<1>3. NewRequests'
  <2> SUFFICES ASSUME NEW i \in DOMAIN requests, requests[i].type = "NEW"
               PROVE  /\ after(requests[i].side).id = requests[i].id
                      /\ after(requests[i].side).state = "PENDING_NEW"
                      /\ after(requests[i].side).quantity = Clip /\ Clip > 0
                      /\ \A order \in resting : order.id # requests[i].id
                      /\ \A k \in DOMAIN responses' : responses'[k].id # requests[i].id
    BY <1>u DEF NewRequests
  <2>1. requests[i].side \in Sides
    BY <1>t DEF Request
  <2>2. /\ Current(requests[i].side).id = requests[i].id
        /\ Current(requests[i].side).state = "PENDING_NEW"
        /\ Current(requests[i].side).quantity = Clip /\ Clip > 0
        /\ \A order \in resting : order.id # requests[i].id
        /\ \A k \in DOMAIN responses : responses[k].id # requests[i].id
    BY DEF IInv, NewRequests
  <2>3. after(requests[i].side) = Current(requests[i].side)
    BY <2>1, <2>2, <1>r, <1>d
  <2> QED
    BY <2>2, <2>3, <1>r
<1>4. CancelRequests'
  <2> SUFFICES ASSUME NEW i \in DOMAIN requests, requests[i].type = "CANCEL"
               PROVE  \/ /\ after(requests[i].side).id = requests[i].id
                         /\ after(requests[i].side).state \in {"PENDING_CANCEL", "DEAD"}
                      \/ /\ \A side \in Sides : after(side).id # requests[i].id
                         /\ \E j \in DOMAIN requests : /\ i < j /\ requests[j].type = "NEW"
                                                       /\ requests[j].side = requests[i].side
    BY <1>u DEF CancelRequests
  <2>1. requests[i].side \in Sides
    BY <1>t DEF Request
  <2>2. CASE /\ Current(requests[i].side).id = requests[i].id
             /\ Current(requests[i].side).state \in {"PENDING_CANCEL", "DEAD"}
    <3>1. Current(requests[i].side).id = h.id => h.type # "ACCEPTED"
      BY <2>1, <2>2, <1>A, <1>s
    <3> QED
      BY <2>1, <2>2, <3>1, <1>d, <1>e
  <2>3. CASE /\ \A side \in Sides : Current(side).id # requests[i].id
             /\ \E j \in DOMAIN requests : /\ i < j /\ requests[j].type = "NEW"
                                           /\ requests[j].side = requests[i].side
    BY <2>3, <1>d
  <2> QED
    BY <2>2, <2>3 DEF IInv, CancelRequests
<1>5. RequestsFit'
  BY <1>u DEF IInv, RequestsFit
<1>6. RestingOrders'
  <2> SUFFICES ASSUME NEW order \in resting
               PROVE  /\ after(order.side).state \in {"PENDING_NEW", "LIVE", "PENDING_CANCEL"}
                      /\ after(order.side).id = order.id
                      /\ 1 <= order.quantity
                      /\ order.quantity <= after(order.side).quantity
                      /\ \A other \in resting : other.id = order.id => other = order
    BY <1>u DEF RestingOrders
  <2>1. order.side \in Sides /\ order.quantity \in Nat
    BY <1>t, TradingAssumption DEF Resting
  <2>2. /\ Active(order.side) /\ Current(order.side).id = order.id
        /\ 1 <= order.quantity /\ order.quantity <= Current(order.side).quantity
        /\ \A other \in resting : other.id = order.id => other = order
    BY DEF IInv, RestingOrders
  <2>3. CASE order.id # h.id
    BY <2>1, <2>2, <2>3, <1>d
  <2>4. CASE order.id = h.id
    <3>1. h.type \in {"ACCEPTED", "FILLED"}
      BY <2>4, <1>E, <1>e
    <3>2. h.type = "FILLED" => order.quantity <= h.remaining /\ h.remaining # 0
      BY <2>1, <2>2, <2>4, <1>F, <1>h
    <3> QED
      BY <2>1, <2>2, <2>4, <3>1, <3>2, <1>d
  <2> QED
    BY <2>3, <2>4
<1>7. Accepts'
  <2> SUFFICES ASSUME NEW k \in DOMAIN responses', responses'[k].type = "ACCEPTED"
               PROVE  /\ responses'[k].side \in Sides
                      /\ after(responses'[k].side).id = responses'[k].id
                      /\ after(responses'[k].side).state = "PENDING_NEW"
                      /\ \A j \in DOMAIN responses' :
                           j # k /\ responses'[j].id = responses'[k].id =>
                             k < j /\ responses'[j].type = "FILLED"
    BY DEF Accepts
  <2>1. /\ responses'[k].side \in Sides
        /\ Current(responses'[k].side).id = responses'[k].id
        /\ Current(responses'[k].side).state = "PENDING_NEW"
        /\ \A j \in DOMAIN responses : j # k + 1 /\ responses[j].id = responses'[k].id =>
             k + 1 < j /\ responses[j].type = "FILLED"
    BY <1>r DEF IInv, Accepts
  <2>2. responses'[k].id # h.id
    BY <2>1, <1>r
  <2>3. after(responses'[k].side) = Current(responses'[k].side)
    BY <2>1, <2>2, <1>d
  <2>4. ASSUME NEW j \in DOMAIN responses', j # k, responses'[j].id = responses'[k].id
        PROVE  k < j /\ responses'[j].type = "FILLED"
    <3>1. /\ j + 1 \in DOMAIN responses /\ j + 1 # k + 1
          /\ responses'[j] = responses[j + 1] /\ j \in Nat /\ k \in Nat
      BY <2>4, <1>r
    <3>2. k + 1 < j + 1 /\ responses[j + 1].type = "FILLED"
      BY <2>1, <2>4, <3>1
    <3> QED
      BY <3>1, <3>2
  <2> QED
    BY <2>1, <2>3, <2>4
<1>8. Fills'
  <2> SUFFICES ASSUME NEW k \in DOMAIN responses', responses'[k].type = "FILLED"
               PROVE  /\ responses'[k].side \in Sides
                      /\ after(responses'[k].side).state \in {"PENDING_NEW", "LIVE", "PENDING_CANCEL"}
                      /\ after(responses'[k].side).id = responses'[k].id
                      /\ 1 <= responses'[k].executed
                      /\ responses'[k].executed + responses'[k].remaining
                           <= after(responses'[k].side).quantity
                      /\ \A j \in DOMAIN responses' :
                           k < j /\ responses'[j].id = responses'[k].id /\ responses'[j].type = "FILLED" =>
                             responses'[j].executed + responses'[j].remaining <= responses'[k].remaining
                      /\ \A order \in resting : order.id = responses'[k].id =>
                           order.quantity <= responses'[k].remaining
    BY <1>u DEF Fills
  <2>1. /\ responses'[k].side \in Sides
        /\ Active(responses'[k].side) /\ Current(responses'[k].side).id = responses'[k].id
        /\ 1 <= responses'[k].executed
        /\ responses'[k].executed + responses'[k].remaining <= Current(responses'[k].side).quantity
        /\ \A j \in DOMAIN responses :
             k + 1 < j /\ responses[j].id = responses'[k].id /\ responses[j].type = "FILLED" =>
               responses[j].executed + responses[j].remaining <= responses'[k].remaining
        /\ \A order \in resting : order.id = responses'[k].id =>
             order.quantity <= responses'[k].remaining
    BY <1>r DEF IInv, Fills
  <2>2. responses'[k].executed \in Nat /\ responses'[k].remaining \in Nat
    BY <1>r, <1>t, TradingAssumption DEF Response
  <2>3. ASSUME NEW j \in DOMAIN responses', k < j, responses'[j].id = responses'[k].id,
               responses'[j].type = "FILLED"
        PROVE  responses'[j].executed + responses'[j].remaining <= responses'[k].remaining
    <3>1. j + 1 \in DOMAIN responses /\ k + 1 < j + 1 /\ responses'[j] = responses[j + 1]
      BY <2>3, <1>r
    <3> QED
      BY <2>1, <2>3, <3>1
  <2>4. /\ after(responses'[k].side).state \in {"PENDING_NEW", "LIVE", "PENDING_CANCEL"}
        /\ responses'[k].executed + responses'[k].remaining <= after(responses'[k].side).quantity
    <3>1. CASE responses'[k].id # h.id
      BY <2>1, <3>1, <1>d
    <3>2. CASE responses'[k].id = h.id
      <4>1. h.type \in {"ACCEPTED", "FILLED"}
        BY <3>2, <1>E, <1>e
      <4>2. h.type = "FILLED" =>
              /\ responses'[k].executed + responses'[k].remaining <= h.remaining
              /\ h.remaining # 0
        BY <2>1, <2>2, <3>2, <1>F, <1>h
      <4> QED
        BY <2>1, <3>2, <4>1, <4>2, <1>d
    <3> QED
      BY <3>1, <3>2
  <2>5. after(responses'[k].side).id = responses'[k].id
    BY <2>1, <1>d
  <2>6. \A j \in DOMAIN responses' :
          k < j /\ responses'[j].id = responses'[k].id /\ responses'[j].type = "FILLED" =>
            responses'[j].executed + responses'[j].remaining <= responses'[k].remaining
    BY <2>3
  <2> HIDE DEF after
  <2> QED
    BY <2>1, <2>4, <2>5, <2>6, Zenon
<1>9. Ends'
  <2> SUFFICES ASSUME NEW k \in DOMAIN responses',
                      responses'[k].type \in {"CANCELED", "CANCEL_REJECTED"}
               PROVE  /\ \A side \in Sides : after(side).id = responses'[k].id =>
                           after(side).state \in {"PENDING_CANCEL", "DEAD"}
                      /\ \A order \in resting : order.id # responses'[k].id
                      /\ \A j \in DOMAIN responses' :
                           k < j /\ responses'[j].id = responses'[k].id =>
                             responses'[j].type \in {"CANCELED", "CANCEL_REJECTED"}
    BY <1>u DEF Ends
  <2>1. /\ \A side \in Sides : Current(side).id = responses'[k].id =>
             Current(side).state \in {"PENDING_CANCEL", "DEAD"}
        /\ \A order \in resting : order.id # responses'[k].id
        /\ \A j \in DOMAIN responses :
             k + 1 < j /\ responses[j].id = responses'[k].id =>
               responses[j].type \in {"CANCELED", "CANCEL_REJECTED"}
    BY <1>r DEF IInv, Ends
  <2>2. ASSUME NEW j \in DOMAIN responses', k < j, responses'[j].id = responses'[k].id
        PROVE  responses'[j].type \in {"CANCELED", "CANCEL_REJECTED"}
    <3>1. j + 1 \in DOMAIN responses /\ k + 1 < j + 1 /\ responses'[j] = responses[j + 1]
      BY <2>2, <1>r
    <3> QED
      BY <2>1, <2>2, <3>1
  <2>3. ASSUME NEW side \in Sides, after(side).id = responses'[k].id
        PROVE  after(side).state \in {"PENDING_CANCEL", "DEAD"}
    <3>1. Current(side).state \in {"PENDING_CANCEL", "DEAD"}
      BY <2>1, <2>3, <1>d
    <3>2. Current(side).id = h.id => h.type # "ACCEPTED"
      BY <3>1, <1>A, <1>s
    <3> QED
      BY <3>1, <3>2, <1>d, <1>e
  <2> QED
    BY <2>1, <2>2, <2>3
<1>10. Accounted'
  <2> SUFFICES ASSUME NEW side \in Sides, IsAccepted(side)' PROVE IsThere(side)'
    BY DEF Accounted
  <2>i. after(side).id = Current(side).id
    BY <1>d
  <2>1. CASE Current(side).id # h.id
    <3>1. after(side) = Current(side)
      BY <2>1, <1>d
    <3>2. IsAccepted(side)
      BY <3>1, <1>r DEF IsAccepted
    <3>3. IsThere(side)
      BY <3>2 DEF IInv, Accounted
    <3>4. \A quantity : FilledTo(side, quantity) => FilledTo(side, quantity)'
      <4> SUFFICES ASSUME NEW quantity,
                          NEW k \in DOMAIN responses, responses[k].type = "FILLED",
                          responses[k].id = Current(side).id, responses[k].remaining = quantity
                   PROVE  FilledTo(side, quantity)'
        BY DEF FilledTo
      <4>1. k # 1
        BY <2>1, <1>r
      <4>2. k - 1 \in DOMAIN responses' /\ responses'[k - 1] = responses[k]
        BY <4>1, <1>r
      <4> QED
        BY <3>1, <4>2 DEF FilledTo
    <3> QED
      BY <3>1, <3>3, <3>4, <1>u DEF IsThere
  <2>2. CASE Current(side).id = h.id
    <3>1. h.type \in {"ACCEPTED", "FILLED"}
      <4> SUFFICES ASSUME h.type \in {"CANCELED", "CANCEL_REJECTED"} PROVE FALSE
        BY <1>e
      <4>1. after(side).state = "DEAD"
        BY <2>2, <1>d
      <4> QED
        BY <2>2, <2>i, <4>1, <1>E DEF IsAccepted
    <3>2. IsAccepted(side)
      <4>1. CASE h.type = "ACCEPTED"
        BY <2>2, <4>1, <1>r DEF IsAccepted
      <4>2. CASE h.type = "FILLED"
        <5>1. \A k \in DOMAIN responses' : responses'[k].id = h.id => responses'[k].type # "ACCEPTED"
          BY <4>2, <1>F
        <5>2. after(side).state = "LIVE"
          BY <2>2, <2>i, <5>1 DEF IsAccepted
        <5>3. after(side).state = IF h.remaining = 0 THEN "DEAD" ELSE Current(side).state
          BY <2>2, <4>2, <1>d
        <5>4. Current(side).state = "LIVE"
          BY <5>2, <5>3
        <5> QED
          BY <5>4 DEF IsAccepted
      <4> QED
        BY <3>1, <4>1, <4>2
    <3>3. IsThere(side)
      BY <3>2 DEF IInv, Accounted
    <3>4. ASSUME NEW quantity, FilledTo(side, quantity),
                 ~ (h.type = "FILLED" /\ h.remaining = quantity)
          PROVE  FilledTo(side, quantity)'
      <4>1. PICK k \in DOMAIN responses :
              /\ responses[k].type = "FILLED" /\ responses[k].id = Current(side).id
              /\ responses[k].remaining = quantity
        BY <3>4 DEF FilledTo
      <4>2. k # 1
        BY <3>4, <4>1, <1>r
      <4>3. k - 1 \in DOMAIN responses' /\ responses'[k - 1] = responses[k]
        BY <4>2, <1>r
      <4> QED
        BY <2>i, <4>1, <4>3 DEF FilledTo
    <3>5. h.type = "FILLED" => h.remaining # 0
      <4> SUFFICES ASSUME h.type = "FILLED", h.remaining = 0 PROVE FALSE
        OBVIOUS
      <4>1. after(side).state = "DEAD"
        BY <2>2, <1>d
      <4> QED
        BY <2>2, <2>i, <4>1, <1>F DEF IsAccepted
    <3>6. CASE FilledTo(side, 0)
      <4>1. FilledTo(side, 0)'
        BY <3>4, <3>5, <3>6
      <4> QED
        BY <4>1 DEF IsThere
    <3>7. CASE \E order \in resting :
                 /\ order.id = Current(side).id
                 /\ order.quantity = Current(side).quantity \/ FilledTo(side, order.quantity)
      <4>1. PICK order \in resting :
              /\ order.id = Current(side).id
              /\ order.quantity = Current(side).quantity \/ FilledTo(side, order.quantity)
        BY <3>7
      <4>2. order.quantity \in Nat
        BY <1>t, TradingAssumption DEF Resting
      <4>3. order.quantity = after(side).quantity \/ FilledTo(side, order.quantity)'
        <5>1. CASE h.type = "ACCEPTED"
          BY <2>2, <4>1, <3>4, <5>1, <1>d
        <5>2. CASE h.type = "FILLED"
          <6>1. after(side).quantity = h.remaining
            BY <2>2, <5>2, <1>d
          <6>2. CASE order.quantity = h.remaining
            BY <6>1, <6>2
          <6>3. CASE order.quantity # h.remaining
            <7>1. h.side = side
              BY <2>2, <5>2, <1>F, <1>s
            <7>2. Current(side).quantity \in Nat
              BY <1>t, TradingAssumption DEF OMOrder
            <7>3. order.quantity # Current(side).quantity
              BY <2>2, <4>1, <4>2, <5>2, <7>1, <7>2, <1>F, <1>h
            <7> QED
              BY <4>1, <6>3, <7>3, <3>4
          <6> QED
            BY <6>2, <6>3
        <5> QED
          BY <3>1, <5>1, <5>2
      <4> QED
        BY <2>i, <4>1, <4>3, <1>u DEF IsThere
    <3> QED
      BY <3>3, <3>6, <3>7 DEF IsThere
  <2> QED
    BY <2>1, <2>2
<1>11. PositionWithinLimit'
  <2>1. \A side \in Sides : Current(side).quantity \in Nat /\ after(side).quantity \in Nat
    BY <1>t, <1>d, TradingAssumption DEF OMOrder
  <2>2. \A side \in Sides : Outstanding(side) \in Nat /\ Outstanding(side)' \in Nat
    BY <2>1 DEF Outstanding
  <2>3. CASE h.type # "FILLED"
    <3>1. \A side \in Sides : Outstanding(side)' <= Outstanding(side)
      <4> SUFFICES ASSUME NEW side \in Sides PROVE Outstanding(side)' <= Outstanding(side)
        OBVIOUS
      <4>1. CASE Current(side).id # h.id
        BY <4>1, <2>1, <1>d DEF Outstanding
      <4>2. CASE Current(side).id = h.id /\ h.type = "ACCEPTED"
        <5>1. Current(side).state = "PENDING_NEW"
          BY <4>2, <1>A, <1>s
        <5> QED
          BY <4>2, <5>1, <2>1, <1>d DEF Outstanding
      <4>3. CASE Current(side).id = h.id /\ h.type \in {"CANCELED", "CANCEL_REJECTED"}
        <5>1. Outstanding(side)' = 0
          BY <4>3, <1>d DEF Outstanding
        <5> QED
          BY <5>1, <2>2
      <4> QED
        BY <2>3, <1>e, <4>1, <4>2, <4>3
    <3>2. position_' = position_
      BY <2>3, <1>p DEF PositionAfter
    <3> QED
      BY <2>2, <3>1, <3>2, <1>t, TradingAssumption DEF IInv, PositionWithinLimit, Sides
  <2>4. CASE h.type = "FILLED"
    <3>1. \A side \in Sides : side = h.side =>
            Outstanding(side)' + h.executed <= Outstanding(side)
      <4> SUFFICES ASSUME NEW side \in Sides, side = h.side
                   PROVE  Outstanding(side)' + h.executed <= Outstanding(side)
        OBVIOUS
      <4>1. Outstanding(side) = Current(side).quantity
        BY <2>4, <1>F DEF Outstanding
      <4>2. Outstanding(side)' <= h.remaining
        BY <2>4, <1>F, <1>d, <1>h DEF Outstanding
      <4> QED
        BY <2>1, <2>2, <2>4, <4>1, <4>2, <1>F, <1>h
    <3>2. \A side \in Sides : side # h.side => Outstanding(side)' = Outstanding(side)
      BY <2>4, <1>F, <1>s, <1>d DEF Outstanding
    <3>3. position_' = position_ + Sign(h.side) * h.executed
      BY <2>4, <1>p DEF PositionAfter
    <3>4. CASE h.side = "BUY"
      <4>1. position_' = position_ + h.executed
        BY <3>3, <3>4, <1>h, <1>t DEF Sign
      <4> QED
        BY <2>2, <3>1, <3>2, <3>4, <4>1, <1>h, <1>t, TradingAssumption
        DEF IInv, PositionWithinLimit, Sides
    <3>5. CASE h.side = "SELL"
      <4>1. position_' = position_ - h.executed
        BY <3>3, <3>5, <1>h, <1>t DEF Sign
      <4> QED
        BY <2>2, <3>1, <3>2, <3>5, <4>1, <1>h, <1>t, TradingAssumption
        DEF IInv, PositionWithinLimit, Sides
    <3> QED
      BY <2>4, <1>F, <3>4, <3>5 DEF Sides
  <2> QED
    BY <2>3, <2>4
<1> QED
  BY <1>1, <1>2, <1>3, <1>4, <1>5, <1>6, <1>7, <1>8, <1>9, <1>10, <1>11 DEF IInv

-----------------------------------------------------------------------------
\* Once the exchange has taken the oldest request, those left are still about
\* what they were about.
LEMMA RequestsLeft ==
  ASSUME IInv, requests # << >>, requests' = Tail(requests), UNCHANGED ticker_side_order_
  PROVE  CancelRequests' /\ RequestsFit'
<1> USE DEF Current
<1>a. requests \in Seq(Request)
  BY DEF IInv, TypeOK
<1>r. /\ \A k \in DOMAIN requests' : /\ k \in Nat /\ 1 <= k
                                     /\ k + 1 \in DOMAIN requests
                                     /\ requests'[k] = requests[k + 1]
      /\ \A k \in DOMAIN requests : k # 1 => /\ k \in Nat /\ 1 < k
                                             /\ k - 1 \in DOMAIN requests'
                                             /\ requests'[k - 1] = requests[k]
  BY <1>a, TailFacts
<1>1. ASSUME NEW i \in DOMAIN requests', requests'[i].type = "CANCEL"
      PROVE  \/ /\ Current(requests'[i].side).id = requests'[i].id
                /\ Current(requests'[i].side).state \in {"PENDING_CANCEL", "DEAD"}
             \/ /\ \A side \in Sides : Current(side).id # requests'[i].id
                /\ \E j \in DOMAIN requests' : /\ i < j /\ requests'[j].type = "NEW"
                                               /\ requests'[j].side = requests'[i].side
  <2>1. CASE \E j \in DOMAIN requests : /\ i + 1 < j /\ requests[j].type = "NEW"
                                        /\ requests[j].side = requests[i + 1].side
    <3>1. PICK j \in DOMAIN requests : /\ i + 1 < j /\ requests[j].type = "NEW"
                                       /\ requests[j].side = requests[i + 1].side
      BY <2>1
    <3>2. j # 1 /\ i \in Nat /\ 1 <= i /\ j \in Nat
      BY <1>1, <1>a, <3>1, <1>r
    <3>3. j - 1 \in DOMAIN requests' /\ requests'[j - 1] = requests[j] /\ i < j - 1
      BY <3>1, <3>2, <1>r
    <3> QED
      BY <1>1, <1>r, <3>1, <3>3 DEF IInv, CancelRequests
  <2>2. CASE ~ \E j \in DOMAIN requests : /\ i + 1 < j /\ requests[j].type = "NEW"
                                          /\ requests[j].side = requests[i + 1].side
    BY <1>1, <1>r, <2>2 DEF IInv, CancelRequests
  <2> QED
    BY <2>1, <2>2
<1>2. ASSUME NEW i \in DOMAIN requests', NEW j \in DOMAIN requests', i < j,
             requests'[i].side = requests'[j].side
      PROVE  requests'[i].type = "CANCEL" /\ requests'[j].type = "NEW"
  <2>1. i + 1 < j + 1
    BY <1>2, <1>r
  <2> QED
    BY <1>2, <1>r, <2>1 DEF IInv, RequestsFit
<1>3. CancelRequests'
  BY <1>1 DEF CancelRequests
<1>4. RequestsFit'
  BY <1>2 DEF RequestsFit
<1> QED
  BY <1>3, <1>4

\* What the exchange does not touch: the order of a side is accepted, and
\* filled, as before, unless the new response says so.
LEMMA Responded ==
  ASSUME TypeOK, NEW item \in Response, responses' = Append(responses, item),
         UNCHANGED ticker_side_order_
  PROVE  /\ responses' \in Seq(Response)
         /\ Len(responses) + 1 \in DOMAIN responses'
         /\ responses'[Len(responses) + 1] = item
         /\ \A k \in DOMAIN responses : /\ k \in Nat /\ k < Len(responses) + 1
                                        /\ k \in DOMAIN responses'
                                        /\ responses'[k] = responses[k]
         /\ \A k \in DOMAIN responses' : k # Len(responses) + 1 => k \in DOMAIN responses
         /\ \A side \in Sides : \A quantity : FilledTo(side, quantity) => FilledTo(side, quantity)'
         /\ \A side \in Sides : IsAccepted(side)' =>
              IsAccepted(side) \/ (item.type = "ACCEPTED" /\ item.id = Current(side).id)
<1>1. responses \in Seq(Response)
  BY DEF TypeOK
<1>2. /\ responses' \in Seq(Response)
      /\ Len(responses) + 1 \in DOMAIN responses'
      /\ responses'[Len(responses) + 1] = item
      /\ \A k \in DOMAIN responses : /\ k \in Nat /\ k < Len(responses) + 1
                                     /\ k \in DOMAIN responses'
                                     /\ responses'[k] = responses[k]
      /\ \A k \in DOMAIN responses' : k # Len(responses) + 1 => k \in DOMAIN responses
  BY <1>1, AppendFacts
<1>3. ASSUME NEW side \in Sides, NEW quantity, FilledTo(side, quantity)
      PROVE  FilledTo(side, quantity)'
  BY <1>2, <1>3 DEF FilledTo, Current
<1>4. ASSUME NEW side \in Sides, IsAccepted(side)'
      PROVE  IsAccepted(side) \/ (item.type = "ACCEPTED" /\ item.id = Current(side).id)
  BY <1>2, <1>4 DEF IsAccepted, Current
<1> QED
  BY <1>2, <1>3, <1>4

\* An order that arrives at the exchange is accepted and rests there.
LEMMA ExchangeAddInvariant ==
  ASSUME IInv, ExchangeAdd PROVE IInv'
<1> DEFINE request == Head(requests)
           item == [type |-> "ACCEPTED", id |-> request.id, side |-> request.side,
                    executed |-> 0, remaining |-> Clip]
           added == [id |-> request.id, side |-> request.side, quantity |-> Clip]
<1> USE DEF Current, Active
<1>a. TypeOK /\ requests \in Seq(Request) /\ requests # << >>
  BY DEF IInv, TypeOK, ExchangeAdd
<1>t. /\ \A side \in Sides : Current(side) \in OMOrder
      /\ \A k \in DOMAIN responses : responses[k] \in Response /\ k \in Nat
      /\ \A order \in resting : order \in Resting
      /\ \A i \in DOMAIN requests : requests[i] \in Request
  BY <1>a, Types
<1>v. \A i \in DOMAIN requests : requests[i].id \in Ids /\ requests[i].side \in Sides
  BY <1>t DEF Request
<1>u. /\ UNCHANGED <<ticker_side_order_, next_order_id_, position_>>
      /\ requests' = Tail(requests)
      /\ responses' = Append(responses, item)
      /\ resting' = resting \cup {added}
      /\ request.type = "NEW"
  BY DEF ExchangeAdd, Respond
<1>r. /\ requests' \in Seq(Request)
      /\ 1 \in DOMAIN requests /\ request = requests[1]
      /\ \A i \in DOMAIN requests' : /\ i \in Nat /\ 1 <= i
                                     /\ i + 1 \in DOMAIN requests
                                     /\ requests'[i] = requests[i + 1]
  BY <1>a, <1>u, TailFacts
<1>q. request \in Request /\ request.id \in Ids /\ request.side \in Sides
  BY <1>r, <1>t, <1>v
<1>i. item \in Response /\ added \in Resting
  BY <1>q, TradingAssumption DEF Response, Resting
<1>f. /\ item.type = "ACCEPTED" /\ item.id = request.id /\ item.side = request.side
      /\ added.id = request.id /\ added.side = request.side /\ added.quantity = Clip
  OBVIOUS
<1> HIDE DEF request, item, added
<1>p. /\ responses' \in Seq(Response)
      /\ Len(responses) + 1 \in DOMAIN responses'
      /\ responses'[Len(responses) + 1] = item
      /\ \A k \in DOMAIN responses : /\ k \in Nat /\ k < Len(responses) + 1
                                     /\ k \in DOMAIN responses'
                                     /\ responses'[k] = responses[k]
      /\ \A k \in DOMAIN responses' : k # Len(responses) + 1 => k \in DOMAIN responses
      /\ \A side \in Sides : \A quantity : FilledTo(side, quantity) => FilledTo(side, quantity)'
      /\ \A side \in Sides : IsAccepted(side)' =>
           IsAccepted(side) \/ (item.type = "ACCEPTED" /\ item.id = Current(side).id)
  BY <1>a, <1>i, <1>u, Responded
<1>n. /\ Current(request.side).id = request.id
      /\ Current(request.side).state = "PENDING_NEW"
      /\ Current(request.side).quantity = Clip /\ Clip > 0 /\ Clip \in Nat
      /\ \A order \in resting : order.id # request.id
      /\ \A k \in DOMAIN responses : responses[k].id # request.id
  BY <1>r, <1>u, TradingAssumption DEF IInv, NewRequests
<1>s. \A side \in Sides : Current(side).id = request.id => side = request.side
  BY <1>q, <1>n, TradingAssumption DEF IInv, OrdersNumbered, Sides, Ids
<1>1. TypeOK'
  BY <1>a, <1>u, <1>r, <1>p, <1>i DEF TypeOK
<1>2. OrdersNumbered'
  <2>1. request.id < next_order_id_
    BY <1>r DEF IInv, OrdersNumbered
  <2>2. \A i \in DOMAIN requests' : requests'[i].id < next_order_id_
    BY <1>r DEF IInv, OrdersNumbered
  <2>3. \A k \in DOMAIN responses' : responses'[k].id < next_order_id_
    BY <1>p, <1>f, <2>1 DEF IInv, OrdersNumbered
  <2>4. \A order \in resting' : order.id < next_order_id_
    BY <1>u, <1>f, <2>1 DEF IInv, OrdersNumbered
  <2> QED
    BY <1>u, <2>2, <2>3, <2>4 DEF IInv, OrdersNumbered
<1>3. NewRequests'
  <2> SUFFICES ASSUME NEW i \in DOMAIN requests', requests'[i].type = "NEW"
               PROVE  /\ Current(requests'[i].side).id = requests'[i].id
                      /\ Current(requests'[i].side).state = "PENDING_NEW"
                      /\ Current(requests'[i].side).quantity = Clip /\ Clip > 0
                      /\ \A order \in resting' : order.id # requests'[i].id
                      /\ \A k \in DOMAIN responses' : responses'[k].id # requests'[i].id
    BY <1>u DEF NewRequests
  <2>1. /\ Current(requests'[i].side).id = requests'[i].id
        /\ Current(requests'[i].side).state = "PENDING_NEW"
        /\ Current(requests'[i].side).quantity = Clip /\ Clip > 0
        /\ \A order \in resting : order.id # requests'[i].id
        /\ \A k \in DOMAIN responses : responses[k].id # requests'[i].id
    BY <1>r DEF IInv, NewRequests
  <2>2. requests'[i].side \in Sides
    BY <1>r, <1>v
  <2>3. requests'[i].id # request.id
    <3> SUFFICES ASSUME requests'[i].id = request.id PROVE FALSE
      OBVIOUS
    <3>1. requests'[i].side = request.side
      BY <2>1, <2>2, <1>s
    <3>2. i + 1 \in DOMAIN requests /\ 1 < i + 1 /\ requests[1].side = requests[i + 1].side
      BY <3>1, <1>r
    <3> QED
      BY <3>2, <1>r, <1>u DEF IInv, RequestsFit
  <2> QED
    BY <2>1, <2>3, <1>u, <1>f, <1>p
<1>4. CancelRequests' /\ RequestsFit'
  BY <1>a, <1>u, RequestsLeft
<1>6. RestingOrders'
  <2> SUFFICES ASSUME NEW order \in resting'
               PROVE  /\ Active(order.side) /\ Current(order.side).id = order.id
                      /\ 1 <= order.quantity /\ order.quantity <= Current(order.side).quantity
                      /\ \A other \in resting' : other.id = order.id => other = order
    BY <1>u DEF RestingOrders
  <2>1. CASE order = added
    <3>1. \A other \in resting' : other.id = order.id => other = order
      BY <2>1, <1>u, <1>n, <1>f
    <3> QED
      BY <2>1, <3>1, <1>n, <1>f
  <2>2. CASE order \in resting
    <3>1. \A other \in resting' : other.id = order.id => other = order
      BY <2>2, <1>u, <1>n, <1>f DEF IInv, RestingOrders
    <3> QED
      BY <2>2, <3>1 DEF IInv, RestingOrders
  <2> QED
    BY <2>1, <2>2, <1>u
<1>7. Accepts'
  <2> SUFFICES ASSUME NEW k \in DOMAIN responses', responses'[k].type = "ACCEPTED"
               PROVE  /\ responses'[k].side \in Sides
                      /\ Current(responses'[k].side).id = responses'[k].id
                      /\ Current(responses'[k].side).state = "PENDING_NEW"
                      /\ \A j \in DOMAIN responses' :
                           j # k /\ responses'[j].id = responses'[k].id =>
                             k < j /\ responses'[j].type = "FILLED"
    BY <1>u DEF Accepts
  <2>1. CASE k = Len(responses) + 1
    BY <2>1, <1>p, <1>f, <1>n, <1>q
  <2>2. CASE k \in DOMAIN responses
    BY <2>2, <1>p, <1>f, <1>n DEF IInv, Accepts
  <2> QED
    BY <2>1, <2>2, <1>p
<1>8. Fills'
  <2> SUFFICES ASSUME NEW k \in DOMAIN responses', responses'[k].type = "FILLED"
               PROVE  /\ responses'[k].side \in Sides
                      /\ Active(responses'[k].side)
                      /\ Current(responses'[k].side).id = responses'[k].id
                      /\ 1 <= responses'[k].executed
                      /\ responses'[k].executed + responses'[k].remaining
                           <= Current(responses'[k].side).quantity
                      /\ \A j \in DOMAIN responses' :
                           k < j /\ responses'[j].id = responses'[k].id /\ responses'[j].type = "FILLED" =>
                             responses'[j].executed + responses'[j].remaining <= responses'[k].remaining
                      /\ \A order \in resting' : order.id = responses'[k].id =>
                           order.quantity <= responses'[k].remaining
    BY <1>u DEF Fills
  <2>1. k \in DOMAIN responses /\ responses'[k] = responses[k] /\ responses[k].id # request.id
    BY <1>p, <1>f, <1>n
  <2>2. \A j \in DOMAIN responses' :
          k < j /\ responses'[j].id = responses'[k].id /\ responses'[j].type = "FILLED" =>
            responses'[j].executed + responses'[j].remaining <= responses'[k].remaining
    BY <2>1, <1>p, <1>f DEF IInv, Fills
  <2>3. \A order \in resting' : order.id = responses'[k].id =>
          order.quantity <= responses'[k].remaining
    BY <2>1, <1>u, <1>f DEF IInv, Fills
  <2>4. /\ responses'[k].side \in Sides
        /\ Active(responses'[k].side)
        /\ Current(responses'[k].side).id = responses'[k].id
        /\ 1 <= responses'[k].executed
        /\ responses'[k].executed + responses'[k].remaining <= Current(responses'[k].side).quantity
    BY <2>1 DEF IInv, Fills
  <2> QED
    BY <2>2, <2>3, <2>4
<1>9. Ends'
  <2> SUFFICES ASSUME NEW k \in DOMAIN responses',
                      responses'[k].type \in {"CANCELED", "CANCEL_REJECTED"}
               PROVE  /\ \A side \in Sides : Current(side).id = responses'[k].id =>
                           Current(side).state \in {"PENDING_CANCEL", "DEAD"}
                      /\ \A order \in resting' : order.id # responses'[k].id
                      /\ \A j \in DOMAIN responses' :
                           k < j /\ responses'[j].id = responses'[k].id =>
                             responses'[j].type \in {"CANCELED", "CANCEL_REJECTED"}
    BY <1>u DEF Ends
  <2>1. k \in DOMAIN responses /\ responses'[k] = responses[k] /\ responses[k].id # request.id
    BY <1>p, <1>f, <1>n
  <2>2. \A order \in resting' : order.id # responses'[k].id
    BY <2>1, <1>u, <1>f DEF IInv, Ends
  <2>3. \A j \in DOMAIN responses' : k < j /\ responses'[j].id = responses'[k].id =>
          responses'[j].type \in {"CANCELED", "CANCEL_REJECTED"}
    BY <2>1, <1>p, <1>f DEF IInv, Ends
  <2>4. \A side \in Sides : Current(side).id = responses'[k].id =>
          Current(side).state \in {"PENDING_CANCEL", "DEAD"}
    BY <2>1 DEF IInv, Ends
  <2> QED
    BY <2>2, <2>3, <2>4
<1>10. Accounted'
  <2> SUFFICES ASSUME NEW side \in Sides, IsAccepted(side)' PROVE IsThere(side)'
    BY DEF Accounted
  <2>1. CASE Current(side).id = request.id
    <3>1. added \in resting' /\ added.id = Current(side)'.id
          /\ added.quantity = Current(side)'.quantity
      BY <2>1, <1>s, <1>u, <1>f, <1>n
    <3> QED
      BY <3>1 DEF IsThere
  <2>2. CASE Current(side).id # request.id
    <3>1. IsThere(side)
      BY <2>2, <1>p, <1>f DEF IInv, Accounted
    <3> QED
      BY <3>1, <1>p, <1>u DEF IsThere
  <2> QED
    BY <2>1, <2>2
<1>11. PositionWithinLimit'
  BY <1>u DEF IInv, PositionWithinLimit, Outstanding
<1> QED
  BY <1>1, <1>2, <1>3, <1>4, <1>6, <1>7, <1>8, <1>9, <1>10, <1>11 DEF IInv

\* A fill at the exchange is answered, and what is left goes on resting.
LEMMA FillInvariant ==
  ASSUME IInv, NEW order \in resting, NEW executed \in 1 .. order.quantity,
         Fill(order, executed)
  PROVE  IInv'
<1> DEFINE remaining == order.quantity - executed
           item == [type |-> "FILLED", id |-> order.id, side |-> order.side,
                    executed |-> executed, remaining |-> remaining]
           rest == [order EXCEPT !.quantity = remaining]
           kept == IF remaining = 0 THEN {} ELSE {rest}
<1> USE DEF Current, Active
<1>a. TypeOK
  BY DEF IInv
<1>t. /\ \A side \in Sides : Current(side) \in OMOrder
      /\ \A k \in DOMAIN responses : responses[k] \in Response /\ k \in Nat
      /\ \A other \in resting : other \in Resting
      /\ \A i \in DOMAIN requests : requests[i] \in Request
  BY <1>a, Types
<1>u. /\ UNCHANGED <<ticker_side_order_, next_order_id_, position_, requests>>
      /\ responses' = Append(responses, item)
      /\ resting' = (resting \ {order}) \cup kept
  BY DEF Fill, Respond
<1>o. /\ order \in Resting /\ order.id \in Ids /\ order.side \in Sides
      /\ order.quantity \in 0 .. Clip /\ executed \in Nat /\ 1 <= executed
      /\ executed <= order.quantity /\ remaining \in Nat /\ remaining <= order.quantity
      /\ executed + remaining = order.quantity /\ remaining < order.quantity
      /\ order.quantity \in Nat /\ Clip \in Nat
  <2>1. /\ order \in Resting /\ order.id \in Ids /\ order.side \in Sides
        /\ order.quantity \in 0 .. Clip
    BY <1>t DEF Resting
  <2> QED
    BY <2>1, TradingAssumption
<1>i. item \in Response
  BY <1>o DEF Response
<1>j. /\ rest \in Resting /\ rest.id = order.id /\ rest.side = order.side
      /\ rest.quantity = remaining
  BY <1>o DEF Resting
<1>f. /\ item.type = "FILLED" /\ item.id = order.id /\ item.side = order.side
      /\ item.executed = executed /\ item.remaining = remaining
  OBVIOUS
<1>n. /\ Current(order.side).state \in {"PENDING_NEW", "LIVE", "PENDING_CANCEL"}
      /\ Current(order.side).id = order.id
      /\ 1 <= order.quantity /\ order.quantity <= Current(order.side).quantity
      /\ \A other \in resting : other.id = order.id => other = order
  BY DEF IInv, RestingOrders
<1> HIDE DEF item, rest
<1>k. \A other \in resting' :
        \/ other \in resting /\ other.id # order.id
        \/ other = rest /\ remaining # 0
  BY <1>u, <1>n
<1>l. /\ \A other \in resting : other.id # order.id => other \in resting'
      /\ remaining # 0 => rest \in resting'
  BY <1>u
<1>m. \A side \in Sides : Current(side).quantity \in Nat
  BY <1>t, TradingAssumption DEF OMOrder
<1> HIDE DEF remaining, kept
<1>p. /\ responses' \in Seq(Response)
      /\ Len(responses) + 1 \in DOMAIN responses'
      /\ responses'[Len(responses) + 1] = item
      /\ \A k \in DOMAIN responses : /\ k \in Nat /\ k < Len(responses) + 1
                                     /\ k \in DOMAIN responses'
                                     /\ responses'[k] = responses[k]
      /\ \A k \in DOMAIN responses' : k # Len(responses) + 1 => k \in DOMAIN responses
      /\ \A side \in Sides : \A quantity : FilledTo(side, quantity) => FilledTo(side, quantity)'
      /\ \A side \in Sides : IsAccepted(side)' =>
           IsAccepted(side) \/ (item.type = "ACCEPTED" /\ item.id = Current(side).id)
  BY <1>a, <1>i, <1>u, Responded
<1>1. TypeOK'
  <2>1. resting' \subseteq Resting
    BY <1>k, <1>t, <1>j
  <2> QED
    BY <1>a, <1>u, <1>p, <2>1 DEF TypeOK
<1>2. OrdersNumbered'
  <2>1. order.id < next_order_id_
    BY DEF IInv, OrdersNumbered
  <2>3. \A k \in DOMAIN responses' : responses'[k].id < next_order_id_
    BY <1>p, <1>f, <2>1 DEF IInv, OrdersNumbered
  <2>4. \A other \in resting' : other.id < next_order_id_
    BY <1>k, <1>j, <2>1 DEF IInv, OrdersNumbered
  <2> QED
    BY <1>u, <2>3, <2>4 DEF IInv, OrdersNumbered
<1>3. NewRequests'
  <2> SUFFICES ASSUME NEW i \in DOMAIN requests, requests[i].type = "NEW"
               PROVE  /\ Current(requests[i].side).id = requests[i].id
                      /\ Current(requests[i].side).state = "PENDING_NEW"
                      /\ Current(requests[i].side).quantity = Clip /\ Clip > 0
                      /\ \A other \in resting' : other.id # requests[i].id
                      /\ \A k \in DOMAIN responses' : responses'[k].id # requests[i].id
    BY <1>u DEF NewRequests
  <2>1. /\ Current(requests[i].side).id = requests[i].id
        /\ Current(requests[i].side).state = "PENDING_NEW"
        /\ Current(requests[i].side).quantity = Clip /\ Clip > 0
        /\ \A other \in resting : other.id # requests[i].id
        /\ \A k \in DOMAIN responses : responses[k].id # requests[i].id
    BY DEF IInv, NewRequests
  <2>2. requests[i].id # order.id
    BY <2>1
  <2> QED
    BY <2>1, <2>2, <1>k, <1>j, <1>f, <1>p
<1>4. CancelRequests' /\ RequestsFit'
  BY <1>u DEF IInv, CancelRequests, RequestsFit
<1>6. RestingOrders'
  <2> SUFFICES ASSUME NEW one \in resting'
               PROVE  /\ Active(one.side) /\ Current(one.side).id = one.id
                      /\ 1 <= one.quantity /\ one.quantity <= Current(one.side).quantity
                      /\ \A other \in resting' : other.id = one.id => other = one
    BY <1>u DEF RestingOrders
  <2>1. CASE one = rest /\ remaining # 0
    <3>1. \A other \in resting' : other.id = one.id => other = one
      BY <2>1, <1>k, <1>j
    <3> QED
      BY <2>1, <3>1, <1>n, <1>j, <1>o, <1>m
  <2>2. CASE one \in resting /\ one.id # order.id
    <3>1. \A other \in resting' : other.id = one.id => other = one
      BY <2>2, <1>k, <1>j DEF IInv, RestingOrders
    <3> QED
      BY <2>2, <3>1 DEF IInv, RestingOrders
  <2> QED
    BY <2>1, <2>2, <1>k
<1>7. Accepts'
  <2> SUFFICES ASSUME NEW k \in DOMAIN responses', responses'[k].type = "ACCEPTED"
               PROVE  /\ responses'[k].side \in Sides
                      /\ Current(responses'[k].side).id = responses'[k].id
                      /\ Current(responses'[k].side).state = "PENDING_NEW"
                      /\ \A j \in DOMAIN responses' :
                           j # k /\ responses'[j].id = responses'[k].id =>
                             k < j /\ responses'[j].type = "FILLED"
    BY <1>u DEF Accepts
  <2>1. k \in DOMAIN responses /\ responses'[k] = responses[k] /\ k < Len(responses) + 1
    BY <1>p, <1>f
  <2>2. /\ responses[k].side \in Sides
        /\ Current(responses[k].side).id = responses[k].id
        /\ Current(responses[k].side).state = "PENDING_NEW"
        /\ \A j \in DOMAIN responses : j # k /\ responses[j].id = responses[k].id =>
             k < j /\ responses[j].type = "FILLED"
    BY <2>1 DEF IInv, Accepts
  <2> QED
    BY <2>1, <2>2, <1>p, <1>f
<1>8. Fills'
  <2> SUFFICES ASSUME NEW k \in DOMAIN responses', responses'[k].type = "FILLED"
               PROVE  /\ responses'[k].side \in Sides
                      /\ Active(responses'[k].side)
                      /\ Current(responses'[k].side).id = responses'[k].id
                      /\ 1 <= responses'[k].executed
                      /\ responses'[k].executed + responses'[k].remaining
                           <= Current(responses'[k].side).quantity
                      /\ \A j \in DOMAIN responses' :
                           k < j /\ responses'[j].id = responses'[k].id /\ responses'[j].type = "FILLED" =>
                             responses'[j].executed + responses'[j].remaining <= responses'[k].remaining
                      /\ \A other \in resting' : other.id = responses'[k].id =>
                           other.quantity <= responses'[k].remaining
    BY <1>u DEF Fills
  <2>1. CASE k = Len(responses) + 1
    <3>1. \A j \in DOMAIN responses' : ~ (k < j)
      BY <2>1, <1>p
    <3>2. \A other \in resting' : other.id = order.id => other.quantity <= remaining
      BY <1>k, <1>j, <1>o
    <3>3. executed + remaining <= Current(order.side).quantity
      BY <1>n, <1>o
    <3> QED
      BY <2>1, <3>1, <3>2, <3>3, <1>p, <1>f, <1>n, <1>o
  <2>2. CASE k \in DOMAIN responses
    <3>1. responses'[k] = responses[k] /\ k < Len(responses) + 1
      BY <2>2, <1>p
    <3>2. /\ responses[k].side \in Sides
          /\ Active(responses[k].side) /\ Current(responses[k].side).id = responses[k].id
          /\ 1 <= responses[k].executed
          /\ responses[k].executed + responses[k].remaining <= Current(responses[k].side).quantity
          /\ \A j \in DOMAIN responses :
               k < j /\ responses[j].id = responses[k].id /\ responses[j].type = "FILLED" =>
                 responses[j].executed + responses[j].remaining <= responses[k].remaining
          /\ \A other \in resting : other.id = responses[k].id =>
               other.quantity <= responses[k].remaining
      BY <2>2, <3>1 DEF IInv, Fills
    <3>3. responses[k].remaining \in Nat
      BY <2>2, <1>t, TradingAssumption DEF Response
    <3>4. \A other \in resting' : other.id = responses[k].id =>
            other.quantity <= responses[k].remaining
      BY <3>2, <3>3, <1>k, <1>j, <1>o
    <3>5. \A j \in DOMAIN responses' :
            k < j /\ responses'[j].id = responses[k].id /\ responses'[j].type = "FILLED" =>
              responses'[j].executed + responses'[j].remaining <= responses[k].remaining
      BY <3>2, <3>3, <1>p, <1>f, <1>o
    <3> QED
      BY <3>1, <3>2, <3>4, <3>5
  <2> QED
    BY <2>1, <2>2, <1>p
<1>9. Ends'
  <2> SUFFICES ASSUME NEW k \in DOMAIN responses',
                      responses'[k].type \in {"CANCELED", "CANCEL_REJECTED"}
               PROVE  /\ \A side \in Sides : Current(side).id = responses'[k].id =>
                           Current(side).state \in {"PENDING_CANCEL", "DEAD"}
                      /\ \A other \in resting' : other.id # responses'[k].id
                      /\ \A j \in DOMAIN responses' :
                           k < j /\ responses'[j].id = responses'[k].id =>
                             responses'[j].type \in {"CANCELED", "CANCEL_REJECTED"}
    BY <1>u DEF Ends
  <2>1. k \in DOMAIN responses /\ responses'[k] = responses[k]
    BY <1>p, <1>f
  <2>2. responses[k].id # order.id
    BY <2>1 DEF IInv, Ends
  <2>3. \A other \in resting' : other.id # responses'[k].id
    BY <2>1, <2>2, <1>k, <1>j DEF IInv, Ends
  <2>4. \A j \in DOMAIN responses' : k < j /\ responses'[j].id = responses'[k].id =>
          responses'[j].type \in {"CANCELED", "CANCEL_REJECTED"}
    BY <2>1, <2>2, <1>p, <1>f DEF IInv, Ends
  <2>5. \A side \in Sides : Current(side).id = responses'[k].id =>
          Current(side).state \in {"PENDING_CANCEL", "DEAD"}
    BY <2>1 DEF IInv, Ends
  <2> QED
    BY <2>3, <2>4, <2>5
<1>10. Accounted'
  <2> SUFFICES ASSUME NEW side \in Sides, IsAccepted(side)' PROVE IsThere(side)'
    BY DEF Accounted
  <2>1. CASE Current(side).id = order.id
    <3>1. FilledTo(side, remaining)'
      BY <2>1, <1>u, <1>p, <1>f DEF FilledTo
    <3>2. CASE remaining = 0
      BY <3>1, <3>2 DEF IsThere
    <3>3. CASE remaining # 0
      <4>1. rest \in resting' /\ rest.id = Current(side)'.id /\ FilledTo(side, rest.quantity)'
        BY <2>1, <3>1, <3>3, <1>l, <1>j, <1>u
      <4> QED
        BY <4>1 DEF IsThere
    <3> QED
      BY <3>2, <3>3
  <2>2. CASE Current(side).id # order.id
    <3>1. IsThere(side)
      BY <1>p, <1>f DEF IInv, Accounted
    <3> QED
      BY <2>2, <3>1, <1>p, <1>u, <1>l DEF IsThere
  <2> QED
    BY <2>1, <2>2
<1>11. PositionWithinLimit'
  BY <1>u DEF IInv, PositionWithinLimit, Outstanding
<1> QED
  BY <1>1, <1>2, <1>3, <1>4, <1>6, <1>7, <1>8, <1>9, <1>10, <1>11 DEF IInv

\* A cancel at the exchange is answered, and nothing of its order is left.
LEMMA ExchangeCancelInvariant ==
  ASSUME IInv, ExchangeCancel PROVE IInv'
<1> DEFINE request == Head(requests)
<1> USE DEF Current, Active
<1>a. TypeOK /\ requests \in Seq(Request) /\ requests # << >>
  BY DEF IInv, TypeOK, ExchangeCancel
<1>t. /\ \A side \in Sides : Current(side) \in OMOrder
      /\ \A k \in DOMAIN responses : responses[k] \in Response /\ k \in Nat
      /\ \A order \in resting : order \in Resting
      /\ \A i \in DOMAIN requests : requests[i] \in Request
  BY <1>a, Types
<1>v. \A i \in DOMAIN requests : requests[i].id \in Ids /\ requests[i].side \in Sides
  BY <1>t DEF Request
<1>u. /\ UNCHANGED <<ticker_side_order_, next_order_id_, position_>>
      /\ requests' = Tail(requests)
      /\ request.type = "CANCEL"
  BY DEF ExchangeCancel
<1>r. /\ requests' \in Seq(Request)
      /\ 1 \in DOMAIN requests /\ request = requests[1]
      /\ \A i \in DOMAIN requests' : /\ i \in Nat /\ 1 <= i
                                     /\ i + 1 \in DOMAIN requests
                                     /\ requests'[i] = requests[i + 1]
  BY <1>a, <1>u, TailFacts
<1>q. request.id \in Ids /\ request.side \in Sides
  BY <1>r, <1>v
<1>z. /\ \A order \in resting' : order \in resting /\ order.id # request.id
      /\ \A order \in resting : order.id # request.id => order \in resting'
      /\ \E item \in Response : /\ item.type \in {"CANCELED", "CANCEL_REJECTED"}
                                /\ item.id = request.id
                                /\ responses' = Append(responses, item)
  <2> DEFINE found == {order \in resting : order.id = request.id}
  <2>1. CASE /\ found = {}
             /\ Respond("CANCEL_REJECTED", request.id, "NONE", 0, 0)
             /\ UNCHANGED resting
    <3> DEFINE item == [type |-> "CANCEL_REJECTED", id |-> request.id, side |-> "NONE",
                        executed |-> 0, remaining |-> 0]
    <3>1. item \in Response
      BY <1>q, TradingAssumption DEF Response
    <3>2. /\ item.type = "CANCEL_REJECTED" /\ item.id = request.id
          /\ responses' = Append(responses, item)
      BY <2>1 DEF Respond
    <3> HIDE DEF item
    <3> QED
      BY <2>1, <3>1, <3>2
  <2>2. CASE \E order \in found :
               /\ Respond("CANCELED", order.id, order.side, 0, order.quantity)
               /\ resting' = resting \ {order}
    <3>1. PICK order \in found :
               /\ Respond("CANCELED", order.id, order.side, 0, order.quantity)
               /\ resting' = resting \ {order}
      BY <2>2
    <3> DEFINE item == [type |-> "CANCELED", id |-> order.id, side |-> order.side,
                        executed |-> 0, remaining |-> order.quantity]
    <3>2. order.id \in Ids /\ order.side \in Sides /\ order.quantity \in 0 .. Clip
      BY <1>t DEF Resting
    <3>3. item \in Response
      BY <3>2, TradingAssumption DEF Response
    <3>4. /\ item.type = "CANCELED" /\ item.id = request.id
          /\ responses' = Append(responses, item)
      BY <3>1 DEF Respond
    <3>5. \A other \in resting : other.id = request.id => other = order
      BY <3>1 DEF IInv, RestingOrders
    <3> HIDE DEF item
    <3> QED
      BY <3>1, <3>3, <3>4, <3>5
  <2> QED
    BY <2>1, <2>2 DEF ExchangeCancel
<1> HIDE DEF request
<1>w. PICK item \in Response : /\ item.type \in {"CANCELED", "CANCEL_REJECTED"}
                               /\ item.id = request.id
                               /\ responses' = Append(responses, item)
  BY <1>z
<1>p. /\ responses' \in Seq(Response)
      /\ Len(responses) + 1 \in DOMAIN responses'
      /\ responses'[Len(responses) + 1] = item
      /\ \A k \in DOMAIN responses : /\ k \in Nat /\ k < Len(responses) + 1
                                     /\ k \in DOMAIN responses'
                                     /\ responses'[k] = responses[k]
      /\ \A k \in DOMAIN responses' : k # Len(responses) + 1 => k \in DOMAIN responses
      /\ \A side \in Sides : \A quantity : FilledTo(side, quantity) => FilledTo(side, quantity)'
      /\ \A side \in Sides : IsAccepted(side)' =>
           IsAccepted(side) \/ (item.type = "ACCEPTED" /\ item.id = Current(side).id)
  BY <1>a, <1>w, <1>u, Responded
<1>n. \A side \in Sides : Current(side).id = request.id =>
        Current(side).state \in {"PENDING_CANCEL", "DEAD"}
  <2>1. \A side \in Sides : Current(side).id = request.id =>
          Current(request.side).id = request.id
    BY <1>r, <1>u DEF IInv, CancelRequests
  <2>2. \A side \in Sides : Current(side).id = request.id => side = request.side
    BY <2>1, <1>q, TradingAssumption DEF IInv, OrdersNumbered, Sides, Ids
  <2> QED
    BY <2>1, <2>2, <1>r, <1>u, <1>q DEF IInv, CancelRequests
<1>1. TypeOK'
  BY <1>a, <1>u, <1>r, <1>p, <1>z, <1>t DEF TypeOK
<1>2. OrdersNumbered'
  <2>1. request.id < next_order_id_
    BY <1>r DEF IInv, OrdersNumbered
  <2>2. \A i \in DOMAIN requests' : requests'[i].id < next_order_id_
    BY <1>r DEF IInv, OrdersNumbered
  <2>3. \A k \in DOMAIN responses' : responses'[k].id < next_order_id_
    BY <1>p, <1>w, <2>1 DEF IInv, OrdersNumbered
  <2>4. \A order \in resting' : order.id < next_order_id_
    BY <1>z DEF IInv, OrdersNumbered
  <2> QED
    BY <1>u, <2>2, <2>3, <2>4 DEF IInv, OrdersNumbered
<1>3. NewRequests'
  <2> SUFFICES ASSUME NEW i \in DOMAIN requests', requests'[i].type = "NEW"
               PROVE  /\ Current(requests'[i].side).id = requests'[i].id
                      /\ Current(requests'[i].side).state = "PENDING_NEW"
                      /\ Current(requests'[i].side).quantity = Clip /\ Clip > 0
                      /\ \A order \in resting' : order.id # requests'[i].id
                      /\ \A k \in DOMAIN responses' : responses'[k].id # requests'[i].id
    BY <1>u DEF NewRequests
  <2>1. /\ Current(requests'[i].side).id = requests'[i].id
        /\ Current(requests'[i].side).state = "PENDING_NEW"
        /\ Current(requests'[i].side).quantity = Clip /\ Clip > 0
        /\ \A order \in resting : order.id # requests'[i].id
        /\ \A k \in DOMAIN responses : responses[k].id # requests'[i].id
    BY <1>r DEF IInv, NewRequests
  <2>2. requests'[i].side \in Sides
    BY <1>r, <1>v
  <2>3. requests'[i].id # request.id
    BY <2>1, <2>2, <1>n
  <2> QED
    BY <2>1, <2>3, <1>z, <1>w, <1>p
<1>4. CancelRequests' /\ RequestsFit'
  BY <1>a, <1>u, RequestsLeft
<1>6. RestingOrders'
  BY <1>z, <1>u DEF IInv, RestingOrders
<1>7. Accepts'
  <2> SUFFICES ASSUME NEW k \in DOMAIN responses', responses'[k].type = "ACCEPTED"
               PROVE  /\ responses'[k].side \in Sides
                      /\ Current(responses'[k].side).id = responses'[k].id
                      /\ Current(responses'[k].side).state = "PENDING_NEW"
                      /\ \A j \in DOMAIN responses' :
                           j # k /\ responses'[j].id = responses'[k].id =>
                             k < j /\ responses'[j].type = "FILLED"
    BY <1>u DEF Accepts
  <2>1. k \in DOMAIN responses /\ responses'[k] = responses[k]
    BY <1>p, <1>w
  <2>2. /\ responses[k].side \in Sides
        /\ Current(responses[k].side).id = responses[k].id
        /\ Current(responses[k].side).state = "PENDING_NEW"
        /\ \A j \in DOMAIN responses : j # k /\ responses[j].id = responses[k].id =>
             k < j /\ responses[j].type = "FILLED"
    BY <2>1 DEF IInv, Accepts
  <2>3. responses[k].id # request.id
    BY <2>2, <1>n
  <2> QED
    BY <2>1, <2>2, <2>3, <1>p, <1>w
<1>8. Fills'
  <2> SUFFICES ASSUME NEW k \in DOMAIN responses', responses'[k].type = "FILLED"
               PROVE  /\ responses'[k].side \in Sides
                      /\ Active(responses'[k].side)
                      /\ Current(responses'[k].side).id = responses'[k].id
                      /\ 1 <= responses'[k].executed
                      /\ responses'[k].executed + responses'[k].remaining
                           <= Current(responses'[k].side).quantity
                      /\ \A j \in DOMAIN responses' :
                           k < j /\ responses'[j].id = responses'[k].id /\ responses'[j].type = "FILLED" =>
                             responses'[j].executed + responses'[j].remaining <= responses'[k].remaining
                      /\ \A order \in resting' : order.id = responses'[k].id =>
                           order.quantity <= responses'[k].remaining
    BY <1>u DEF Fills
  <2>1. k \in DOMAIN responses /\ responses'[k] = responses[k]
    BY <1>p, <1>w
  <2>2. \A j \in DOMAIN responses' :
          k < j /\ responses'[j].id = responses'[k].id /\ responses'[j].type = "FILLED" =>
            responses'[j].executed + responses'[j].remaining <= responses'[k].remaining
    BY <2>1, <1>p, <1>w DEF IInv, Fills
  <2>3. \A order \in resting' : order.id = responses'[k].id =>
          order.quantity <= responses'[k].remaining
    BY <2>1, <1>z DEF IInv, Fills
  <2>4. /\ responses'[k].side \in Sides
        /\ Active(responses'[k].side)
        /\ Current(responses'[k].side).id = responses'[k].id
        /\ 1 <= responses'[k].executed
        /\ responses'[k].executed + responses'[k].remaining <= Current(responses'[k].side).quantity
    BY <2>1 DEF IInv, Fills
  <2> QED
    BY <2>2, <2>3, <2>4
<1>9. Ends'
  <2> SUFFICES ASSUME NEW k \in DOMAIN responses',
                      responses'[k].type \in {"CANCELED", "CANCEL_REJECTED"}
               PROVE  /\ \A side \in Sides : Current(side).id = responses'[k].id =>
                           Current(side).state \in {"PENDING_CANCEL", "DEAD"}
                      /\ \A order \in resting' : order.id # responses'[k].id
                      /\ \A j \in DOMAIN responses' :
                           k < j /\ responses'[j].id = responses'[k].id =>
                             responses'[j].type \in {"CANCELED", "CANCEL_REJECTED"}
    BY <1>u DEF Ends
  <2>1. CASE k = Len(responses) + 1
    <3>1. \A j \in DOMAIN responses' : ~ (k < j)
      BY <2>1, <1>p
    <3> QED
      BY <2>1, <3>1, <1>p, <1>w, <1>n, <1>z
  <2>2. CASE k \in DOMAIN responses
    <3>1. responses'[k] = responses[k]
      BY <2>2, <1>p
    <3>2. \A j \in DOMAIN responses' : k < j /\ responses'[j].id = responses'[k].id =>
            responses'[j].type \in {"CANCELED", "CANCEL_REJECTED"}
      BY <2>2, <3>1, <1>p, <1>w DEF IInv, Ends
    <3> QED
      BY <2>2, <3>1, <3>2, <1>z DEF IInv, Ends
  <2> QED
    BY <2>1, <2>2, <1>p
<1>10. Accounted'
  <2> SUFFICES ASSUME NEW side \in Sides, IsAccepted(side)' PROVE IsThere(side)'
    BY DEF Accounted
  <2>1. IsAccepted(side)
    BY <1>p, <1>w
  <2>2. Current(side).id # request.id
    <3>1. CASE Current(side).state = "LIVE"
      BY <3>1, <1>n
    <3>2. CASE \E k \in DOMAIN responses :
                 responses[k].type = "ACCEPTED" /\ responses[k].id = Current(side).id
      <4>1. PICK k \in DOMAIN responses :
                 responses[k].type = "ACCEPTED" /\ responses[k].id = Current(side).id
        BY <3>2
      <4>2. /\ responses[k].side \in Sides
            /\ Current(responses[k].side).id = responses[k].id
            /\ Current(responses[k].side).state = "PENDING_NEW"
        BY <4>1 DEF IInv, Accepts
      <4> QED
        BY <4>1, <4>2, <1>n
    <3> QED
      BY <2>1, <3>1, <3>2 DEF IsAccepted
  <2>3. IsThere(side)
    BY <2>1 DEF IInv, Accounted
  <2> QED
    BY <2>2, <2>3, <1>p, <1>u, <1>z DEF IsThere
<1>11. PositionWithinLimit'
  BY <1>u DEF IInv, PositionWithinLimit, Outstanding
<1> QED
  BY <1>1, <1>2, <1>3, <1>4, <1>6, <1>7, <1>8, <1>9, <1>10, <1>11 DEF IInv

-----------------------------------------------------------------------------
\* Sending at most one more request.
LEMMA SentFacts ==
  ASSUME NEW S, NEW queue \in Seq(S), NEW sent \in Seq(S), Len(sent) \in {0, 1}
  PROVE  /\ queue \o sent \in Seq(S)
         /\ Len(queue \o sent) = Len(queue) + Len(sent)
         /\ \A k \in DOMAIN queue : /\ k \in Nat /\ k <= Len(queue)
                                    /\ k \in DOMAIN (queue \o sent)
                                    /\ (queue \o sent)[k] = queue[k]
         /\ \A k \in DOMAIN (queue \o sent) :
              k \notin DOMAIN queue => /\ k = Len(queue) + 1 /\ Len(sent) = 1
                                       /\ (queue \o sent)[k] = sent[1]
         /\ Len(sent) = 1 => /\ Len(queue) + 1 \in DOMAIN (queue \o sent)
                             /\ Len(queue) + 1 \notin DOMAIN queue
                             /\ (queue \o sent)[Len(queue) + 1] = sent[1]
<1> DEFINE n == Len(queue)
           m == Len(sent)
           all == queue \o sent
<1>1. n \in Nat /\ m \in {0, 1}
  OBVIOUS
<1>2. /\ all \in Seq(S)
      /\ Len(all) = n + m
  OBVIOUS
<1>3. DOMAIN queue = 1 .. n /\ DOMAIN all = 1 .. (n + m)
  BY <1>2
<1>4. \A k \in 1 .. (n + m) : all[k] = IF k <= n THEN queue[k] ELSE sent[k - n]
  OBVIOUS
<1> HIDE DEF n, m, all
<1>5. n + 1 - n = 1
  BY <1>1
<1>6. \A k \in DOMAIN queue : k \in Nat /\ k <= n /\ k \in DOMAIN all /\ all[k] = queue[k]
  BY <1>1, <1>3, <1>4
<1>7. \A k \in DOMAIN all : k \notin DOMAIN queue =>
        k = n + 1 /\ m = 1 /\ all[k] = sent[1]
  BY <1>1, <1>3, <1>4, <1>5
<1>8. m = 1 => n + 1 \in DOMAIN all /\ n + 1 \notin DOMAIN queue /\ all[n + 1] = sent[1]
  BY <1>1, <1>3, <1>4, <1>5
<1> QED
  BY <1>2, <1>6, <1>7, <1>8 DEF n, m, all

\* A sequence of one item.
LEMMA OneFacts ==
  ASSUME NEW S, NEW item \in S
  PROVE  << item >> \in Seq(S) /\ Len(<< item >>) = 1 /\ << item >>[1] = item
  OBVIOUS

\* A live order that is not as wanted is cancelled when none is to be sent.
OnlyCancels(order, side, price, lossTooLarge) ==
  ~ SendsNew(order, side, price, lossTooLarge) /\ SendsCancel(order, price)

\* What moveOrder does to the order of a side, and the request it sends.
MovesOne(new, cancel, side, order, id, moved, sent) ==
  /\ moved \in OMOrder
  /\ new => /\ order.state \in {"INVALID", "DEAD"} /\ Clip > 0 /\ WithinPosition(side)
            /\ moved.id = id /\ moved.state = "PENDING_NEW" /\ moved.quantity = Clip
            /\ Len(sent) = 1 /\ sent[1] = [type |-> "NEW", id |-> id, side |-> side]
  /\ ~ new => moved.id = order.id /\ moved.quantity = order.quantity
  /\ cancel => /\ order.state = "LIVE" /\ moved.state = "PENDING_CANCEL"
               /\ Len(sent) = 1
               /\ sent[1] = [type |-> "CANCEL", id |-> order.id, side |-> side]
  /\ ~ new /\ ~ cancel => moved = order /\ Len(sent) = 0
  /\ sent \in Seq(Request)
  /\ Len(sent) \in {0, 1}

\* moveOrder is such a step.
LEMMA MovedFacts ==
  ASSUME NEW side \in Sides, NEW order \in OMOrder, NEW price \in Prices \cup {NoPrice},
         NEW id \in Nat, NEW lossTooLarge \in BOOLEAN,
         SendsNew(order, side, price, lossTooLarge) => id \in Ids,
         order.state # "INVALID" => order.id # 0
  PROVE  MovesOne(SendsNew(order, side, price, lossTooLarge),
                  OnlyCancels(order, side, price, lossTooLarge), side, order, id,
                  Moved(order, side, price, id, lossTooLarge),
                  Sent(order, side, price, id, lossTooLarge))
<1> DEFINE new == SendsNew(order, side, price, lossTooLarge)
           cancel == OnlyCancels(order, side, price, lossTooLarge)
           moved == Moved(order, side, price, id, lossTooLarge)
           sent == Sent(order, side, price, id, lossTooLarge)
<1>t. /\ order.id \in Ids \cup {0} /\ order.quantity \in 0 .. Clip /\ order.state \in States
      /\ Clip \in Nat /\ 0 \notin Ids
  BY TradingAssumption DEF OMOrder, Ids
<1>e. cancel => ~ new
  BY DEF OnlyCancels
<1>1. CASE new
  <2>1. order.state \in {"INVALID", "DEAD"} /\ Clip > 0 /\ WithinPosition(side)
    <3>1. order.state \in {"INVALID", "DEAD"} /\ Clip # 0 /\ WithinPosition(side)
      BY <1>1, Zenon DEF SendsNew, Allowed
    <3> QED
      BY <3>1, <1>t
  <2>2. moved = NewOrder(id, price)
    BY <1>1 DEF Moved
  <2>3. NewOrder(id, price) \in OMOrder
    BY <1>1, <1>t DEF NewOrder, OMOrder, States
  <2>4. sent = << [type |-> "NEW", id |-> id, side |-> side] >>
    BY <1>1 DEF Sent
  <2>5. [type |-> "NEW", id |-> id, side |-> side] \in Request
    BY <1>1 DEF Request
  <2>6. /\ sent \in Seq(Request) /\ Len(sent) = 1
        /\ sent[1] = [type |-> "NEW", id |-> id, side |-> side]
    BY <2>4, <2>5, OneFacts
  <2>7. /\ NewOrder(id, price).id = id /\ NewOrder(id, price).state = "PENDING_NEW"
        /\ NewOrder(id, price).quantity = Clip
    BY DEF NewOrder
  <2> HIDE DEF new, cancel, moved, sent
  <2>8. MovesOne(new, cancel, side, order, id, moved, sent)
    BY <1>1, <1>e, <2>1, <2>2, <2>3, <2>6, <2>7 DEF MovesOne
  <2> QED
    BY <2>8 DEF new, cancel, moved, sent
<1>2. CASE cancel
  <2>1. ~ new /\ order.state = "LIVE"
    BY <1>2, <1>e DEF OnlyCancels, SendsCancel
  <2>2. moved = [order EXCEPT !.state = "PENDING_CANCEL"]
    BY <1>2 DEF Moved, OnlyCancels
  <2>3. /\ [order EXCEPT !.state = "PENDING_CANCEL"] \in OMOrder
        /\ [order EXCEPT !.state = "PENDING_CANCEL"].id = order.id
        /\ [order EXCEPT !.state = "PENDING_CANCEL"].quantity = order.quantity
        /\ [order EXCEPT !.state = "PENDING_CANCEL"].state = "PENDING_CANCEL"
    BY DEF OMOrder, States
  <2>4. sent = << [type |-> "CANCEL", id |-> order.id, side |-> side] >>
    BY <1>2 DEF Sent, OnlyCancels
  <2>5. [type |-> "CANCEL", id |-> order.id, side |-> side] \in Request
    BY <1>t, <2>1 DEF Request
  <2>6. /\ sent \in Seq(Request) /\ Len(sent) = 1
        /\ sent[1] = [type |-> "CANCEL", id |-> order.id, side |-> side]
    BY <2>4, <2>5, OneFacts
  <2> HIDE DEF new, cancel, moved, sent
  <2>7. MovesOne(new, cancel, side, order, id, moved, sent)
    BY <1>2, <2>1, <2>2, <2>3, <2>6 DEF MovesOne
  <2> QED
    BY <2>7 DEF new, cancel, moved, sent
<1>3. CASE ~ new /\ ~ cancel
  <2>1. moved = order /\ sent = << >>
    BY <1>3 DEF Moved, Sent, OnlyCancels
  <2> HIDE DEF new, cancel, moved, sent
  <2>2. sent \in Seq(Request) /\ Len(sent) = 0
    BY <2>1
  <2>3. MovesOne(new, cancel, side, order, id, moved, sent)
    BY <1>3, <2>1, <2>2 DEF MovesOne
  <2> QED
    BY <2>3 DEF new, cancel, moved, sent
<1> QED
  BY <1>1, <1>2, <1>3

\* What moveOrders does: the sides that get a new order and its number, the
\* sides whose order is cancelled, and the requests that are added.
MovesTo(new, cancel, id) ==
  /\ UNCHANGED <<position_, responses, resting>>
  /\ \A side \in new :
       /\ side \in Sides /\ side \notin cancel
       /\ ticker_side_order_[side].state \in {"INVALID", "DEAD"}
       /\ Clip > 0 /\ WithinPosition(side)
       /\ id[side] \in Nat /\ next_order_id_ <= id[side] /\ id[side] < next_order_id_'
       /\ ticker_side_order_'[side].id = id[side]
       /\ ticker_side_order_'[side].state = "PENDING_NEW"
       /\ ticker_side_order_'[side].quantity = Clip
       /\ \A other \in new : id[other] = id[side] => other = side
  /\ \A side \in cancel :
       /\ side \in Sides
       /\ ticker_side_order_[side].state = "LIVE"
       /\ ticker_side_order_'[side].id = ticker_side_order_[side].id
       /\ ticker_side_order_'[side].state = "PENDING_CANCEL"
       /\ ticker_side_order_'[side].quantity = ticker_side_order_[side].quantity
  /\ \A side \in Sides : side \notin new /\ side \notin cancel =>
       ticker_side_order_'[side] = ticker_side_order_[side]
  /\ \A i \in DOMAIN requests : /\ i \in Nat /\ i <= Len(requests)
                                /\ i \in DOMAIN requests' /\ requests'[i] = requests[i]
  /\ \A i \in DOMAIN requests' : i \notin DOMAIN requests =>
       /\ i \in Nat /\ Len(requests) < i
       /\ \/ /\ requests'[i].type = "NEW" /\ requests'[i].side \in new
             /\ requests'[i].id = id[requests'[i].side]
          \/ /\ requests'[i].type = "CANCEL" /\ requests'[i].side \in cancel
             /\ requests'[i].id = ticker_side_order_[requests'[i].side].id
       /\ \A j \in DOMAIN requests' : j \notin DOMAIN requests /\ requests'[j].side = requests'[i].side =>
            j = i
  /\ \A side \in new : \E i \in DOMAIN requests' :
       /\ i \notin DOMAIN requests
       /\ requests'[i].type = "NEW" /\ requests'[i].side = side
  /\ next_order_id_ <= next_order_id_'
  /\ TypeOK'

\* moveOrders is such a step.
LEMMA MoveFacts ==
  ASSUME IInv, NEW bid \in Prices \cup {NoPrice}, NEW ask \in Prices \cup {NoPrice},
         NEW lossTooLarge \in BOOLEAN, MoveOrders(bid, ask, lossTooLarge)
  PROVE  \E new, cancel, id : MovesTo(new, cancel, id)
<1> DEFINE buy == ticker_side_order_["BUY"]
           sell == ticker_side_order_["SELL"]
           newBuy == SendsNew(buy, "BUY", bid, lossTooLarge)
           newSell == SendsNew(sell, "SELL", ask, lossTooLarge)
           cancelBuy == OnlyCancels(buy, "BUY", bid, lossTooLarge)
           cancelSell == OnlyCancels(sell, "SELL", ask, lossTooLarge)
           buyId == next_order_id_
           sellId == next_order_id_ + (IF newBuy THEN 1 ELSE 0)
           nextId == sellId + (IF newSell THEN 1 ELSE 0)
           buySent == Sent(buy, "BUY", bid, buyId, lossTooLarge)
           sellSent == Sent(sell, "SELL", ask, sellId, lossTooLarge)
           buyMoved == Moved(buy, "BUY", bid, buyId, lossTooLarge)
           sellMoved == Moved(sell, "SELL", ask, sellId, lossTooLarge)
           between == requests \o buySent
           new == (IF newBuy THEN {"BUY"} ELSE {}) \cup (IF newSell THEN {"SELL"} ELSE {})
           cancel == (IF cancelBuy THEN {"BUY"} ELSE {}) \cup (IF cancelSell THEN {"SELL"} ELSE {})
           id == [side \in Sides |-> IF side = "BUY" THEN buyId ELSE sellId]
<1>a. TypeOK /\ requests \in Seq(Request)
  BY DEF IInv, TypeOK
<1>t. /\ buy \in OMOrder /\ sell \in OMOrder /\ next_order_id_ \in Nat
      /\ next_order_id_ \in 1 .. MaxOrders + 1 /\ MaxOrders \in Nat
      /\ "BUY" \in Sides /\ "SELL" \in Sides
  BY <1>a, TradingAssumption DEF TypeOK, Sides
<1>z. /\ buy.state # "INVALID" => buy.id # 0
      /\ sell.state # "INVALID" => sell.id # 0
  BY <1>t DEF IInv, OrdersNumbered, Current
<1>u. /\ nextId <= MaxOrders + 1 /\ next_order_id_' = nextId
      /\ ticker_side_order_' = [side \in Sides |-> IF side = "BUY" THEN buyMoved ELSE sellMoved]
      /\ requests' = between \o sellSent
      /\ UNCHANGED <<position_, responses, resting>>
  BY DEF MoveOrders, Sides
<1>b. newBuy \in BOOLEAN /\ newSell \in BOOLEAN /\ cancelBuy \in BOOLEAN /\ cancelSell \in BOOLEAN
  BY DEF SendsNew, SendsCancel, OnlyCancels
<1>n. /\ new = (IF newBuy THEN {"BUY"} ELSE {}) \cup (IF newSell THEN {"SELL"} ELSE {})
      /\ cancel = (IF cancelBuy THEN {"BUY"} ELSE {}) \cup (IF cancelSell THEN {"SELL"} ELSE {})
      /\ id["BUY"] = buyId /\ id["SELL"] = sellId
      /\ cancelBuy => ~ newBuy
      /\ cancelSell => ~ newSell
  BY <1>t DEF OnlyCancels
<1>i. /\ buyId = next_order_id_
      /\ newBuy => sellId = next_order_id_ + 1
      /\ ~ newBuy => sellId = next_order_id_
      /\ newSell => nextId = sellId + 1
      /\ ~ newSell => nextId = sellId
  BY <1>t
<1> HIDE DEF nextId, sellId, buyId, new, cancel, id
<1>j. /\ buyId \in Nat /\ sellId \in Nat /\ nextId \in Nat
      /\ newBuy => buyId \in Ids /\ buyId < nextId
      /\ newSell => sellId \in Ids /\ sellId < nextId
      /\ newBuy => buyId < sellId
      /\ next_order_id_ <= sellId /\ next_order_id_ <= nextId /\ nextId \in 1 .. MaxOrders + 1
  BY <1>t, <1>i, <1>u, <1>b DEF Ids
<1>B. MovesOne(newBuy, cancelBuy, "BUY", buy, buyId, buyMoved, buySent)
  <2> HIDE DEF buy
  <2> QED
    BY <1>t, <1>z, <1>j, MovedFacts
<1>S. MovesOne(newSell, cancelSell, "SELL", sell, sellId, sellMoved, sellSent)
  <2> HIDE DEF sell
  <2> QED
    BY <1>t, <1>z, <1>j, MovedFacts
<1>g. /\ newBuy => /\ Len(buySent) = 1 /\ buySent[1].type = "NEW"
                   /\ buySent[1].side = "BUY" /\ buySent[1].id = buyId
      /\ cancelBuy => /\ Len(buySent) = 1 /\ buySent[1].type = "CANCEL"
                      /\ buySent[1].side = "BUY" /\ buySent[1].id = buy.id
      /\ Len(buySent) = 1 => newBuy \/ cancelBuy
  <2> HIDE DEF buySent, newBuy, cancelBuy, buy, buyMoved
  <2> QED
    BY <1>b, <1>B DEF MovesOne
<1>h. /\ newSell => /\ Len(sellSent) = 1 /\ sellSent[1].type = "NEW"
                    /\ sellSent[1].side = "SELL" /\ sellSent[1].id = sellId
      /\ cancelSell => /\ Len(sellSent) = 1 /\ sellSent[1].type = "CANCEL"
                       /\ sellSent[1].side = "SELL" /\ sellSent[1].id = sell.id
      /\ Len(sellSent) = 1 => newSell \/ cancelSell
  <2> HIDE DEF sellSent, newSell, cancelSell, sell, sellMoved
  <2> QED
    BY <1>b, <1>S DEF MovesOne
<1> HIDE DEF buySent, sellSent, buyMoved, sellMoved, newBuy, newSell, cancelBuy, cancelSell
<1>c. /\ between \in Seq(Request)
      /\ Len(between) = Len(requests) + Len(buySent)
      /\ \A k \in DOMAIN requests : /\ k \in Nat /\ k <= Len(requests)
                                    /\ k \in DOMAIN between /\ between[k] = requests[k]
      /\ \A k \in DOMAIN between : k \notin DOMAIN requests =>
           k = Len(requests) + 1 /\ Len(buySent) = 1 /\ between[k] = buySent[1]
      /\ Len(buySent) = 1 => /\ Len(requests) + 1 \in DOMAIN between
                             /\ Len(requests) + 1 \notin DOMAIN requests
                             /\ between[Len(requests) + 1] = buySent[1]
  BY <1>a, <1>B, SentFacts DEF MovesOne
<1> HIDE DEF between
<1>d. /\ requests' \in Seq(Request)
      /\ \A k \in DOMAIN between : /\ k \in Nat /\ k <= Len(between)
                                   /\ k \in DOMAIN requests' /\ requests'[k] = between[k]
      /\ \A k \in DOMAIN requests' : k \notin DOMAIN between =>
           k = Len(between) + 1 /\ Len(sellSent) = 1 /\ requests'[k] = sellSent[1]
      /\ Len(sellSent) = 1 => /\ Len(between) + 1 \in DOMAIN requests'
                              /\ Len(between) + 1 \notin DOMAIN between
                              /\ requests'[Len(between) + 1] = sellSent[1]
  BY <1>c, <1>u, <1>S, SentFacts DEF MovesOne
<1>e. Len(requests) \in Nat /\ Len(between) \in Nat /\ Len(requests) <= Len(between)
  BY <1>a, <1>c, <1>B DEF MovesOne
<1>f. \A i \in DOMAIN requests' : i \notin DOMAIN requests =>
        /\ i \in Nat /\ Len(requests) < i
        /\ \/ /\ i = Len(requests) + 1
              /\ newBuy \/ cancelBuy
              /\ requests'[i] = buySent[1]
           \/ /\ i = Len(between) + 1
              /\ newSell \/ cancelSell
              /\ requests'[i] = sellSent[1]
  BY <1>c, <1>d, <1>e, <1>g, <1>h
<1>m. /\ ticker_side_order_'["BUY"] = buyMoved
      /\ ticker_side_order_'["SELL"] = sellMoved
  BY <1>t, <1>u
<1>s. \A side \in Sides : side = "BUY" \/ side = "SELL"
  BY DEF Sides
<1>w. /\ "BUY" \in new <=> newBuy
      /\ "SELL" \in new <=> newSell
      /\ "BUY" \in cancel <=> cancelBuy
      /\ "SELL" \in cancel <=> cancelSell
      /\ \A side : side \in new \/ side \in cancel => side = "BUY" \/ side = "SELL"
  BY <1>n, <1>b
<1>1. ASSUME NEW side \in new
      PROVE  /\ side \in Sides /\ side \notin cancel
             /\ ticker_side_order_[side].state \in {"INVALID", "DEAD"}
             /\ Clip > 0 /\ WithinPosition(side)
             /\ id[side] \in Nat /\ next_order_id_ <= id[side] /\ id[side] < next_order_id_'
             /\ ticker_side_order_'[side].id = id[side]
             /\ ticker_side_order_'[side].state = "PENDING_NEW"
             /\ ticker_side_order_'[side].quantity = Clip
             /\ \A other \in new : id[other] = id[side] => other = side
  <2>1. CASE side = "BUY"
    <3>1. newBuy /\ ~ cancelBuy
      BY <1>1, <2>1, <1>w, <1>n
    <3>2. \A other \in new : id[other] = id[side] => other = side
      BY <3>1, <2>1, <1>w, <1>n, <1>j
    <3>3. next_order_id_ <= buyId /\ buyId < next_order_id_'
      BY <3>1, <1>j, <1>i, <1>u, <1>t
    <3> QED
      BY <3>1, <3>2, <3>3, <2>1, <1>w, <1>n, <1>j, <1>B, <1>m, <1>t DEF MovesOne
  <2>2. CASE side = "SELL"
    <3>1. newSell /\ ~ cancelSell
      BY <1>1, <2>2, <1>w, <1>n
    <3>2. \A other \in new : id[other] = id[side] => other = side
      BY <3>1, <2>2, <1>w, <1>n, <1>j
    <3>3. next_order_id_ <= sellId /\ sellId < next_order_id_'
      BY <3>1, <1>j, <1>i, <1>u, <1>t
    <3> QED
      BY <3>1, <3>2, <3>3, <2>2, <1>w, <1>n, <1>j, <1>S, <1>m, <1>t DEF MovesOne
  <2> QED
    BY <2>1, <2>2, <1>w
<1>2. ASSUME NEW side \in cancel
      PROVE  /\ side \in Sides
             /\ ticker_side_order_[side].state = "LIVE"
             /\ ticker_side_order_'[side].id = ticker_side_order_[side].id
             /\ ticker_side_order_'[side].state = "PENDING_CANCEL"
             /\ ticker_side_order_'[side].quantity = ticker_side_order_[side].quantity
  <2>1. CASE side = "BUY"
    BY <1>2, <2>1, <1>w, <1>n, <1>B, <1>m, <1>t DEF MovesOne
  <2>2. CASE side = "SELL"
    BY <1>2, <2>2, <1>w, <1>n, <1>S, <1>m, <1>t DEF MovesOne
  <2> QED
    BY <2>1, <2>2, <1>2, <1>w
<1>3. \A side \in Sides : side \notin new /\ side \notin cancel =>
        ticker_side_order_'[side] = ticker_side_order_[side]
  BY <1>s, <1>w, <1>B, <1>S, <1>m DEF MovesOne
<1>4. \A i \in DOMAIN requests : /\ i \in Nat /\ i <= Len(requests)
                                 /\ i \in DOMAIN requests' /\ requests'[i] = requests[i]
  BY <1>c, <1>d
<1>5. ASSUME NEW i \in DOMAIN requests', i \notin DOMAIN requests
      PROVE  /\ i \in Nat /\ Len(requests) < i
             /\ \/ /\ requests'[i].type = "NEW" /\ requests'[i].side \in new
                   /\ requests'[i].id = id[requests'[i].side]
                \/ /\ requests'[i].type = "CANCEL" /\ requests'[i].side \in cancel
                   /\ requests'[i].id = ticker_side_order_[requests'[i].side].id
             /\ \A j \in DOMAIN requests' : j \notin DOMAIN requests /\ requests'[j].side = requests'[i].side =>
                  j = i
  <2>1. \A j \in DOMAIN requests' : j \notin DOMAIN requests /\ requests'[j].side = requests'[i].side =>
          j = i
    BY <1>5, <1>f, <1>g, <1>h
  <2>2. \/ /\ requests'[i].type = "NEW" /\ requests'[i].side \in new
           /\ requests'[i].id = id[requests'[i].side]
        \/ /\ requests'[i].type = "CANCEL" /\ requests'[i].side \in cancel
           /\ requests'[i].id = ticker_side_order_[requests'[i].side].id
    <3>1. CASE /\ newBuy \/ cancelBuy
               /\ requests'[i] = buySent[1]
      BY <3>1, <1>g, <1>w, <1>n
    <3>2. CASE /\ newSell \/ cancelSell
               /\ requests'[i] = sellSent[1]
      BY <3>2, <1>h, <1>w, <1>n
    <3> QED
      BY <1>5, <1>f, <3>1, <3>2
  <2> QED
    BY <1>5, <1>f, <2>1, <2>2
<1>6. ASSUME NEW side \in new
      PROVE  \E i \in DOMAIN requests' : /\ i \notin DOMAIN requests
                                         /\ requests'[i].type = "NEW" /\ requests'[i].side = side
  <2>1. CASE side = "BUY"
    <3>1. newBuy
      BY <1>6, <2>1, <1>w
    <3>2. /\ Len(requests) + 1 \in DOMAIN requests'
          /\ Len(requests) + 1 \notin DOMAIN requests
          /\ requests'[Len(requests) + 1] = buySent[1]
      BY <3>1, <1>c, <1>d, <1>g
    <3> QED
      BY <3>1, <3>2, <2>1, <1>g
  <2>2. CASE side = "SELL"
    <3>1. newSell
      BY <1>6, <2>2, <1>w
    <3>2. /\ Len(between) + 1 \in DOMAIN requests'
          /\ Len(between) + 1 \notin DOMAIN requests
          /\ requests'[Len(between) + 1] = sellSent[1]
      BY <3>1, <1>c, <1>d, <1>h
    <3> QED
      BY <3>1, <3>2, <2>2, <1>h
  <2> QED
    BY <2>1, <2>2, <1>6, <1>w
<1>7. TypeOK'
  <2>1. ticker_side_order_' \in [Sides -> OMOrder]
    BY <1>u, <1>B, <1>S DEF MovesOne
  <2> QED
    BY <1>a, <1>u, <1>j, <1>d, <2>1 DEF TypeOK
<1>8. next_order_id_ <= next_order_id_'
  BY <1>j, <1>u
<1>9. MovesTo(new, cancel, id)
  BY <1>1, <1>2, <1>3, <1>4, <1>5, <1>6, <1>7, <1>8, <1>u DEF MovesTo
<1> QED
  BY <1>9

\* Moving the orders keeps the invariant.
LEMMA MoveOrdersInvariant ==
  ASSUME IInv, NEW bid \in Prices \cup {NoPrice}, NEW ask \in Prices \cup {NoPrice},
         NEW lossTooLarge \in BOOLEAN, MoveOrders(bid, ask, lossTooLarge)
  PROVE  IInv'
<1> DEFINE after(side) == ticker_side_order_'[side]
<1> USE DEF Current, Active
<1>a. TypeOK
  BY DEF IInv
<1>t. /\ \A side \in Sides : Current(side) \in OMOrder
      /\ \A i \in DOMAIN requests : requests[i] \in Request /\ i \in Nat
      /\ \A k \in DOMAIN responses : responses[k] \in Response /\ k \in Nat
      /\ \A order \in resting : order \in Resting
      /\ next_order_id_ \in Nat /\ position_ \in Int
  BY <1>a, Types
<1>v. /\ \A i \in DOMAIN requests : requests[i].id \in Nat /\ requests[i].id # 0
                                    /\ requests[i].side \in Sides
      /\ \A k \in DOMAIN responses : responses[k].id \in Nat
      /\ \A order \in resting : order.id \in Nat /\ order.side \in Sides
      /\ \A side \in Sides : Current(side).id \in Nat /\ Current(side).quantity \in Nat
      /\ Clip \in Nat
  BY <1>t, TradingAssumption DEF Request, Response, Resting, OMOrder, Ids
<1>m. PICK new, cancel, id : MovesTo(new, cancel, id)
  BY MoveFacts
<1>u. UNCHANGED <<position_, responses, resting>>
  BY <1>m DEF MovesTo
<1>n. /\ \A side \in new :
           /\ side \in Sides /\ side \notin cancel
           /\ Current(side).state \in {"INVALID", "DEAD"}
           /\ Clip > 0 /\ WithinPosition(side)
           /\ id[side] \in Nat /\ next_order_id_ <= id[side] /\ id[side] < next_order_id_'
           /\ after(side).id = id[side]
           /\ after(side).state = "PENDING_NEW"
           /\ after(side).quantity = Clip
           /\ \A other \in new : id[other] = id[side] => other = side
      /\ \A side \in cancel :
           /\ side \in Sides
           /\ Current(side).state = "LIVE"
           /\ after(side).id = Current(side).id
           /\ after(side).state = "PENDING_CANCEL"
           /\ after(side).quantity = Current(side).quantity
      /\ \A side \in Sides : side \notin new /\ side \notin cancel =>
           after(side) = Current(side)
  BY <1>m DEF MovesTo
<1>r. /\ \A i \in DOMAIN requests : /\ i \in Nat /\ i <= Len(requests)
                                    /\ i \in DOMAIN requests' /\ requests'[i] = requests[i]
      /\ \A i \in DOMAIN requests' : i \notin DOMAIN requests =>
           /\ i \in Nat /\ Len(requests) < i
           /\ \/ /\ requests'[i].type = "NEW" /\ requests'[i].side \in new
                 /\ requests'[i].id = id[requests'[i].side]
              \/ /\ requests'[i].type = "CANCEL" /\ requests'[i].side \in cancel
                 /\ requests'[i].id = Current(requests'[i].side).id
           /\ \A j \in DOMAIN requests' : j \notin DOMAIN requests /\ requests'[j].side = requests'[i].side =>
                j = i
      /\ \A side \in new : \E i \in DOMAIN requests' :
           /\ i \notin DOMAIN requests
           /\ requests'[i].type = "NEW" /\ requests'[i].side = side
      /\ next_order_id_ <= next_order_id_' /\ next_order_id_' \in Nat
      /\ TypeOK'
      /\ Len(requests) \in Nat
  <2>1. TypeOK' => next_order_id_' \in Nat
    BY DEF TypeOK
  <2>2. Len(requests) \in Nat
    BY <1>a DEF TypeOK
  <2> QED
    BY <1>m, <2>1, <2>2 DEF MovesTo
<1> HIDE DEF after
<1>i. \A side \in Sides : side \notin new => after(side).id = Current(side).id
  BY <1>n
<1>k. \A side \in Sides :
        Current(side).state \in {"PENDING_NEW", "PENDING_CANCEL"} => after(side) = Current(side)
  BY <1>n
<1>2. OrdersNumbered'
  <2>1. \A side \in Sides : /\ after(side).id < next_order_id_'
                            /\ after(side).id = 0 <=> after(side).state = "INVALID"
    <3> SUFFICES ASSUME NEW side \in Sides
                 PROVE  /\ after(side).id < next_order_id_'
                        /\ after(side).id = 0 <=> after(side).state = "INVALID"
      OBVIOUS
    <3>1. /\ Current(side).id < next_order_id_
          /\ Current(side).id = 0 <=> Current(side).state = "INVALID"
      BY DEF IInv, OrdersNumbered
    <3>2. 1 <= next_order_id_
      BY <1>a DEF TypeOK
    <3>3. CASE side \in new
      BY <3>2, <3>3, <1>n, <1>t
    <3>4. CASE side \in cancel
      BY <3>1, <3>4, <1>n, <1>v, <1>r, <1>t
    <3>5. CASE side \notin new /\ side \notin cancel
      BY <3>1, <3>5, <1>n, <1>v, <1>r, <1>t
    <3> QED
      BY <3>3, <3>4, <3>5
  <2>2. after("BUY").id # 0 => after("BUY").id # after("SELL").id
    <3>1. /\ Current("BUY").id # 0 => Current("BUY").id # Current("SELL").id
          /\ Current("BUY").id < next_order_id_ /\ Current("SELL").id < next_order_id_
          /\ "BUY" \in Sides /\ "SELL" \in Sides
      BY DEF IInv, OrdersNumbered, Sides
    <3>2. CASE "BUY" \in new /\ "SELL" \in new
      BY <3>2, <1>n
    <3>3. CASE "BUY" \in new /\ "SELL" \notin new
      BY <3>1, <3>3, <1>n, <1>i, <1>v, <1>t
    <3>4. CASE "BUY" \notin new /\ "SELL" \in new
      BY <3>1, <3>4, <1>n, <1>i, <1>v, <1>t
    <3>5. CASE "BUY" \notin new /\ "SELL" \notin new
      BY <3>1, <3>5, <1>i
    <3> QED
      BY <3>2, <3>3, <3>4, <3>5
  <2>3. ASSUME NEW i \in DOMAIN requests' PROVE requests'[i].id < next_order_id_'
    <3>1. CASE i \in DOMAIN requests
      BY <3>1, <1>r, <1>v, <1>t DEF IInv, OrdersNumbered
    <3>2. CASE i \notin DOMAIN requests /\ requests'[i].type = "NEW"
      BY <3>2, <1>r, <1>n
    <3>3. CASE i \notin DOMAIN requests /\ requests'[i].type = "CANCEL"
      <4>1. requests'[i].side \in cancel /\ requests'[i].id = Current(requests'[i].side).id
        BY <3>3, <1>r
      <4>2. Current(requests'[i].side).id < next_order_id_
        BY <4>1, <1>n DEF IInv, OrdersNumbered
      <4> QED
        BY <4>1, <4>2, <1>n, <1>r, <1>v, <1>t
    <3> QED
      BY <3>1, <3>2, <3>3, <1>r
  <2>4. \A k \in DOMAIN responses : responses[k].id < next_order_id_'
    BY <1>r, <1>v, <1>t DEF IInv, OrdersNumbered
  <2>5. \A order \in resting : order.id < next_order_id_'
    BY <1>r, <1>v, <1>t DEF IInv, OrdersNumbered
  <2> QED
    BY <1>u, <2>1, <2>2, <2>3, <2>4, <2>5 DEF OrdersNumbered, after
<1>3. NewRequests'
  <2> SUFFICES ASSUME NEW i \in DOMAIN requests', requests'[i].type = "NEW"
               PROVE  /\ after(requests'[i].side).id = requests'[i].id
                      /\ after(requests'[i].side).state = "PENDING_NEW"
                      /\ after(requests'[i].side).quantity = Clip /\ Clip > 0
                      /\ \A order \in resting : order.id # requests'[i].id
                      /\ \A k \in DOMAIN responses : responses[k].id # requests'[i].id
    BY <1>u DEF NewRequests, after
  <2>1. CASE i \in DOMAIN requests
    <3>1. /\ Current(requests[i].side).id = requests[i].id
          /\ Current(requests[i].side).state = "PENDING_NEW"
          /\ Current(requests[i].side).quantity = Clip /\ Clip > 0
          /\ \A order \in resting : order.id # requests[i].id
          /\ \A k \in DOMAIN responses : responses[k].id # requests[i].id
          /\ requests'[i] = requests[i]
      BY <2>1, <1>r DEF IInv, NewRequests
    <3>2. after(requests[i].side) = Current(requests[i].side)
      BY <2>1, <3>1, <1>k, <1>v
    <3> QED
      BY <3>1, <3>2
  <2>2. CASE i \notin DOMAIN requests
    <3>1. requests'[i].side \in new /\ requests'[i].id = id[requests'[i].side]
      BY <2>2, <1>r
    <3>2. next_order_id_ <= requests'[i].id /\ requests'[i].id \in Nat
      BY <3>1, <1>n
    <3>3. \A order \in resting : order.id # requests'[i].id
      BY <3>2, <1>v, <1>t DEF IInv, OrdersNumbered
    <3>4. \A k \in DOMAIN responses : responses[k].id # requests'[i].id
      BY <3>2, <1>v, <1>t DEF IInv, OrdersNumbered
    <3> QED
      BY <3>1, <3>3, <3>4, <1>n
  <2> QED
    BY <2>1, <2>2
<1>4. CancelRequests'
  <2> SUFFICES ASSUME NEW i \in DOMAIN requests', requests'[i].type = "CANCEL"
               PROVE  \/ /\ after(requests'[i].side).id = requests'[i].id
                         /\ after(requests'[i].side).state \in {"PENDING_CANCEL", "DEAD"}
                      \/ /\ \A side \in Sides : after(side).id # requests'[i].id
                         /\ \E j \in DOMAIN requests' : /\ i < j /\ requests'[j].type = "NEW"
                                                        /\ requests'[j].side = requests'[i].side
    BY DEF CancelRequests, after
  <2>1. CASE i \notin DOMAIN requests
    BY <2>1, <1>r, <1>n
  <2>2. CASE i \in DOMAIN requests
    <3> DEFINE side == requests[i].side
    <3>1. /\ requests'[i] = requests[i] /\ side \in Sides
          /\ requests[i].id \in Nat /\ requests[i].id # 0 /\ requests[i].id < next_order_id_
      BY <2>2, <1>r, <1>v DEF IInv, OrdersNumbered
    <3>2. CASE /\ Current(side).id = requests[i].id
               /\ Current(side).state \in {"PENDING_CANCEL", "DEAD"}
      <4>1. CASE side \in new
        <5>1. \A other \in Sides : Current(other).id = requests[i].id => other = side
          BY <3>1, <3>2 DEF IInv, OrdersNumbered, Sides
        <5>2. \A other \in Sides : other \in new => after(other).id # requests[i].id
          BY <3>1, <1>n, <1>t
        <5>3. \A other \in Sides : after(other).id # requests[i].id
          BY <4>1, <5>1, <5>2, <1>i
        <5>4. PICK j \in DOMAIN requests' : /\ j \notin DOMAIN requests
                                            /\ requests'[j].type = "NEW" /\ requests'[j].side = side
          BY <4>1, <1>r
        <5>5. i < j
          BY <2>2, <5>4, <1>r
        <5> QED
          BY <3>1, <5>3, <5>4, <5>5
      <4>2. CASE side \notin new
        <5>1. after(side) = Current(side)
          BY <3>1, <3>2, <4>2, <1>n
        <5> QED
          BY <3>1, <3>2, <5>1
      <4> QED
        BY <4>1, <4>2
    <3>3. CASE /\ \A other \in Sides : Current(other).id # requests[i].id
               /\ \E j \in DOMAIN requests : /\ i < j /\ requests[j].type = "NEW"
                                             /\ requests[j].side = side
      <4>1. \A other \in Sides : other \in new => after(other).id # requests[i].id
        BY <3>1, <1>n, <1>t
      <4>2. \A other \in Sides : after(other).id # requests[i].id
        BY <3>3, <4>1, <1>i
      <4> QED
        BY <3>1, <3>3, <4>2, <1>r
    <3> QED
      BY <2>2, <3>1, <3>2, <3>3 DEF IInv, CancelRequests
  <2> QED
    BY <2>1, <2>2
<1>5. RequestsFit'
  <2> SUFFICES ASSUME NEW i \in DOMAIN requests', NEW j \in DOMAIN requests', i < j,
                      requests'[i].side = requests'[j].side
               PROVE  requests'[i].type = "CANCEL" /\ requests'[j].type = "NEW"
    BY DEF RequestsFit
  <2>1. CASE i \in DOMAIN requests /\ j \in DOMAIN requests
    BY <2>1, <1>r DEF IInv, RequestsFit
  <2>2. CASE i \in DOMAIN requests /\ j \notin DOMAIN requests
    <3>1. requests'[i] = requests[i] /\ requests[i].side = requests'[j].side
      BY <2>2, <1>r
    <3>2. requests[i].type \in {"NEW", "CANCEL"}
      BY <2>2, <1>t DEF Request
    <3>3. \A k \in DOMAIN requests : requests[k].type = "NEW" =>
            Current(requests[k].side).state = "PENDING_NEW"
      BY DEF IInv, NewRequests
    <3>4. /\ requests'[j].side \in new \/ requests'[j].side \in cancel
          /\ requests'[j].side \in new => requests'[j].type = "NEW"
      BY <2>2, <1>r, <1>n
    <3>5. \A k \in DOMAIN requests : requests[k].type = "NEW" =>
            requests[k].side # requests'[j].side
      BY <3>3, <3>4, <1>n
    <3>6. requests[i].type = "CANCEL"
      BY <2>2, <3>1, <3>2, <3>5
    <3>7. Current(requests[i].side).state \in {"PENDING_CANCEL", "DEAD"}
      BY <2>2, <3>1, <3>5, <3>6 DEF IInv, CancelRequests
    <3>8. requests'[j].side \in new
      BY <3>1, <3>4, <3>7, <1>n
    <3> QED
      BY <3>1, <3>4, <3>6, <3>8
  <2>3. CASE i \notin DOMAIN requests /\ j \in DOMAIN requests
    <3>1. j <= Len(requests) /\ Len(requests) < i /\ i \in Nat /\ j \in Nat
      BY <2>3, <1>r
    <3> QED
      BY <3>1, <1>r
  <2>4. CASE i \notin DOMAIN requests /\ j \notin DOMAIN requests
    <3>1. i = j /\ i \in Nat
      BY <2>4, <1>r
    <3> QED
      BY <3>1
  <2> QED
    BY <2>1, <2>2, <2>3, <2>4
<1>6. RestingOrders'
  <2> SUFFICES ASSUME NEW order \in resting
               PROVE  /\ after(order.side).state \in {"PENDING_NEW", "LIVE", "PENDING_CANCEL"}
                      /\ after(order.side).id = order.id
                      /\ 1 <= order.quantity /\ order.quantity <= after(order.side).quantity
                      /\ \A other \in resting : other.id = order.id => other = order
    BY <1>u DEF RestingOrders, after
  <2>1. /\ Active(order.side) /\ Current(order.side).id = order.id
        /\ 1 <= order.quantity /\ order.quantity <= Current(order.side).quantity
        /\ \A other \in resting : other.id = order.id => other = order
        /\ order.side \in Sides
    BY <1>v DEF IInv, RestingOrders
  <2> QED
    BY <2>1, <1>n
<1>7. Accepts'
  <2> SUFFICES ASSUME NEW k \in DOMAIN responses, responses[k].type = "ACCEPTED"
               PROVE  /\ responses[k].side \in Sides
                      /\ after(responses[k].side).id = responses[k].id
                      /\ after(responses[k].side).state = "PENDING_NEW"
                      /\ \A j \in DOMAIN responses : j # k /\ responses[j].id = responses[k].id =>
                           k < j /\ responses[j].type = "FILLED"
    BY <1>u DEF Accepts, after
  <2> QED
    BY <1>k DEF IInv, Accepts
<1>8. Fills'
  <2> SUFFICES ASSUME NEW k \in DOMAIN responses, responses[k].type = "FILLED"
               PROVE  /\ responses[k].side \in Sides
                      /\ after(responses[k].side).state \in {"PENDING_NEW", "LIVE", "PENDING_CANCEL"}
                      /\ after(responses[k].side).id = responses[k].id
                      /\ after(responses[k].side).quantity = Current(responses[k].side).quantity
    BY <1>u DEF IInv, Fills, after
  <2>1. /\ responses[k].side \in Sides
        /\ Active(responses[k].side) /\ Current(responses[k].side).id = responses[k].id
    BY DEF IInv, Fills
  <2> QED
    BY <2>1, <1>n
<1>9. Ends'
  <2> SUFFICES ASSUME NEW k \in DOMAIN responses,
                      responses[k].type \in {"CANCELED", "CANCEL_REJECTED"},
                      NEW side \in Sides, after(side).id = responses[k].id
               PROVE  after(side).state \in {"PENDING_CANCEL", "DEAD"}
    BY <1>u DEF IInv, Ends, after
  <2>1. side \notin new
    BY <1>n, <1>v, <1>t DEF IInv, OrdersNumbered
  <2>2. Current(side).state \in {"PENDING_CANCEL", "DEAD"}
    BY <2>1, <1>i DEF IInv, Ends
  <2> QED
    BY <2>1, <2>2, <1>n
<1>10. Accounted'
  <2> SUFFICES ASSUME NEW side \in Sides, IsAccepted(side)' PROVE IsThere(side)'
    BY DEF Accounted
  <2>1. \/ after(side).state = "LIVE"
        \/ \E k \in DOMAIN responses :
             responses[k].type = "ACCEPTED" /\ responses[k].id = after(side).id
    BY <1>u DEF IsAccepted, after
  <2>2. side \notin new
    <3> SUFFICES ASSUME side \in new PROVE FALSE
      OBVIOUS
    <3>1. after(side).state = "PENDING_NEW" /\ next_order_id_ <= after(side).id
          /\ after(side).id \in Nat
      BY <1>n
    <3>2. PICK k \in DOMAIN responses :
            responses[k].type = "ACCEPTED" /\ responses[k].id = after(side).id
      BY <2>1, <3>1
    <3>3. responses[k].id < next_order_id_ /\ responses[k].id \in Nat
      BY <1>v DEF IInv, OrdersNumbered
    <3> QED
      BY <3>1, <3>2, <3>3, <1>t
  <2>3. after(side).id = Current(side).id /\ after(side).quantity = Current(side).quantity
    BY <2>2, <1>n
  <2>4. IsAccepted(side)
    <3>1. after(side).state = "LIVE" => Current(side).state = "LIVE"
      BY <2>2, <1>n
    <3> QED
      BY <2>1, <2>3, <3>1 DEF IsAccepted
  <2>5. IsThere(side)
    BY <2>4 DEF IInv, Accounted
  <2>6. \A quantity : FilledTo(side, quantity) => FilledTo(side, quantity)'
    BY <2>3, <1>u DEF FilledTo, after
  <2> QED
    BY <2>3, <2>5, <2>6, <1>u DEF IsThere, after
<1>11. PositionWithinLimit'
  <2> DEFINE open(side) == IF after(side).state \in {"PENDING_NEW", "LIVE", "PENDING_CANCEL"}
                           THEN after(side).quantity ELSE 0
  <2>1. \A side \in Sides : side \notin new => open(side) = Outstanding(side)
    BY <1>n DEF Outstanding
  <2>2. \A side \in Sides : side \in new => open(side) = Clip
    BY <1>n
  <2>3. \A side \in Sides : Outstanding(side)' = open(side)
    BY DEF Outstanding, after
  <2> HIDE DEF open
  <2>4. "BUY" \in new => position_ + Clip <= max_position_
    BY <1>n, <1>v, <1>t DEF WithinPosition, Sign
  <2>5. "SELL" \in new => position_ - Clip >= 0 - max_position_
    <3>1. "SELL" \in new => position_ + (-1) * Clip >= 0 - max_position_
      BY <1>n, <1>v, <1>t DEF WithinPosition, Sign
    <3>2. position_ + (-1) * Clip = position_ - Clip
      BY <1>v, <1>t
    <3> QED
      BY <3>1, <3>2
  <2>6. "BUY" \in Sides /\ "SELL" \in Sides
    BY DEF Sides
  <2>7. position_ + open("BUY") <= max_position_
    BY <2>1, <2>2, <2>4, <2>6 DEF IInv, PositionWithinLimit
  <2>8. position_ - open("SELL") >= 0 - max_position_
    BY <2>1, <2>2, <2>5, <2>6 DEF IInv, PositionWithinLimit
  <2> QED
    BY <2>3, <2>6, <2>7, <2>8, <1>u DEF PositionWithinLimit
<1> QED
  BY <1>r, <1>2, <1>3, <1>4, <1>5, <1>6, <1>7, <1>8, <1>9, <1>10, <1>11 DEF IInv

-----------------------------------------------------------------------------
\* Every step keeps the invariant.
LEMMA NextInvariant == IInv /\ [Next]_vars => IInv'
<1> SUFFICES ASSUME IInv, [Next]_vars PROVE IInv'
  OBVIOUS
<1>1. ASSUME NEW bid \in Prices \cup {NoPrice}, NEW ask \in Prices \cup {NoPrice},
             NEW lossTooLarge \in BOOLEAN, MoveOrders(bid, ask, lossTooLarge)
      PROVE  IInv'
  BY <1>1, MoveOrdersInvariant
<1>2. CASE OnOrderUpdate
  BY <1>2, OnOrderUpdateInvariant
<1>3. CASE ExchangeAdd
  BY <1>3, ExchangeAddInvariant
<1>4. ASSUME NEW order \in resting, NEW executed \in 1 .. order.quantity, Fill(order, executed)
      PROVE  IInv'
  BY <1>4, FillInvariant
<1>5. CASE ExchangeCancel
  BY <1>5, ExchangeCancelInvariant
<1>6. CASE UNCHANGED vars
  BY <1>6 DEF vars, IInv, TypeOK, OrdersNumbered, NewRequests, CancelRequests, RequestsFit,
     RestingOrders, Accepts, Fills, Ends, Accounted, IsAccepted, IsThere, FilledTo,
     PositionWithinLimit, Outstanding, Active, Current
<1> QED
  BY <1>1, <1>2, <1>3, <1>4, <1>5, <1>6 DEF Next

\* The inductive invariant.
THEOREM Invariance == Spec => []IInv
<1>1. Init => IInv
  BY InitInvariant
<1>2. IInv /\ [Next]_vars => IInv'
  BY NextInvariant
<1> QED
  BY <1>1, <1>2, PTL DEF Spec

\* Every variable keeps its type: no order number beyond kMaxOrderIds is ever
\* sent, and no quantity left is negative.
THEOREM TypeCorrect == Spec => []TypeOK
<1>1. IInv => TypeOK
  BY DEF IInv
<1> QED
  BY <1>1, Invariance, PTL

\* The position keeps within max_position (risk_manager.h 53), though the
\* check that is made looks at the position alone.
THEOREM PositionWithinLimitCorrect == Spec => []PositionWithinLimit
<1>1. IInv => PositionWithinLimit
  BY DEF IInv
<1> QED
  BY <1>1, Invariance, PTL

\* At most a cancel and the order after it are on their way for a side, so a
\* strategy never waits for room in the queue of requests.
THEOREM RequestsFitCorrect == Spec => []RequestsFit
<1>1. IInv => RequestsFit
  BY DEF IInv
<1> QED
  BY <1>1, Invariance, PTL

\* The client never gives up an order that can still trade (order_manager.h
\* 40-41, 58-61).
THEOREM NothingForgottenCorrect == Spec => []NothingForgotten
<1>1. ASSUME IInv PROVE NothingForgotten
  <2>t. /\ \A side \in Sides : Current(side) \in OMOrder
        /\ \A k \in DOMAIN responses : responses[k] \in Response
    BY <1>1, Types DEF IInv
  <2>1. \A order \in resting :
          /\ Active(order.side) /\ Current(order.side).id = order.id
          /\ order.quantity <= Current(order.side).quantity
    BY <1>1 DEF IInv, RestingOrders
  <2>2. ASSUME NEW k \in DOMAIN responses, responses[k].type = "FILLED"
        PROVE  /\ Active(responses[k].side) /\ Current(responses[k].side).id = responses[k].id
               /\ responses[k].remaining < Current(responses[k].side).quantity
    <3>1. /\ responses[k].side \in Sides
          /\ Active(responses[k].side) /\ Current(responses[k].side).id = responses[k].id
          /\ 1 <= responses[k].executed
          /\ responses[k].executed + responses[k].remaining <= Current(responses[k].side).quantity
      BY <1>1, <2>2 DEF IInv, Fills
    <3>2. responses[k].executed \in Nat /\ responses[k].remaining \in Nat
      BY <2>t, TradingAssumption DEF Response
    <3>3. Current(responses[k].side).quantity \in Nat
      BY <2>t, <3>1, TradingAssumption DEF OMOrder
    <3> QED
      BY <3>1, <3>2, <3>3
  <2>3. \A i \in DOMAIN requests : requests[i].type = "NEW" =>
          /\ Current(requests[i].side).state = "PENDING_NEW"
          /\ Current(requests[i].side).id = requests[i].id
    BY <1>1 DEF IInv, NewRequests
  <2> QED
    BY <2>1, <2>2, <2>3 DEF NothingForgotten
<1> QED
  BY <1>1, Invariance, PTL

\* When no response is on its way, what the client holds for live is at the
\* exchange with just the quantity it thinks.
THEOREM LiveIsThereCorrect == Spec => []LiveIsThere
<1>1. ASSUME IInv PROVE LiveIsThere
  <2> SUFFICES ASSUME responses = << >>, NEW side \in Sides, Current(side).state = "LIVE"
               PROVE  [id |-> Current(side).id, side |-> side,
                       quantity |-> Current(side).quantity] \in resting
    BY DEF LiveIsThere
  <2>1. \A quantity : ~ FilledTo(side, quantity)
    BY DEF FilledTo
  <2>2. IsThere(side)
    BY <1>1 DEF IInv, Accounted, IsAccepted
  <2>3. PICK order \in resting :
          order.id = Current(side).id /\ order.quantity = Current(side).quantity
    BY <2>1, <2>2 DEF IsThere
  <2>4. order \in Resting /\ Current(order.side).id = order.id
    BY <1>1 DEF IInv, TypeOK, RestingOrders
  <2>5. order.side \in Sides /\ order.id # 0
    BY <2>4, TradingAssumption DEF Resting, Ids
  <2>6. order.side = side
    BY <1>1, <2>3, <2>4, <2>5 DEF IInv, OrdersNumbered, Sides
  <2>7. order = [id |-> Current(side).id, side |-> side, quantity |-> Current(side).quantity]
    BY <2>3, <2>4, <2>6 DEF Resting
  <2> QED
    BY <2>3, <2>7
<1> QED
  BY <1>1, Invariance, PTL
=============================================================================
