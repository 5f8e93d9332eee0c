-------------------------- MODULE ExchangePipeline --------------------------
(***************************************************************************)
(* The exchange's threads and the bounded queues between them: who waits   *)
(* for whom.  The order manager (order_manager.h run) publishes a round of *)
(* requests and then empties the queue of answers; the matching engine     *)
(* (matching_engine.cc run) keeps a request's slot while it answers it;    *)
(* the publisher (market_data_publisher.cc run) takes the market updates.  *)
(* A queue is the number of items in it, LFQueue says what happens to      *)
(* them.  GetNextToWriteTo waits for room without looking at anything      *)
(* else.                                                                   *)
(***************************************************************************)
EXTENDS Integers

CONSTANTS RoundSize,  \* kMaxPendingRequests: requests of one round
          RequestCapacity, ResponseCapacity, UpdateCapacity,
          MaxAnswers            \* answers, and updates, to one request

ASSUME PipelineAssumption ==
  /\ RoundSize \in Nat \ {0} /\ MaxAnswers \in Nat \ {0}
  /\ RequestCapacity \in Nat \ {0} /\ ResponseCapacity \in Nat \ {0}
  /\ UpdateCapacity \in Nat \ {0}

VARIABLES
  requests, responses, updates,  \* how many items each queue holds
  phase,                         \* of the order manager's round
  pendingSize,                   \* requests still to be published
  matching,                      \* does the engine work on a request
  answersLeft, updatesLeft       \* what it still sends for that request

vars == <<requests, responses, updates, phase, pendingSize, matching,
          answersLeft, updatesLeft>>
managerVars == <<phase, pendingSize>>
engineVars == <<matching, answersLeft, updatesLeft>>

Init == /\ requests = 0 /\ responses = 0 /\ updates = 0
        /\ phase = "receive" /\ pendingSize = 0
        /\ matching = FALSE /\ answersLeft = 0 /\ updatesLeft = 0

-----------------------------------------------------------------------------
\* The order manager's thread.

\* TCPServer::sendAndRecv: a round reads some requests; more than there is
\* room for would be FATAL.
Receive ==
  /\ phase = "receive"
  /\ pendingSize' \in 0 .. RoundSize
  /\ phase' = "publish"
  /\ UNCHANGED <<requests, responses, updates, engineVars>>

\* FIFOSequencer::sequenceAndPublish
Publish ==
  /\ phase = "publish" /\ pendingSize > 0
  /\ requests < RequestCapacity
  /\ requests' = requests + 1
  /\ pendingSize' = pendingSize - 1
  /\ UNCHANGED <<responses, updates, phase, engineVars>>
Published ==
  /\ phase = "publish" /\ pendingSize = 0
  /\ phase' = "forward"
  /\ UNCHANGED <<requests, responses, updates, pendingSize, engineVars>>

\* Mutant: a round forwards one answer at most.
ForwardOne ==
  /\ phase = "forward" /\ responses > 0
  /\ responses' = responses - 1
  /\ phase' = "receive"
  /\ UNCHANGED <<requests, updates, pendingSize, engineVars>>

\* Mutant: the answer that was forwarded is not released.
ForwardUnreleased ==
  /\ phase = "forward" /\ responses > 0
  /\ UNCHANGED vars

\* OrderManager::run: answers are forwarded until there are none.
Forward ==
  /\ phase = "forward" /\ responses > 0
  /\ responses' = responses - 1
  /\ UNCHANGED <<requests, updates, managerVars, engineVars>>
Forwarded ==
  /\ phase = "forward" /\ responses = 0
  /\ phase' = "receive"
  /\ UNCHANGED <<requests, responses, updates, pendingSize, engineVars>>

-----------------------------------------------------------------------------
\* The matching engine's thread: MatchingEngine::run and BookCore.
Take ==
  /\ ~ matching /\ requests > 0
  /\ matching' = TRUE
  /\ answersLeft' \in 1 .. MaxAnswers
  /\ updatesLeft' \in 0 .. MaxAnswers
  /\ UNCHANGED <<requests, responses, updates, managerVars>>

\* BookCore::SendClientResponse and SendMarketUpdate
Answer ==
  /\ answersLeft > 0 /\ responses < ResponseCapacity
  /\ responses' = responses + 1
  /\ answersLeft' = answersLeft - 1
  /\ UNCHANGED <<requests, updates, managerVars, matching, updatesLeft>>
Update ==
  /\ updatesLeft > 0 /\ updates < UpdateCapacity
  /\ updates' = updates + 1
  /\ updatesLeft' = updatesLeft - 1
  /\ UNCHANGED <<requests, responses, managerVars, matching, answersLeft>>

\* UpdateReadIndex comes after the request has been answered.
Release ==
  /\ matching /\ answersLeft = 0 /\ updatesLeft = 0
  /\ matching' = FALSE
  /\ requests' = requests - 1
  /\ UNCHANGED <<responses, updates, managerVars, answersLeft, updatesLeft>>

\* MarketDataPublisher::run
PublishUpdate ==
  /\ updates > 0
  /\ updates' = updates - 1
  /\ UNCHANGED <<requests, responses, managerVars, engineVars>>

-----------------------------------------------------------------------------
Manager == Receive \/ Publish \/ Published \/ Forward \/ Forwarded
Engine == Take \/ Answer \/ Update \/ Release
Next == Manager \/ Engine \/ PublishUpdate

Spec == Init /\ [][Next]_vars

\* Every thread has a core of its own.  The engine may send what is left in
\* any order here, so each kind of message is fair.
FairSpec == /\ Spec
            /\ WF_vars(Manager) /\ WF_vars(PublishUpdate)
            /\ WF_vars(Take) /\ WF_vars(Answer) /\ WF_vars(Update) /\ WF_vars(Release)

-----------------------------------------------------------------------------
TypeOK == /\ requests \in 0 .. RequestCapacity
          /\ responses \in 0 .. ResponseCapacity
          /\ updates \in 0 .. UpdateCapacity
          /\ phase \in {"receive", "publish", "forward"}
          /\ pendingSize \in 0 .. RoundSize
          /\ matching \in BOOLEAN
          /\ answersLeft \in 0 .. MaxAnswers
          /\ updatesLeft \in 0 .. MaxAnswers

ManagerWaits == phase = "publish" /\ pendingSize > 0 /\ requests = RequestCapacity
EngineWaits == answersLeft > 0 /\ responses = ResponseCapacity

\* The order manager waits for room in the queue of requests (FIFOSequencer.h
\* 61) and the engine for room in the queue of answers (book_core.cc 252),
\* which only the other can make: never both, if the answers to one round
\* fit their queue, however many requests are behind.
NeverBothWaiting ==
  RoundSize * MaxAnswers <= ResponseCapacity =>
    ~ (ManagerWaits /\ EngineWaits)

\* The order manager gets back to its sockets.
RoundEnds == phase = "publish" ~> phase = "receive"
=============================================================================
