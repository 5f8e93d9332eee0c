----------------------------- MODULE OrderEntry -----------------------------
(***************************************************************************)
(* Orders on their way to the matching engine and its answers on their way *)
(* back:                                                                   *)
(*   - a client's gateway (order_gateway.h and .cpp) numbers its requests; *)
(*   - TCP sockets (tcp_socket.h and .cc) turn messages into bytes and     *)
(*     back, with buffers on both sides;                                   *)
(*   - the exchange's order manager (order_manager.h and .cc) accepts      *)
(*     connections (tcp_server.h and .cc), checks the numbers and the      *)
(*     socket of each client and numbers the answers;                      *)
(*   - its sequencer (FIFOSequencer.h) orders the requests of one round.   *)
(* A message is a pair of halves on the wire, so that it can arrive in     *)
(* two reads.  A client may end and come back with a new connection.       *)
(***************************************************************************)
EXTENDS Integers, FiniteSets, SequencesExt

CONSTANTS Clients,             \* client ids
          Times,               \* receive times, as the kernel stamps a read
          None,                \* nullptr
          kMaxPendingRequests,
          StableLimit,         \* the sort keeps the order of equals up to here
          SocketBuffer,        \* what the kernel holds of a connection's bytes
          MaxConnections,      \* bound of the model: connections in all
          MaxRequests,         \* bound of the model: requests of a connection
          MaxResponses         \* bound of the model: answers to a client

ASSUME OrderEntryAssumption ==
  /\ Times \subseteq Nat /\ kMaxPendingRequests \in Nat /\ StableLimit \in Nat
  /\ SocketBuffer \in Nat
  /\ MaxConnections \in Nat /\ MaxRequests \in Nat /\ MaxResponses \in Nat

\* A connection: its client and how many this client had before.
Sockets == Clients \X (1 .. MaxConnections)
ASSUME NoneAssumption == None \notin Sockets

VARIABLES
  \* the client's process
  connection,            \* the number of the connection, of the last one if down
  up,                    \* does the process run
  next_outgoing_seq_num_, next_exp_seq_num_,
  outbound, inbound,     \* the buffers of its socket
  passedOn,              \* history: the answers given to the trade engine
  \* the network
  toExchange, toClient,
  backlog,               \* connections not accepted yet
  \* the exchange's order manager
  recv_sockets_,
  visiting,              \* where its thread is: the socket it looks at next
  received,              \* has this round read anything
  inbound_data_, outbound_data_,
  cidTcpSocketMap, cidNextExpSeqNum, cidNextOutgoingSeqNum,
  pendingClientRequests,
  running,               \* FATAL ends the exchange
  \* the matching engine's side of the two queues
  published,             \* history: the requests written for it
  outgoingResponses,             \* its answers, oldest first
  answers                \* how many answers each client got so far

clientVars == <<connection, up, next_outgoing_seq_num_, next_exp_seq_num_,
                outbound, inbound, passedOn>>
wire == <<toExchange, toClient, backlog>>
orderManagerVars == <<recv_sockets_, inbound_data_, outbound_data_, cidTcpSocketMap,
                 cidNextExpSeqNum, cidNextOutgoingSeqNum, pendingClientRequests,
                 running>>
matchingVars == <<published, outgoingResponses, answers>>
entryVars == <<clientVars, wire, orderManagerVars, visiting, received, matchingVars>>

EntryInit ==
  /\ connection = [c \in Clients |-> 0]
  /\ up = [c \in Clients |-> FALSE]
  /\ next_outgoing_seq_num_ = [c \in Clients |-> 1]
  /\ next_exp_seq_num_ = [c \in Clients |-> 1]
  /\ outbound = [c \in Clients |-> << >>]
  /\ inbound = [c \in Clients |-> << >>]
  /\ passedOn = [c \in Clients |-> << >>]
  /\ toExchange = [s \in Sockets |-> << >>]
  /\ toClient = [s \in Sockets |-> << >>]
  /\ backlog = << >>
  /\ recv_sockets_ = << >> /\ visiting = 0 /\ received = FALSE
  /\ inbound_data_ = [s \in Sockets |-> << >>]
  /\ outbound_data_ = [s \in Sockets |-> << >>]
  /\ cidTcpSocketMap = [c \in Clients |-> None]
  /\ cidNextExpSeqNum = [c \in Clients |-> 1]
  /\ cidNextOutgoingSeqNum = [c \in Clients |-> 1]
  /\ pendingClientRequests = << >>
  /\ running = TRUE
  /\ published = << >> /\ outgoingResponses = << >>
  /\ answers = [c \in Clients |-> 0]

-----------------------------------------------------------------------------
\* Messages and bytes.
Halves(message) == <<message, message>>
Messages(bytes) == [i \in 1 .. Len(bytes) \div 2 |-> bytes[2 * i - 1]]
\* Mutant: a request that is not complete is forgotten.
RemainderDropped(bytes) == << >>

Remainder(bytes) == SubSeq(bytes, 2 * (Len(bytes) \div 2) + 1, Len(bytes))
First(bytes, n) == SubSeq(bytes, 1, n)
Rest(bytes, n) == SubSeq(bytes, n + 1, Len(bytes))

\* ::send takes what there is room for, a part of the buffer or nothing of it;
\* next_send_valid_index_ = 0 forgets the rest.
Sent(wireBytes, buffer) ==
  wireBytes \o First(buffer, Min({Len(buffer), SocketBuffer - Len(wireBytes)}))

Socket(c) == <<c, connection[c]>>
Open(s) == up[s[1]] /\ connection[s[1]] = s[2]

-----------------------------------------------------------------------------
\* The client's process.

\* OrderGateway::start
Connect(c) ==
  /\ ~ up[c]
  /\ Len(recv_sockets_) + Len(backlog) < MaxConnections
  /\ up' = [up EXCEPT ![c] = TRUE]
  /\ connection' = [connection EXCEPT ![c] = @ + 1]
  /\ next_outgoing_seq_num_' = [next_outgoing_seq_num_ EXCEPT ![c] = 1]
  /\ next_exp_seq_num_' = [next_exp_seq_num_ EXCEPT ![c] = 1]
  /\ outbound' = [outbound EXCEPT ![c] = << >>]
  /\ inbound' = [inbound EXCEPT ![c] = << >>]
  /\ passedOn' = [passedOn EXCEPT ![c] = << >>]
  /\ backlog' = Append(backlog, <<c, connection'[c]>>)
  /\ UNCHANGED <<toExchange, toClient, orderManagerVars, visiting, received, matchingVars>>

\* The process ends; what it handed to the kernel may still arrive, or be
\* thrown away when the exchange writes to the closed connection.
End(c) ==
  /\ up[c]
  /\ up' = [up EXCEPT ![c] = FALSE]
  /\ UNCHANGED <<connection, next_outgoing_seq_num_, next_exp_seq_num_, outbound,
                 inbound, passedOn, wire, orderManagerVars, visiting, received, matchingVars>>

\* OrderGateway::run, a request of the trade engine.
GatewaySend(c) ==
  /\ up[c] /\ next_outgoing_seq_num_[c] <= MaxRequests
  /\ outbound' = [outbound EXCEPT ![c] = @ \o Halves(next_outgoing_seq_num_[c])]
  /\ next_outgoing_seq_num_' = [next_outgoing_seq_num_ EXCEPT ![c] = @ + 1]
  /\ UNCHANGED <<connection, up, next_exp_seq_num_, inbound, passedOn, wire,
                 orderManagerVars, visiting, received, matchingVars>>

\* OrderGateway::recvCallback: an answer to this client that has the number
\* expected is passed on, any other is dropped.
Passed(c, gateway, message) ==
  IF message.client # c \/ message.seq # gateway.expected THEN gateway
  ELSE [expected |-> gateway.expected + 1,
        passedOn |-> Append(gateway.passedOn, message.answer)]
AfterAnswers(c, gateway, messages) ==
  LET after[k \in 0 .. Len(messages)] ==
        IF k = 0 THEN gateway ELSE Passed(c, after[k - 1], messages[k])
  IN after[Len(messages)]

\* TCPSocket::sendAndRecv on the client's side: n bytes have arrived.
GatewaySendAndRecv(c, n) ==
  LET bytes == inbound[c] \o First(toClient[Socket(c)], n)
      gateway == AfterAnswers(c, [expected |-> next_exp_seq_num_[c], passedOn |-> passedOn[c]],
                              Messages(bytes))
  IN /\ up[c]
     /\ toClient' = [toClient EXCEPT ![Socket(c)] = Rest(@, n)]
     /\ inbound' = [inbound EXCEPT ![c] = Remainder(bytes)]
     /\ next_exp_seq_num_' = [next_exp_seq_num_ EXCEPT ![c] = gateway.expected]
     /\ passedOn' = [passedOn EXCEPT ![c] = gateway.passedOn]
     /\ toExchange' = [toExchange EXCEPT ![Socket(c)] = Sent(@, outbound[c])]
     /\ outbound' = [outbound EXCEPT ![c] = << >>]
     /\ UNCHANGED <<connection, up, next_outgoing_seq_num_, backlog, orderManagerVars,
                    visiting, received, matchingVars>>

-----------------------------------------------------------------------------
\* The order manager's thread: OrderManager::run.

\* TCPServer::poll
Poll ==
  /\ running /\ visiting = 0
  /\ recv_sockets_' = recv_sockets_ \o backlog
  /\ backlog' = << >>
  /\ visiting' = 1
  /\ received' = FALSE
  /\ UNCHANGED <<clientVars, toExchange, toClient, inbound_data_, outbound_data_,
                 cidTcpSocketMap, cidNextExpSeqNum, cidNextOutgoingSeqNum,
                 pendingClientRequests, running, matchingVars>>

\* OrderManager::recvCallback, one request with its number: what it makes of
\* the client's socket, the number expected and the requests pending.
Bound(bound, s) == IF bound = None THEN s ELSE bound
\* Mutant: any socket may send for a client.
TakenFromAny(state, s, number) == number = state.expected

Taken(state, s, number) ==
  Bound(state.socket, s) = s /\ number = state.expected
Received(s, time, state, number) ==
  [socket |-> Bound(state.socket, s),
   expected |-> IF Taken(state, s, number) THEN state.expected + 1 ELSE state.expected,
   pending |-> IF Taken(state, s, number)
               THEN Append(state.pending, [time |-> time, socket |-> s, number |-> number])
               ELSE state.pending]
AfterRequests(s, time, state, numbers) ==
  LET after[k \in 0 .. Len(numbers)] ==
        IF k = 0 THEN state ELSE Received(s, time, after[k - 1], numbers[k])
  IN after[Len(numbers)]

\* TCPSocket::sendAndRecv on the exchange's side: n bytes are read, stamped
\* with one time; what is buffered for the client goes out.
SendAndRecv(s, n, time) ==
  LET c == s[1]
      bytes == inbound_data_[s] \o First(toExchange[s], n)
      state == AfterRequests(s, time,
                             [socket |-> cidTcpSocketMap[c], expected |-> cidNextExpSeqNum[c],
                              pending |-> pendingClientRequests],
                             Messages(bytes))
  IN /\ toExchange' = [toExchange EXCEPT ![s] = Rest(@, n)]
     /\ inbound_data_' = [inbound_data_ EXCEPT ![s] = Remainder(bytes)]
     /\ cidTcpSocketMap' = [cidTcpSocketMap EXCEPT ![c] = state.socket]
     /\ cidNextExpSeqNum' = [cidNextExpSeqNum EXCEPT ![c] = state.expected]
     /\ pendingClientRequests' = state.pending
     /\ running' = (Len(state.pending) <= kMaxPendingRequests)
     /\ received' = (received \/ n > 0)
     /\ toClient' = [toClient EXCEPT ![s] = IF Open(s) THEN Sent(@, outbound_data_[s]) ELSE @]
     /\ outbound_data_' = [outbound_data_ EXCEPT ![s] = << >>]

\* TCPServer::sendAndRecv, one socket after the other.
Visit(n, time) ==
  /\ running /\ visiting \in DOMAIN recv_sockets_
  /\ n <= Len(toExchange[recv_sockets_[visiting]])
  /\ SendAndRecv(recv_sockets_[visiting], n, time)
  /\ visiting' = visiting + 1
  /\ UNCHANGED <<clientVars, backlog, recv_sockets_, cidNextOutgoingSeqNum, matchingVars>>

\* std::ranges::sort by time: no order is promised among equals, although
\* short ranges are sorted by insertion, which keeps it.
Sorted(batch) ==
  {[i \in DOMAIN batch |-> batch[p[i]]] :
     p \in {q \in [DOMAIN batch -> DOMAIN batch] :
              /\ \A i, j \in DOMAIN batch : i # j => q[i] # q[j]
              /\ \A i, j \in DOMAIN batch : i < j =>
                   /\ batch[q[i]].time <= batch[q[j]].time
                   /\ Len(batch) <= StableLimit /\ batch[q[i]].time = batch[q[j]].time
                        => q[i] < q[j]}}

\* FIFOSequencer::sequenceAndPublish, when the round has read anything.
SequenceAndPublish ==
  /\ running /\ visiting = Len(recv_sockets_) + 1
  /\ \E batch \in Sorted(pendingClientRequests) :
       published' = IF received
                    THEN published \o [i \in DOMAIN batch |->
                           [socket |-> batch[i].socket, number |-> batch[i].number]]
                    ELSE published
  /\ pendingClientRequests' = IF received THEN << >> ELSE pendingClientRequests
  /\ visiting' = visiting + 1
  /\ UNCHANGED <<clientVars, wire, recv_sockets_, received, inbound_data_,
                 outbound_data_, cidTcpSocketMap, cidNextExpSeqNum,
                 cidNextOutgoingSeqNum, running, outgoingResponses, answers>>

\* The answers in the queue are numbered and buffered, one after the other.
ForwardResponse ==
  /\ running /\ visiting = Len(recv_sockets_) + 2
  /\ outgoingResponses # << >>
  /\ LET response == Head(outgoingResponses)
         s == cidTcpSocketMap[response.client]
         message == [client |-> response.client,
                     seq |-> cidNextOutgoingSeqNum[response.client],
                     answer |-> response.answer]
     IN /\ s # None
        /\ outbound_data_' = [outbound_data_ EXCEPT ![s] = @ \o Halves(message)]
        /\ cidNextOutgoingSeqNum' = [cidNextOutgoingSeqNum EXCEPT ![response.client] = @ + 1]
  /\ outgoingResponses' = Tail(outgoingResponses)
  /\ UNCHANGED <<clientVars, wire, recv_sockets_, visiting, received, inbound_data_,
                 cidTcpSocketMap, cidNextExpSeqNum, pendingClientRequests, running,
                 published, answers>>
NextRound ==
  /\ running /\ visiting = Len(recv_sockets_) + 2
  /\ outgoingResponses = << >>
  /\ visiting' = 0
  /\ UNCHANGED <<clientVars, wire, orderManagerVars, received, matchingVars>>

\* The matching engine answers a client it has a request of (BookCore), and
\* may do so again when its orders are filled.
AnswerClient(c) ==
  /\ \E i \in DOMAIN published : published[i].socket[1] = c
  /\ answers[c] < MaxResponses
  /\ answers' = [answers EXCEPT ![c] = @ + 1]
  /\ outgoingResponses' = Append(outgoingResponses, [client |-> c, answer |-> answers'[c]])
  /\ UNCHANGED <<clientVars, wire, orderManagerVars, visiting, received, published>>

\* TCP resets a connection whose client is gone.
Reset(s) ==
  /\ ~ Open(s) /\ toExchange[s] # << >>
  /\ toExchange' = [toExchange EXCEPT ![s] = << >>]
  /\ UNCHANGED <<clientVars, toClient, backlog, orderManagerVars, visiting, received,
                 matchingVars>>

-----------------------------------------------------------------------------
GatewayStep(c) == \E n \in 0 .. Len(toClient[Socket(c)]) : GatewaySendAndRecv(c, n)

EntryNext ==
  \/ \E c \in Clients : \/ Connect(c) \/ End(c) \/ GatewaySend(c)
                        \/ up[c] /\ GatewayStep(c)
                        \/ AnswerClient(c)
  \/ \E s \in Sockets : Reset(s)
  \/ Poll
  \/ \E n \in 0 .. 2 * MaxRequests, time \in Times : Visit(n, time)
  \/ SequenceAndPublish \/ ForwardResponse \/ NextRound

EntrySpec == EntryInit /\ [][EntryNext]_entryVars

-----------------------------------------------------------------------------
\* The number of a request is checked to be the next one of its client
\* (order_manager.h 131: so that requests arrive in order): what goes on to
\* the matching engine are the first requests of one connection, each once,
\* in the order they were sent, whatever later connections send.  The sort of
\* a long round breaks this.
RequestsInOrder ==
  \A i \in DOMAIN published :
    LET c == published[i].socket[1]
    IN /\ published[i].socket = cidTcpSocketMap[c]
       /\ published[i].number = Cardinality({j \in 1 .. i : published[j].socket[1] = c})

\* What a round gives the matching engine (FIFOSequencer.h 41-65) are the next
\* requests of each client, all of one connection, none left out and none
\* twice, however the sort leaves them; and in the order they were sent when
\* the round is so short that the sort keeps the order of equals.
RequestsOf(c, requests) == {i \in DOMAIN requests : requests[i].socket[1] = c}
RoundsInOrder ==
  [][\A c \in Clients :
       LET before == Cardinality(RequestsOf(c, published))
           after == Cardinality(RequestsOf(c, published'))
           round == RequestsOf(c, published') \ DOMAIN published
       IN /\ {published'[i].number : i \in round} = (before + 1) .. after
          /\ \A i \in round : published'[i].socket = cidTcpSocketMap[c]
          /\ Len(pendingClientRequests) <= StableLimit =>
               \A i, j \in round : i < j => published'[i].number < published'[j].number
    ]_entryVars

\* The answers a client's trade engine is given are the first ones, each once
\* and in order (order_gateway.cpp 63-70), on the connection bound to the
\* client only; and there is a socket for every answer (the ASSERT of
\* order_manager.h 56).
AnswersInOrder ==
  /\ \A c \in Clients :
       /\ passedOn[c] = [n \in 1 .. Len(passedOn[c]) |-> n]
       /\ cidTcpSocketMap[c] # None /\ cidTcpSocketMap[c] # Socket(c) => passedOn[c] = << >>
  /\ \A i \in DOMAIN outgoingResponses : cidTcpSocketMap[outgoingResponses[i].client] # None

\* No message of an open connection the exchange listens to is lost, repeated
\* or cut between the buffers: every one is taken, in order, or its bytes are
\* somewhere on the way (order_gateway.cpp 63: TCP is reliable).  A ::send
\* that takes a part of its buffer breaks this.
BytesToExchange(c) ==
  Len(outbound[c]) + Len(toExchange[Socket(c)]) + Len(inbound_data_[Socket(c)])
BytesToClient(c) ==
  Len(outbound_data_[Socket(c)]) + Len(toClient[Socket(c)]) + Len(inbound[c])
AnswersWaiting(c) ==
  Cardinality({i \in DOMAIN outgoingResponses : outgoingResponses[i].client = c})
AllOnTheWay(c) ==
  /\ 2 * (next_outgoing_seq_num_[c] - cidNextExpSeqNum[c]) = BytesToExchange(c)
  /\ 2 * (answers[c] - Len(passedOn[c])) = BytesToClient(c) + 2 * AnswersWaiting(c)
Linked(c) == up[c] /\ cidTcpSocketMap[c] = Socket(c)
NothingLost ==
  /\ AnswersInOrder
  /\ \A c \in Clients : Linked(c) => AllOnTheWay(c)
=============================================================================
