------------------------- MODULE OrderManagerProofs -------------------------
(***************************************************************************)
(* The exchange's order manager, as two modules see it.                    *)
(*                                                                         *)
(* It and the matching engine never wait for each other                    *)
(* (ExchangePipeline), for every capacity of the queues, if the answers to *)
(* one round of requests fit the queue of answers.  When the order manager *)
(* leaves its last loop the queue of answers is empty.  Until it is back   *)
(* there, an answer in the queue is to a request that was in the queue     *)
(* then, or has been published since, and is the engine's or has left.  If *)
(* the queue of requests is full, no more requests have left than were     *)
(* published in this round.                                                *)
(*                                                                         *)
(* The requests of a client reach the matching engine (OrderEntry) once,   *)
(* none is left out and all are of one connection, whatever arrives on     *)
(* whichever connection and whatever the sort does to a round.  The first  *)
(* of a client's requests have gone on, the next are pending (Numbered).   *)
(* They go on in order too as long as no round has more than the sort      *)
(* leaves in order: what is pending of a socket was read at once, since a  *)
(* round visits a socket once, so that it has one time (InRound), and such *)
(* a sort does not part it.                                                *)
(*                                                                         *)
(* No byte is lost on a connection on which no ::send was cut short.  The  *)
(* buffers of such a connection, taken together, hold in order the two     *)
(* halves of each message that has been numbered and not yet been taken    *)
(* (Streams), so that a read gets the next ones, wherever it cuts them.    *)
(* That a client which comes back is served on its first connection only   *)
(* (Unused, Gateways) and that the queue of answers holds the next ones of *)
(* each client (Queued) keeps it so; these hold whatever is cut.           *)
(***************************************************************************)
EXTENDS ExchangePipeline, MCOrderEntry, FiniteSetTheorems, SequenceTheorems,
        WellFoundedInduction, TLAPS

-----------------------------------------------------------------------------
\* Who waits for whom.

\* How many requests may have left the queue since the answers were empty.
Room == RequestCapacity - requests +
        (IF phase = "publish" THEN RoundSize - pendingSize ELSE 0)

\* The answers to n requests.
AnswersTo(n) == MaxAnswers * n

\* What is in the queue of answers comes from the requests that left and the
\* one the engine works on.
AnswersBounded ==
  phase # "forward" =>
    responses + answersLeft <= AnswersTo(Room) + (IF matching THEN MaxAnswers ELSE 0)

IInv == /\ TypeOK
        /\ ~ matching => answersLeft = 0
        /\ matching => requests > 0
        /\ AnswersBounded

-----------------------------------------------------------------------------
\* Products that the solver is not left to find: one request more is its
\* answers more, and more requests are no fewer answers.
LEMMA AnswersToNext ==
  /\ \A n \in Nat : AnswersTo(n) \in Nat /\ AnswersTo(n + 1) = AnswersTo(n) + MaxAnswers
  /\ \A n \in Nat : \A m \in Nat : n <= m => AnswersTo(n) <= AnswersTo(m)
<1>1. ASSUME NEW n \in Nat
      PROVE  AnswersTo(n) \in Nat /\ AnswersTo(n + 1) = AnswersTo(n) + MaxAnswers
  BY PipelineAssumption DEF AnswersTo
<1>2. ASSUME NEW n \in Nat, NEW m \in Nat, n <= m PROVE AnswersTo(n) <= AnswersTo(m)
  <2>1. MaxAnswers * (m - n) >= 0
    BY <1>2, PipelineAssumption, m - n \in Nat
  <2>2. MaxAnswers * (m - n) = (MaxAnswers * m) - (MaxAnswers * n)
    BY PipelineAssumption
  <2> QED
    BY <2>1, <2>2, PipelineAssumption DEF AnswersTo
<1> QED
  BY <1>1, <1>2

\* What is left of a bound.
LEMMA Difference ==
  ASSUME NEW k \in Nat, NEW n \in 0 .. k PROVE k - n \in Nat
  OBVIOUS

\* The order manager has never more than a full queue behind it.
LEMMA RoomType == TypeOK => Room \in Nat
  BY PipelineAssumption DEF TypeOK, Room

-----------------------------------------------------------------------------
\* The inductive invariant holds at the start.
LEMMA InitInvariant == Init => IInv
<1> SUFFICES ASSUME Init PROVE IInv
  OBVIOUS
<1>m. matching \in BOOLEAN /\ ~ matching
  BY Zenon DEF Init
<1>1. TypeOK
  BY <1>m, PipelineAssumption DEF Init, TypeOK
<1>2. Room = RequestCapacity
  BY PipelineAssumption DEF Init, Room
<1>3. AnswersTo(Room) \in Nat
  BY <1>2, PipelineAssumption, AnswersToNext DEF TypeOK
<1>4. responses = 0 /\ answersLeft = 0
  BY DEF Init
<1>5. AnswersBounded
  BY <1>3, <1>4, <1>m DEF AnswersBounded
<1> QED
  BY <1>m, <1>1, <1>4, <1>5, Zenon DEF IInv

\* Every step keeps the bound: one case for each action.
LEMMA NextInvariant == IInv /\ [Next]_vars => IInv'
<1> SUFFICES ASSUME IInv, [Next]_vars PROVE IInv'
  OBVIOUS
<1> USE PipelineAssumption
<1>t. TypeOK /\ Room \in Nat /\ AnswersTo(Room) \in Nat
  BY RoomType, AnswersToNext DEF IInv
<1>1. CASE Receive
  <2>1. TypeOK'
    BY <1>1, <1>t DEF Receive, TypeOK, engineVars
  <2>2. /\ Room = RequestCapacity - requests
        /\ Room' = RequestCapacity - requests + (RoundSize - pendingSize')
    BY <1>1, <1>t DEF Receive, TypeOK, Room, engineVars
  <2>3. RequestCapacity - requests \in Nat /\ RoundSize - pendingSize' \in Nat
    <3>1. requests \in 0 .. RequestCapacity /\ pendingSize' \in 0 .. RoundSize
      BY <1>t, <2>1 DEF TypeOK
    <3> QED
      BY <3>1, Difference
  <2>4. Room' \in Nat /\ Room <= Room'
    BY <2>2, <2>3, <1>t
  <2>5. AnswersTo(Room) <= AnswersTo(Room') /\ AnswersTo(Room') \in Nat
    BY <1>t, <2>4, AnswersToNext
  <2>6. AnswersBounded'
    BY <1>1, <1>t, <2>1, <2>5 DEF Receive, IInv, AnswersBounded, TypeOK, engineVars
  <2> QED
    BY <1>1, <2>1, <2>6 DEF Receive, IInv, engineVars
<1>2. CASE Publish
  <2>1. TypeOK'
    BY <1>2, <1>t DEF Publish, TypeOK, engineVars
  <2>2. Room' = Room
    BY <1>2, <1>t DEF Publish, TypeOK, Room, engineVars
  <2>3. AnswersBounded'
    BY <1>2, <2>2 DEF Publish, IInv, AnswersBounded, engineVars
  <2> QED
    BY <1>2, <2>1, <2>3, <1>t DEF Publish, IInv, engineVars, TypeOK
<1>3. CASE Published
  BY <1>3 DEF Published, IInv, TypeOK, AnswersBounded, engineVars
<1>4. CASE Forward
  BY <1>4 DEF Forward, IInv, TypeOK, AnswersBounded, managerVars, engineVars
<1>5. CASE Forwarded
  <2>1. TypeOK'
    BY <1>5, <1>t DEF Forwarded, TypeOK, engineVars
  <2>2. Room' \in Nat
    BY <1>5, <1>t DEF Forwarded, TypeOK, Room, engineVars
  <2>3. AnswersTo(Room') \in Nat
    BY <2>2, AnswersToNext
  <2>4. AnswersBounded'
    BY <1>5, <1>t, <2>3 DEF Forwarded, IInv, AnswersBounded, TypeOK, engineVars
  <2> QED
    BY <1>5, <2>1, <2>4 DEF Forwarded, IInv, engineVars
<1>6. CASE Take
  <2>m. matching' /\ ~ matching /\ matching' \in BOOLEAN
    BY <1>6, Zenon DEF Take
  <2>1. TypeOK'
    BY <1>6, <1>t, <2>m DEF Take, TypeOK, managerVars
  <2>2. AnswersTo(Room') = AnswersTo(Room)
    BY <1>6 DEF Take, Room, managerVars
  <2>3. AnswersBounded'
    BY <1>6, <1>t, <2>m, <2>2 DEF Take, IInv, AnswersBounded, TypeOK, managerVars
  <2> QED
    BY <1>6, <2>m, <2>1, <2>3 DEF Take, IInv, managerVars
<1>7. CASE Answer
  <2>1. TypeOK'
    BY <1>7, <1>t DEF Answer, TypeOK, managerVars
  <2>2. Room' = Room
    BY <1>7 DEF Answer, Room, managerVars
  <2>3. responses' + answersLeft' = responses + answersLeft
    BY <1>7, <1>t DEF Answer, TypeOK
  <2>4. AnswersBounded'
    BY <1>7, <2>2, <2>3 DEF Answer, IInv, AnswersBounded, managerVars
  <2> QED
    BY <1>7, <2>1, <2>4, <1>t DEF Answer, IInv, TypeOK, managerVars
<1>8. CASE Update
  <2>1. TypeOK'
    BY <1>8, <1>t DEF Update, TypeOK, managerVars
  <2>2. AnswersBounded'
    BY <1>8 DEF Update, IInv, AnswersBounded, Room, managerVars
  <2> QED
    BY <1>8, <2>1, <2>2 DEF Update, IInv, managerVars
<1>9. CASE Release
  <2>m. ~ matching' /\ matching /\ matching' \in BOOLEAN
    BY <1>9, Zenon DEF Release
  <2>1. TypeOK'
    BY <1>9, <1>t, <2>m DEF Release, TypeOK, managerVars, IInv
  <2>2. Room' = Room + 1
    BY <1>9, <1>t DEF Release, TypeOK, Room, managerVars
  <2>3. AnswersTo(Room') = AnswersTo(Room) + MaxAnswers
    BY <1>t, <2>2, AnswersToNext
  <2>4. AnswersBounded'
    BY <1>9, <1>t, <2>m, <2>3 DEF Release, IInv, AnswersBounded, TypeOK, managerVars
  <2> QED
    BY <1>9, <2>m, <2>1, <2>4 DEF Release, IInv, managerVars
<1>10. CASE PublishUpdate
  BY <1>10, <1>t DEF PublishUpdate, IInv, TypeOK, AnswersBounded, Room, managerVars, engineVars
<1>11. CASE UNCHANGED vars
  BY <1>11 DEF vars, IInv, TypeOK, AnswersBounded, Room
<1> QED
  BY <1>1, <1>2, <1>3, <1>4, <1>5, <1>6, <1>7, <1>8, <1>9, <1>10, <1>11
     DEF Next, Manager, Engine

\* The bound says who can wait: with the queue of requests full, fewer
\* requests have left than a round can have.
LEMMA InvariantImplies == IInv => NeverBothWaiting
<1> SUFFICES ASSUME IInv, RoundSize * MaxAnswers <= ResponseCapacity,
                    ManagerWaits, EngineWaits
             PROVE  FALSE
  BY DEF NeverBothWaiting
<1> USE PipelineAssumption
<1>1. TypeOK /\ matching /\ Room \in Nat
  BY RoomType DEF IInv, EngineWaits
<1>2. Room + 1 <= RoundSize
  BY <1>1 DEF ManagerWaits, Room, TypeOK
<1>3. AnswersTo(Room + 1) <= AnswersTo(RoundSize)
  BY <1>1, <1>2, AnswersToNext
<1>4. AnswersTo(RoundSize) = RoundSize * MaxAnswers
  BY DEF AnswersTo
<1>5. responses + answersLeft <= AnswersTo(Room + 1)
  BY <1>1, AnswersToNext DEF IInv, AnswersBounded, ManagerWaits
<1>6. responses + answersLeft > ResponseCapacity /\ responses + answersLeft \in Int
  BY <1>1 DEF EngineWaits, TypeOK
<1>7. AnswersTo(Room + 1) \in Int /\ AnswersTo(RoundSize) \in Int
  BY <1>1, AnswersToNext
<1> QED
  BY <1>3, <1>4, <1>5, <1>6, <1>7

-----------------------------------------------------------------------------
\* The queues and the counters keep their types: no thread writes to a full
\* queue or releases a slot of an empty one.
THEOREM TypeCorrect == Spec => []TypeOK
<1>1. Init => IInv
  BY InitInvariant
<1>2. IInv /\ [Next]_vars => IInv'
  BY NextInvariant
<1>3. IInv => TypeOK
  BY DEF IInv
<1> QED
  BY <1>1, <1>2, <1>3, PTL DEF Spec

\* FIFOSequencer::sequenceAndPublish and BookCore::SendClientResponse never
\* spin for each other, for any capacities, if the answers to one round fit.
THEOREM NoMutualWait == Spec => []NeverBothWaiting
<1>1. Init => IInv
  BY InitInvariant
<1>2. IInv /\ [Next]_vars => IInv'
  BY NextInvariant
<1>3. IInv => NeverBothWaiting
  BY InvariantImplies
<1> QED
  BY <1>1, <1>2, <1>3, PTL DEF Spec

-----------------------------------------------------------------------------
\* The order of the requests.

\* As long as no round reads more requests than the sort leaves in order.
RoundsShort == Len(pendingClientRequests) <= StableLimit

Request == [time : Times, socket : Sockets, number : Nat]

EntryTypeOK ==
  /\ connection \in [Clients -> Nat]
  /\ next_outgoing_seq_num_ \in [Clients -> Nat]
  /\ outbound \in [Clients -> Seq(Nat)]
  /\ toExchange \in [Sockets -> Seq(Nat)]
  /\ inbound_data_ \in [Sockets -> Seq(Nat)]
  /\ backlog \in Seq(Sockets) /\ recv_sockets_ \in Seq(Sockets)
  /\ visiting \in 0 .. (Len(recv_sockets_) + 2)
  /\ received \in BOOLEAN
  /\ cidTcpSocketMap \in [Clients -> Sockets \cup {None}]
  /\ cidNextExpSeqNum \in [Clients -> Nat \ {0}]
  /\ pendingClientRequests \in Seq(Request)
  /\ published \in Seq([socket : Sockets, number : Nat])

\* All connections there have been, each once.
Accepted == recv_sockets_ \o backlog
Connections ==
  /\ \A i, j \in 1 .. Len(Accepted) : Accepted[i] = Accepted[j] => i = j
  /\ \A i \in 1 .. Len(Accepted) : Accepted[i][2] <= connection[Accepted[i][1]]
  /\ \A c \in Clients : \A k \in 1 .. connection[c] :
       \E i \in 1 .. Len(Accepted) : Accepted[i] = <<c, k>>

\* A client that has no socket has sent nothing; its socket is one of its own.
Served ==
  \A c \in Clients :
    /\ cidTcpSocketMap[c] = None =>
         /\ cidNextExpSeqNum[c] = 1
         /\ \A i \in DOMAIN published : published[i].socket[1] # c
         /\ \A i \in DOMAIN pendingClientRequests : pendingClientRequests[i].socket[1] # c
    /\ cidTcpSocketMap[c] # None => cidTcpSocketMap[c][1] = c

\* What holds however long a round is.
EntryBase == EntryTypeOK /\ Connections /\ Served

\* The requests of client c in a list are those of one socket with the numbers
\* after "from" up to "to", each once.
OnceEach(list, c, s, from, to) ==
  /\ \A i \in DOMAIN list :
       list[i].socket[1] = c => /\ list[i].socket = s
                                /\ from < list[i].number
                                /\ list[i].number <= to
  /\ \A i, j \in DOMAIN list :
       i # j /\ list[i].socket[1] = c /\ list[j].socket[1] = c
         => list[i].number # list[j].number
  /\ \A n \in (from + 1) .. to :
       \E i \in DOMAIN list : list[i].socket[1] = c /\ list[i].number = n

\* They are in the order of their numbers.
Ordered(list, c) ==
  \A i, j \in DOMAIN list :
    i < j /\ list[i].socket[1] = c /\ list[j].socket[1] = c
      => list[i].number < list[j].number

Run(list, c, s, from, to) == OnceEach(list, c, s, from, to) /\ Ordered(list, c)

\* Of each client some requests have gone on, in some order, and the next ones
\* are pending in theirs, up to the number expected.
Numbered ==
  \A c \in Clients :
    \E last \in 0 .. (cidNextExpSeqNum[c] - 1) :
      /\ OnceEach(published, c, cidTcpSocketMap[c], 0, last)
      /\ Run(pendingClientRequests, c, cidTcpSocketMap[c], last, cidNextExpSeqNum[c] - 1)

\* What is pending was read in this round, from a socket in one read.
InRound ==
  /\ \A i \in DOMAIN pendingClientRequests :
       \E k \in 1 .. Len(recv_sockets_) :
         k < visiting /\ recv_sockets_[k] = pendingClientRequests[i].socket
  /\ \A i, j \in DOMAIN pendingClientRequests :
       pendingClientRequests[i].socket = pendingClientRequests[j].socket
         => pendingClientRequests[i].time = pendingClientRequests[j].time
  /\ visiting = 0 \/ visiting = Len(recv_sockets_) + 2 => pendingClientRequests = << >>
  /\ ~ received => pendingClientRequests = << >>
  /\ \A s \in Sockets : Len(inbound_data_[s]) < 2

EntryInv == EntryBase /\ Numbered /\ InRound

-----------------------------------------------------------------------------
\* A non-empty set of numbers has a least one.
LEMMA LeastExists ==
  ASSUME NEW T \in SUBSET Nat, T # {}
  PROVE  \E x \in T : \A y \in T : x <= y
<1>1. PICK m \in T : \A k \in T : <<k, m>> \notin OpToRel(<, Nat)
  BY WFMin, NatLessThanWellFounded, Zenon
<1>2. \A k \in T : ~ (k < m)
  BY <1>1, Zenon DEF OpToRel
<1> QED BY <1>2

-----------------------------------------------------------------------------
\* One read of the exchange.

\* What is made of the first n messages, number by number.
Stages(f, n, s, time, state, numbers) ==
  f = [k \in 0 .. n |->
         IF k = 0 THEN state ELSE Received(s, time, f[k - 1], numbers[k])]

LEMMA StagesExist ==
  ASSUME NEW s, NEW time, NEW state, NEW numbers, NEW n \in Nat
  PROVE  \E f : Stages(f, n, s, time, state, numbers)
<1> DEFINE Exist(m) == \E f : Stages(f, m, s, time, state, numbers)
           Bad == {m \in Nat : ~ Exist(m)}
<1>1. Exist(0)
  <2> DEFINE f == [k \in 0 .. 0 |-> state]
  <2>1. Stages(f, 0, s, time, state, numbers)
    BY DEF Stages
  <2> QED BY <2>1
<1>2. ASSUME NEW m \in Nat, Exist(m) PROVE Exist(m + 1)
  <2>1. PICK f : Stages(f, m, s, time, state, numbers)
    BY <1>2
  <2> DEFINE g == [k \in 0 .. (m + 1) |->
                     IF k = m + 1 THEN Received(s, time, f[m], numbers[m + 1]) ELSE f[k]]
             step(k) == IF k = 0 THEN state ELSE Received(s, time, g[k - 1], numbers[k])
  <2>2. \A k \in 0 .. m : f[k] = IF k = 0 THEN state
                                 ELSE Received(s, time, f[k - 1], numbers[k])
    BY <2>1 DEF Stages
  <2>3. ASSUME NEW k \in 0 .. (m + 1) PROVE g[k] = step(k)
    <3>1. CASE k = m + 1
      <4>1. k # 0 /\ k - 1 = m /\ m \in 0 .. (m + 1) /\ m # m + 1
        BY <3>1
      <4>2. g[k - 1] = f[m] /\ g[k] = Received(s, time, f[m], numbers[m + 1])
        BY <4>1, <3>1
      <4> QED BY <4>1, <4>2, <3>1
    <3>2. CASE k # m + 1
      <4>1. k \in 0 .. m /\ g[k] = f[k]
        BY <3>2
      <4>2. CASE k = 0
        BY <4>1, <4>2, <2>2
      <4>3. CASE k # 0
        <5>1. k - 1 \in 0 .. (m + 1) /\ k - 1 # m + 1
          BY <4>1, <4>3
        <5>2. g[k - 1] = f[k - 1]
          BY <5>1
        <5> QED BY <4>1, <4>3, <5>2, <2>2
      <4> QED BY <4>2, <4>3
    <3> QED BY <3>1, <3>2
  <2>4. g = [k \in 0 .. (m + 1) |-> g[k]]
    OBVIOUS
  <2> HIDE DEF g
  <2>5. Stages(g, m + 1, s, time, state, numbers)
    BY <2>3, <2>4 DEF Stages
  <2> QED BY <2>5
<1> HIDE DEF Exist
<1>3. ASSUME ~ Exist(n) PROVE FALSE
  <2>1. PICK m \in Bad : \A k \in Bad : m <= k
    BY <1>3, LeastExists
  <2>2. m # 0 /\ m - 1 \in Nat
    BY <1>1, <2>1
  <2>3. m - 1 \notin Bad /\ (m - 1) + 1 = m
    BY <2>1, <2>2
  <2> QED BY <1>2, <2>1, <2>2, <2>3
<1> QED BY <1>3 DEF Exist

\* What a read has made of the state it found.
Follows(start, state, s, time) ==
  /\ start.expected <= state.expected
  /\ state.socket = start.socket \/ (start.socket = None /\ state.socket = s)
  /\ start.expected < state.expected => state.socket = s
  /\ Len(state.pending) = Len(start.pending) + (state.expected - start.expected)
  /\ \A i \in 1 .. Len(start.pending) : state.pending[i] = start.pending[i]
  /\ \A i \in 1 .. (state.expected - start.expected) :
       state.pending[Len(start.pending) + i] =
         [time |-> time, socket |-> s, number |-> start.expected + i - 1]

ReadStates == [socket : Sockets \cup {None}, expected : Nat \ {0}, pending : Seq(Request)]

LEMMA ReceivedFollows ==
  ASSUME NEW s \in Sockets, NEW time \in Times, NEW start \in ReadStates,
         NEW state \in ReadStates, NEW number, Follows(start, state, s, time)
  PROVE  /\ Received(s, time, state, number) \in ReadStates
         /\ Follows(start, Received(s, time, state, number), s, time)
<1> DEFINE after == Received(s, time, state, number)
           request == [time |-> time, socket |-> s, number |-> number]
           old == Len(start.pending)
<1>1. /\ start.expected \in Nat \ {0} /\ state.expected \in Nat \ {0}
      /\ start.pending \in Seq(Request) /\ state.pending \in Seq(Request)
      /\ start.socket \in Sockets \cup {None} /\ state.socket \in Sockets \cup {None}
      /\ old \in Nat
  BY LenProperties DEF ReadStates
<1>2. Bound(state.socket, s) \in Sockets
  BY <1>1 DEF Bound
<1>3. CASE ~ Taken(state, s, number)
  <2>1. after = [socket |-> Bound(state.socket, s), expected |-> state.expected,
                 pending |-> state.pending]
    BY <1>3 DEF Received
  <2>2. after \in ReadStates
    BY <2>1, <1>1, <1>2 DEF ReadStates
  <2>3. after.socket = Bound(state.socket, s) /\ after.expected = state.expected
        /\ after.pending = state.pending
    BY <2>1
  <2> HIDE DEF after
  <2>4. after.socket = start.socket \/ (start.socket = None /\ after.socket = s)
    BY <2>3, <1>1, NoneAssumption DEF Follows, Bound
  <2>5. start.expected < after.expected => after.socket = s
    BY <2>3, <1>1, NoneAssumption DEF Follows, Bound
  <2> QED BY <2>2, <2>3, <2>4, <2>5 DEF after, Follows
<1>4. CASE Taken(state, s, number)
  <2>1. after = [socket |-> s, expected |-> state.expected + 1,
                 pending |-> Append(state.pending, request)]
    BY <1>4 DEF Received, Taken
  <2>2. number = state.expected
    BY <1>4 DEF Taken
  <2>3. request \in Request
    BY <2>2, <1>1 DEF Request
  <2>4. /\ Append(state.pending, request) \in Seq(Request)
        /\ Len(Append(state.pending, request)) = Len(state.pending) + 1
        /\ \A i \in 1 .. Len(state.pending) : Append(state.pending, request)[i] = state.pending[i]
        /\ Append(state.pending, request)[Len(state.pending) + 1] = request
    BY <2>3, <1>1, AppendProperties
  <2>5. after \in ReadStates
    BY <2>1, <2>4, <1>1 DEF ReadStates
  <2>6. after.socket = s /\ after.expected = state.expected + 1
        /\ after.pending = Append(state.pending, request)
    BY <2>1
  <2> HIDE DEF after
  <2> DEFINE more == state.expected - start.expected
  <2>7. /\ more \in Nat /\ Len(state.pending) = old + more
        /\ after.expected - start.expected = more + 1
    BY <1>1, <2>6 DEF Follows
  <2>8. start.expected <= after.expected
    BY <1>1, <2>6 DEF Follows
  <2>9. after.socket = start.socket \/ (start.socket = None /\ after.socket = s)
    BY <1>1, <2>6, <1>4, NoneAssumption DEF Follows, Taken, Bound
  <2>10. Len(after.pending) = old + (after.expected - start.expected)
    BY <2>4, <2>6, <2>7, <1>1, SMTT(30)
  <2>11. ASSUME NEW i \in 1 .. old PROVE after.pending[i] = start.pending[i]
    <3>1. i \in 1 .. Len(state.pending)
      BY <2>7, <1>1
    <3> QED BY <3>1, <2>4, <2>6 DEF Follows
  <2>12. ASSUME NEW i \in 1 .. (more + 1)
         PROVE after.pending[old + i] =
                 [time |-> time, socket |-> s, number |-> start.expected + i - 1]
    <3>1. CASE i = more + 1
      <4>1. i = (state.expected - start.expected) + 1
        BY <3>1
      <4>2. old + i = Len(state.pending) + 1
        BY <4>1, <2>7, <1>1
      <4>3. start.expected + i - 1 = state.expected
        BY <4>1, <1>1
      <4> QED BY <4>2, <4>3, <2>2, <2>4, <2>6
    <3>2. CASE i # more + 1
      <4>1. i \in 1 .. more /\ old + i \in 1 .. Len(state.pending)
        BY <3>2, <2>7, <1>1
      <4>2. state.pending[old + i] =
              [time |-> time, socket |-> s, number |-> start.expected + i - 1]
        BY <4>1 DEF Follows
      <4> QED BY <4>1, <4>2, <2>4, <2>6
    <3> QED BY <3>1, <3>2
  <2> HIDE DEF more
  <2> QED BY <2>5, <2>6, <2>7, <2>8, <2>9, <2>10, <2>11, <2>12 DEF after, Follows
<1> QED BY <1>3, <1>4

\* A read takes numbers from the one expected on; without a message it changes
\* nothing.
LEMMA AfterRequestsFollows ==
  ASSUME NEW s \in Sockets, NEW time \in Times, NEW start \in ReadStates,
         NEW numbers, Len(numbers) \in Nat
  PROVE  /\ AfterRequests(s, time, start, numbers) \in ReadStates
         /\ Follows(start, AfterRequests(s, time, start, numbers), s, time)
         /\ Len(numbers) = 0 => AfterRequests(s, time, start, numbers) = start
<1> DEFINE n == Len(numbers)
           after == CHOOSE f : Stages(f, n, s, time, start, numbers)
           Good(k) == after[k] \in ReadStates /\ Follows(start, after[k], s, time)
           Bad == {k \in 0 .. n : ~ Good(k)}
<1>1. AfterRequests(s, time, start, numbers) = after[n]
  BY DEF AfterRequests, Stages
<1>2. Stages(after, n, s, time, start, numbers)
  BY StagesExist
<1> HIDE DEF after
<1>3. /\ after[0] = start
      /\ \A k \in 1 .. n : after[k] = Received(s, time, after[k - 1], numbers[k])
  BY <1>2 DEF Stages
<1>4. Good(0)
  <2>1. start.expected \in Nat /\ Len(start.pending) \in Nat
    BY LenProperties DEF ReadStates
  <2> QED BY <1>3, <2>1 DEF Follows
<1>5. ASSUME NEW k \in 1 .. n, Good(k - 1) PROVE Good(k)
  BY <1>3, <1>5, ReceivedFollows
<1> HIDE DEF Good, n
<1>6. ASSUME ~ Good(n) PROVE FALSE
  <2>1. Bad \in SUBSET Nat /\ n \in Bad
    BY <1>6 DEF n
  <2>2. PICK k \in Bad : \A m \in Bad : k <= m
    BY <2>1, LeastExists
  <2>3. k # 0 /\ k - 1 \in 0 .. n /\ k \in 1 .. n
    BY <1>4, <2>2 DEF n
  <2>4. k - 1 \notin Bad
    BY <2>2, <2>3
  <2> QED BY <1>5, <2>2, <2>3, <2>4
<1> QED BY <1>1, <1>3, <1>6 DEF Good, n

-----------------------------------------------------------------------------
\* Bytes.

LEMMA MinOfTwo ==
  ASSUME NEW m \in Int, NEW n \in Int
  PROVE  /\ Min({m, n}) \in Int
         /\ Min({m, n}) <= m /\ Min({m, n}) <= n
         /\ Min({m, n}) \in {m, n}
<1>1. \E x \in {m, n} : \A y \in {m, n} : x <= y
  OBVIOUS
<1>2. Min({m, n}) \in {m, n} /\ \A y \in {m, n} : Min({m, n}) <= y
  BY <1>1 DEF Min
<1> QED BY <1>2

LEMMA FirstType ==
  ASSUME NEW S, NEW bytes \in Seq(S), NEW n \in Int, n <= Len(bytes)
  PROVE  /\ First(bytes, n) \in Seq(S)
         /\ Len(First(bytes, n)) = IF n > 0 THEN n ELSE 0
         /\ \A i \in 1 .. n : First(bytes, n)[i] = bytes[i]
<1>1. CASE n > 0
  <2>1. 1 \in 1 .. (Len(bytes) + 1) /\ n \in (1 - 1) .. Len(bytes)
    BY <1>1, LenProperties
  <2> QED BY <1>1, <2>1, SubSeqProperties DEF First
<1>2. CASE ~ (n > 0)
  <2>1. First(bytes, n) = << >>
    BY <1>2, SMT DEF First
  <2> QED BY <1>2, <2>1
<1> QED BY <1>1, <1>2

LEMMA RestType ==
  ASSUME NEW S, NEW bytes \in Seq(S), NEW n \in 0 .. Len(bytes)
  PROVE  /\ Rest(bytes, n) \in Seq(S)
         /\ Len(Rest(bytes, n)) = Len(bytes) - n
         /\ \A i \in 1 .. (Len(bytes) - n) : Rest(bytes, n)[i] = bytes[n + i]
<1>1. n + 1 \in 1 .. (Len(bytes) + 1) /\ Len(bytes) \in ((n + 1) - 1) .. Len(bytes)
  BY LenProperties
<1> QED BY <1>1, SubSeqProperties DEF Rest

LEMMA SentType ==
  ASSUME NEW S, NEW wireBytes \in Seq(S), NEW buffer \in Seq(S)
  PROVE  Sent(wireBytes, buffer) \in Seq(S)
<1> DEFINE n == Min({Len(buffer), SocketBuffer - Len(wireBytes)})
<1>1. Len(buffer) \in Int /\ SocketBuffer - Len(wireBytes) \in Int
  BY LenProperties, OrderEntryAssumption
<1>2. n \in Int /\ n <= Len(buffer)
  BY <1>1, MinOfTwo
<1> HIDE DEF n
<1>3. First(buffer, n) \in Seq(S)
  BY <1>2, FirstType
<1> QED BY <1>3, ConcatProperties DEF Sent, n

LEMMA Halving ==
  ASSUME NEW n \in Nat
  PROVE  n \div 2 \in Nat /\ (n = 2 * (n \div 2) \/ n = 2 * (n \div 2) + 1)
  OBVIOUS

LEMMA RemainderType ==
  ASSUME NEW S, NEW bytes \in Seq(S)
  PROVE  /\ Remainder(bytes) \in Seq(S)
         /\ Len(Remainder(bytes)) = Len(bytes) - 2 * (Len(bytes) \div 2)
         /\ Len(Remainder(bytes)) < 2
<1> DEFINE h == Len(bytes) \div 2
<1>1. Len(bytes) \in Nat /\ h \in Nat /\ (Len(bytes) = 2 * h \/ Len(bytes) = 2 * h + 1)
  BY LenProperties, Halving
<1> HIDE DEF h
<1>2. Remainder(bytes) = Rest(bytes, 2 * h)
  BY DEF Remainder, Rest, h
<1>3. 2 * h \in 0 .. Len(bytes)
  BY <1>1
<1> QED BY <1>1, <1>2, <1>3, RestType DEF h

LEMMA MessagesType ==
  ASSUME NEW S, NEW bytes \in Seq(S)
  PROVE  Len(Messages(bytes)) = Len(bytes) \div 2
<1>1. Len(bytes) \div 2 \in Nat
  BY LenProperties, Halving
<1> QED BY <1>1 DEF Messages

-----------------------------------------------------------------------------
\* What keeps what.

LEMMA ConnectionsKept ==
  ASSUME Connections, UNCHANGED <<connection, recv_sockets_, backlog>>
  PROVE  Connections'
<1>1. Accepted' = Accepted
  BY DEF Accepted
<1> QED BY <1>1 DEF Connections

LEMMA ServedKept ==
  ASSUME Served,
         UNCHANGED <<published, pendingClientRequests, cidTcpSocketMap, cidNextExpSeqNum>>
  PROVE  Served'
  BY DEF Served

LEMMA NumberedKept ==
  ASSUME Numbered,
         UNCHANGED <<published, pendingClientRequests, cidTcpSocketMap, cidNextExpSeqNum>>
  PROVE  Numbered'
  BY DEF Numbered, Run, OnceEach, Ordered

LEMMA InRoundKept ==
  ASSUME InRound,
         UNCHANGED <<pendingClientRequests, recv_sockets_, visiting, received, inbound_data_>>
  PROVE  InRound'
  BY DEF InRound

\* There are at most so many connections as there may be.
LEMMA ConnectionBound ==
  ASSUME EntryTypeOK, Connections, NEW c \in Clients
  PROVE  connection[c] <= Len(recv_sockets_) + Len(backlog)
<1> DEFINE n == connection[c]
           total == Len(recv_sockets_) + Len(backlog)
           at == [k \in 1 .. n |-> CHOOSE i \in 1 .. total : Accepted[i] = <<c, k>>]
<1>1. /\ n \in Nat /\ total \in Nat /\ Len(Accepted) = total
  BY LenProperties, ConcatProperties DEF EntryTypeOK, Accepted
<1>2. \A k \in 1 .. n : \E i \in 1 .. total : Accepted[i] = <<c, k>>
  BY <1>1 DEF Connections
<1> HIDE DEF n, total
<1>3. ASSUME NEW k \in 1 .. n PROVE at[k] \in 1 .. total /\ Accepted[at[k]] = <<c, k>>
  BY <1>2
<1>4. at \in [1 .. n -> 1 .. total]
  BY <1>3
<1> HIDE DEF at
<1>5. \A j, k \in 1 .. n : at[j] = at[k] => j = k
  BY <1>3
<1>6. at \in Injection(1 .. n, 1 .. total)
  BY <1>4, <1>5 DEF Injection, IsInjective
<1>7. /\ IsFiniteSet(1 .. total) /\ Cardinality(1 .. total) = total
      /\ IsFiniteSet(1 .. n) /\ Cardinality(1 .. n) = n
  BY <1>1, FS_Interval
<1>8. Cardinality(1 .. n) <= Cardinality(1 .. total)
  BY <1>6, <1>7, FS_Injection
<1> QED BY <1>7, <1>8 DEF n, total

-----------------------------------------------------------------------------
\* The invariant.

\* It holds at the start.
LEMMA BaseStart == EntryInit => EntryBase
<1> SUFFICES ASSUME EntryInit PROVE EntryBase
  OBVIOUS
<1>1. EntryTypeOK
  <2>1. /\ << >> \in Seq(Nat) /\ << >> \in Seq(Sockets) /\ << >> \in Seq(Request)
        /\ << >> \in Seq([socket : Sockets, number : Nat])
    OBVIOUS
  <2>2. /\ connection \in [Clients -> Nat] /\ next_outgoing_seq_num_ \in [Clients -> Nat]
        /\ cidTcpSocketMap \in [Clients -> Sockets \cup {None}]
        /\ cidNextExpSeqNum \in [Clients -> Nat \ {0}]
    BY DEF EntryInit
  <2>3. /\ outbound \in [Clients -> Seq(Nat)]
        /\ toExchange \in [Sockets -> Seq(Nat)]
        /\ inbound_data_ \in [Sockets -> Seq(Nat)]
    BY <2>1 DEF EntryInit
  <2>4. /\ backlog \in Seq(Sockets) /\ recv_sockets_ \in Seq(Sockets)
        /\ pendingClientRequests \in Seq(Request)
        /\ published \in Seq([socket : Sockets, number : Nat])
    BY <2>1 DEF EntryInit
  <2>5. Len(recv_sockets_) = 0 /\ visiting = 0 /\ received \in BOOLEAN
    BY DEF EntryInit
  <2> QED BY <2>2, <2>3, <2>4, <2>5 DEF EntryTypeOK
<1>2. Connections
  <2>1. Len(Accepted) = 0
    BY DEF EntryInit, Accepted
  <2> QED BY <2>1 DEF EntryInit, Connections
<1>3. Served
  BY DEF EntryInit, Served
<1> QED BY <1>1, <1>2, <1>3 DEF EntryBase

LEMMA EntryStart == EntryInit => EntryInv
<1> SUFFICES ASSUME EntryInit PROVE EntryInv
  OBVIOUS
<1>1. EntryBase
  BY BaseStart
<1>3. Numbered
  <2> SUFFICES ASSUME NEW c \in Clients
               PROVE  \E last \in 0 .. (cidNextExpSeqNum[c] - 1) :
                        /\ OnceEach(published, c, cidTcpSocketMap[c], 0, last)
                        /\ Run(pendingClientRequests, c, cidTcpSocketMap[c], last,
                               cidNextExpSeqNum[c] - 1)
    BY DEF Numbered
  <2>1. /\ cidTcpSocketMap[c] = None /\ cidNextExpSeqNum[c] = 1
        /\ published = << >> /\ pendingClientRequests = << >>
    BY DEF EntryInit
  <2>2. Run(<< >>, c, None, 0, 0) /\ OnceEach(<< >>, c, None, 0, 0)
    BY DEF Run, OnceEach, Ordered
  <2> QED BY <2>1, <2>2
<1>4. InRound
  <2>1. \A s \in Sockets : Len(inbound_data_[s]) = 0
    BY DEF EntryInit
  <2>2. pendingClientRequests = << >>
    BY DEF EntryInit
  <2> QED BY <2>1, <2>2 DEF InRound
<1> QED BY <1>1, <1>3, <1>4 DEF EntryInv

\* A new connection is one of the connections there may be.
LEMMA NewSocket ==
  ASSUME EntryTypeOK, Connections, NEW c \in Clients, Connect(c)
  PROVE  <<c, connection[c] + 1>> \in Sockets
<1>1. connection[c] \in Nat /\ connection[c] + 1 <= MaxConnections
  <2>1. /\ Len(recv_sockets_) \in Nat /\ Len(backlog) \in Nat /\ connection[c] \in Nat
    BY LenProperties DEF EntryTypeOK
  <2>2. connection[c] <= Len(recv_sockets_) + Len(backlog)
    BY ConnectionBound
  <2>3. Len(recv_sockets_) + Len(backlog) < MaxConnections
    BY DEF Connect
  <2> QED BY <2>1, <2>2, <2>3, OrderEntryAssumption
<1> QED BY <1>1 DEF Sockets

\* A connection more.
LEMMA ConnectBase ==
  ASSUME EntryBase, NEW c \in Clients, Connect(c)
  PROVE  EntryBase'
<1> DEFINE s == <<c, connection[c] + 1>>
<1> USE DEF EntryBase
<1>1. /\ connection' = [connection EXCEPT ![c] = @ + 1]
      /\ backlog' = Append(backlog, s)
      /\ UNCHANGED <<toExchange, orderManagerVars, visiting, received, published>>
  BY DEF Connect, EntryTypeOK, matchingVars
<1>2. s \in Sockets
  BY NewSocket
<1>3. EntryTypeOK'
  <2>1. connection' \in [Clients -> Nat]
    BY <1>1 DEF EntryTypeOK
  <2>2. next_outgoing_seq_num_' \in [Clients -> Nat]
    BY DEF Connect, EntryTypeOK
  <2>3. outbound' \in [Clients -> Seq(Nat)]
    BY DEF Connect, EntryTypeOK
  <2>4. backlog' \in Seq(Sockets)
    BY <1>1, <1>2, AppendProperties DEF EntryTypeOK
  <2> HIDE DEF EntryBase
  <2> QED BY <1>1, <2>1, <2>2, <2>3, <2>4 DEF EntryBase, EntryTypeOK, orderManagerVars
<1>4. Connections'
  <2> DEFINE n == Len(Accepted)
  <2>1. /\ Accepted \in Seq(Sockets) /\ n \in Nat
        /\ recv_sockets_' = recv_sockets_
    BY <1>1, ConcatProperties, LenProperties DEF EntryTypeOK, Accepted, orderManagerVars
  <2>2. Accepted' = Append(Accepted, s)
    <3>1. \A q \in Seq(Sockets) : Append(q, s) = q \o <<s>>
      BY <1>2, AppendIsConcat
    <3>2. <<s>> \in Seq(Sockets)
      BY <1>2
    <3>3. (recv_sockets_ \o backlog) \o <<s>> = recv_sockets_ \o (backlog \o <<s>>)
      <4>1. recv_sockets_ \in Seq(Sockets) /\ backlog \in Seq(Sockets)
        BY DEF EntryTypeOK
      <4>2. \A q, r, t \in Seq(Sockets) : (q \o r) \o t = q \o (r \o t)
        BY ConcatAssociative
      <4> QED BY ONLY <4>1, <4>2, <3>2
    <3> QED BY <1>1, <2>1, <3>1, <3>3 DEF Accepted, EntryTypeOK
  <2>3. /\ Len(Accepted') = n + 1
        /\ \A i \in 1 .. n : Accepted'[i] = Accepted[i]
        /\ Accepted'[n + 1] = s
    BY <2>1, <2>2, <1>2, AppendProperties
  <2>4. \A i \in 1 .. n : Accepted[i] \in Sockets
    BY <2>1
  <2>5. /\ \A i, j \in 1 .. n : Accepted[i] = Accepted[j] => i = j
        /\ \A i \in 1 .. n : Accepted[i][2] <= connection[Accepted[i][1]]
        /\ \A d \in Clients : \A k \in 1 .. connection[d] :
             \E i \in 1 .. n : Accepted[i] = <<d, k>>
    BY DEF Connections
  <2>6. /\ \A d \in Clients : connection[d] \in Nat
        /\ \A d \in Clients : connection'[d] = IF d = c THEN connection[d] + 1 ELSE connection[d]
    BY <1>1 DEF EntryTypeOK
  <2> DEFINE after == Accepted'
  <2> HIDE DEF n, after
  <2>7. \A i \in 1 .. n : after[i] # s
    <3> SUFFICES ASSUME NEW i \in 1 .. n, after[i] = s PROVE FALSE
      OBVIOUS
    <3>1. Accepted[i] = s
      BY <2>3 DEF after
    <3> QED BY <3>1, <2>5, <2>6
  <2>8. ASSUME NEW i \in 1 .. (n + 1), NEW j \in 1 .. (n + 1), after[i] = after[j]
        PROVE  i = j
    <3>1. CASE i = n + 1
      BY <3>1, <2>1, <2>3, <2>7, <2>8 DEF after
    <3>2. CASE j = n + 1
      BY <3>2, <2>1, <2>3, <2>7, <2>8 DEF after
    <3>3. CASE i # n + 1 /\ j # n + 1
      <4>1. i \in 1 .. n /\ j \in 1 .. n
        BY <3>3, <2>1
      <4> QED BY <4>1, <2>3, <2>5, <2>8 DEF after
    <3> QED BY <3>1, <3>2, <3>3
  <2>9. ASSUME NEW i \in 1 .. (n + 1) PROVE after[i][2] <= connection'[after[i][1]]
    <3>1. CASE i = n + 1
      BY <3>1, <2>3, <2>6 DEF after
    <3>2. CASE i # n + 1
      <4>1. i \in 1 .. n /\ after[i] = Accepted[i] /\ Accepted[i][1] \in Clients
            /\ Accepted[i][2] \in Nat
        BY <3>2, <2>1, <2>3, <2>4 DEF after, Sockets
      <4> QED BY <4>1, <2>5, <2>6
    <3> QED BY <3>1, <3>2
  <2>10. ASSUME NEW d \in Clients, NEW k \in 1 .. connection'[d]
         PROVE  \E i \in 1 .. (n + 1) : after[i] = <<d, k>>
    <3>1. CASE d = c /\ k = connection[c] + 1
      BY <3>1, <2>1, <2>3 DEF after
    <3>2. CASE ~ (d = c /\ k = connection[c] + 1)
      <4>1. k \in 1 .. connection[d]
        BY <3>2, <2>6
      <4>2. PICK i \in 1 .. n : Accepted[i] = <<d, k>>
        BY <4>1, <2>5
      <4> QED BY <4>2, <2>1, <2>3 DEF after
    <3> QED BY <3>1, <3>2
  <2>11. Len(Accepted') = n + 1
    BY <2>3
  <2> QED BY <2>8, <2>9, <2>10, <2>11 DEF Connections, after
<1>5. Served'
  BY <1>1, ServedKept DEF orderManagerVars
<1> QED BY <1>3, <1>4, <1>5

LEMMA ConnectStep ==
  ASSUME EntryInv, NEW c \in Clients, Connect(c)
  PROVE  EntryInv'
<1>1. UNCHANGED <<orderManagerVars, visiting, received, published>>
  BY DEF Connect, matchingVars
<1>2. Numbered'
  BY <1>1, NumberedKept DEF EntryInv, orderManagerVars
<1>3. InRound'
  BY <1>1, InRoundKept DEF EntryInv, orderManagerVars
<1> QED BY <1>2, <1>3, ConnectBase DEF EntryInv

\* What does not touch the requests or the connections.
Quiet ==
  /\ EntryTypeOK'
  /\ UNCHANGED <<connection, recv_sockets_, backlog, published, pendingClientRequests,
                 cidTcpSocketMap, cidNextExpSeqNum, visiting, received, inbound_data_>>

LEMMA QuietBase == EntryBase /\ Quiet => EntryBase'
  BY ConnectionsKept, ServedKept DEF EntryBase, Quiet

LEMMA QuietStep == EntryInv /\ Quiet => EntryInv'
  BY QuietBase, NumberedKept, InRoundKept DEF EntryInv, Quiet

LEMMA GatewaySendQuiet ==
  ASSUME EntryTypeOK, NEW c \in Clients, GatewaySend(c)
  PROVE  Quiet
<1>1. /\ outbound' = [outbound EXCEPT ![c] = @ \o Halves(next_outgoing_seq_num_[c])]
      /\ next_outgoing_seq_num_' = [next_outgoing_seq_num_ EXCEPT ![c] = @ + 1]
      /\ UNCHANGED <<connection, wire, orderManagerVars, visiting, received, matchingVars>>
  BY DEF GatewaySend
<1>2. /\ outbound[c] \in Seq(Nat) /\ next_outgoing_seq_num_[c] \in Nat
      /\ outbound \in [Clients -> Seq(Nat)] /\ next_outgoing_seq_num_ \in [Clients -> Nat]
  BY DEF EntryTypeOK
<1>3. Halves(next_outgoing_seq_num_[c]) \in Seq(Nat)
  BY <1>2 DEF Halves
<1>4. outbound[c] \o Halves(next_outgoing_seq_num_[c]) \in Seq(Nat)
  BY <1>2, <1>3, ConcatProperties
<1>5. outbound' \in [Clients -> Seq(Nat)] /\ next_outgoing_seq_num_' \in [Clients -> Nat]
  BY <1>1, <1>2, <1>4
<1>6. EntryTypeOK'
  BY <1>1, <1>5 DEF EntryTypeOK, wire, orderManagerVars, matchingVars
<1> QED BY <1>1, <1>6 DEF Quiet, wire, orderManagerVars, matchingVars

LEMMA GatewayReadQuiet ==
  ASSUME EntryTypeOK, NEW c \in Clients, GatewayStep(c)
  PROVE  Quiet
<1>1. /\ toExchange' = [toExchange EXCEPT ![Socket(c)] = Sent(@, outbound[c])]
      /\ outbound' = [outbound EXCEPT ![c] = << >>]
      /\ UNCHANGED <<connection, next_outgoing_seq_num_, backlog, orderManagerVars,
                     visiting, received, matchingVars>>
  BY DEF GatewayStep, GatewaySendAndRecv
<1>2. /\ outbound \in [Clients -> Seq(Nat)] /\ toExchange \in [Sockets -> Seq(Nat)]
      /\ << >> \in Seq(Nat)
  BY DEF EntryTypeOK
<1>3. outbound' \in [Clients -> Seq(Nat)]
  BY <1>1, <1>2
<1>4. Socket(c) \in Sockets => Sent(toExchange[Socket(c)], outbound[c]) \in Seq(Nat)
  BY <1>2, SentType
<1>5. toExchange' \in [Sockets -> Seq(Nat)]
  BY <1>1, <1>2, <1>4
<1>6. EntryTypeOK'
  BY <1>1, <1>3, <1>5 DEF EntryTypeOK, orderManagerVars, matchingVars
<1> QED BY <1>1, <1>6 DEF Quiet, orderManagerVars, matchingVars

LEMMA OthersQuiet ==
  ASSUME EntryTypeOK, \/ \E c \in Clients : End(c) \/ AnswerClient(c)
                      \/ \E s \in Sockets : Reset(s)
                      \/ ForwardResponse
                      \/ UNCHANGED entryVars
  PROVE  Quiet
<1> DEFINE Same ==
             /\ \/ toExchange' = toExchange
                \/ \E s \in Sockets : toExchange' = [toExchange EXCEPT ![s] = << >>]
             /\ UNCHANGED <<connection, recv_sockets_, backlog, published,
                            pendingClientRequests, cidTcpSocketMap, cidNextExpSeqNum,
                            visiting, received, inbound_data_, next_outgoing_seq_num_,
                            outbound>>
<1>1. Same
  <2>1. ASSUME NEW c \in Clients, End(c) \/ AnswerClient(c) PROVE Same
    BY <2>1 DEF End, AnswerClient, clientVars, wire, orderManagerVars, matchingVars
  <2>2. ASSUME NEW s \in Sockets, Reset(s) PROVE Same
    BY <2>2 DEF Reset, clientVars, orderManagerVars, matchingVars
  <2>3. CASE ForwardResponse
    BY <2>3 DEF ForwardResponse, clientVars, wire
  <2>4. CASE UNCHANGED entryVars
    BY <2>4 DEF entryVars, clientVars, wire, orderManagerVars, matchingVars
  <2> QED BY <2>1, <2>2, <2>3, <2>4
<1>2. toExchange' \in [Sockets -> Seq(Nat)]
  <2>1. toExchange \in [Sockets -> Seq(Nat)] /\ << >> \in Seq(Nat)
    BY DEF EntryTypeOK
  <2> QED BY <1>1, <2>1
<1>3. EntryTypeOK'
  BY <1>1, <1>2 DEF EntryTypeOK
<1> QED BY <1>1, <1>3 DEF Quiet

LEMMA NextRoundBase ==
  ASSUME EntryBase, NextRound
  PROVE  EntryBase'
<1>1. /\ visiting = Len(recv_sockets_) + 2 /\ visiting' = 0
      /\ UNCHANGED <<connection, next_outgoing_seq_num_, outbound, toExchange, backlog,
                     recv_sockets_, inbound_data_, cidTcpSocketMap, cidNextExpSeqNum,
                     pendingClientRequests, received, published>>
  BY DEF NextRound, clientVars, wire, orderManagerVars, matchingVars
<1>2. EntryTypeOK'
  <2>1. Len(recv_sockets_) \in Nat
    BY LenProperties DEF EntryBase, EntryTypeOK
  <2> QED BY <1>1, <2>1 DEF EntryBase, EntryTypeOK
<1> QED BY <1>1, <1>2, ConnectionsKept, ServedKept DEF EntryBase

LEMMA NextRoundStep ==
  ASSUME EntryInv, NextRound
  PROVE  EntryInv'
<1>1. /\ visiting = Len(recv_sockets_) + 2 /\ visiting' = 0
      /\ UNCHANGED <<recv_sockets_, inbound_data_, cidTcpSocketMap, cidNextExpSeqNum,
                     pendingClientRequests, received, published>>
  BY DEF NextRound, orderManagerVars, matchingVars
<1>2. pendingClientRequests = << >>
  BY <1>1 DEF EntryInv, InRound
<1>3. InRound'
  BY <1>1, <1>2 DEF EntryInv, InRound
<1> QED BY <1>1, <1>3, NextRoundBase, NumberedKept DEF EntryInv

LEMMA PollBase ==
  ASSUME EntryBase, Poll
  PROVE  EntryBase'
<1>1. /\ visiting' = 1 /\ received' = FALSE
      /\ recv_sockets_' = Accepted /\ backlog' = << >>
      /\ UNCHANGED <<connection, next_outgoing_seq_num_, outbound, toExchange,
                     inbound_data_, cidTcpSocketMap, cidNextExpSeqNum,
                     pendingClientRequests, published>>
  BY DEF Poll, clientVars, matchingVars, Accepted
<1>2. Accepted \in Seq(Sockets) /\ Len(Accepted) \in Nat
  BY ConcatProperties, LenProperties DEF EntryBase, EntryTypeOK, Accepted
<1>3. EntryTypeOK'
  <2>1. << >> \in Seq(Sockets)
    OBVIOUS
  <2>2. visiting' \in 0 .. (Len(recv_sockets_') + 2)
    BY <1>1, <1>2
  <2>3. recv_sockets_' \in Seq(Sockets) /\ backlog' \in Seq(Sockets)
    BY <1>1, <1>2, <2>1
  <2> QED BY <1>1, <2>2, <2>3 DEF EntryBase, EntryTypeOK
<1>4. Connections'
  <2>1. Accepted' = Accepted
    BY <1>1, <1>2, ConcatEmptySeq DEF Accepted
  <2> QED BY <1>1, <2>1 DEF EntryBase, Connections
<1> QED BY <1>1, <1>3, <1>4, ServedKept DEF EntryBase

LEMMA PollStep ==
  ASSUME EntryInv, Poll
  PROVE  EntryInv'
<1>1. /\ visiting = 0 /\ visiting' = 1 /\ received' = FALSE
      /\ UNCHANGED <<inbound_data_, cidTcpSocketMap, cidNextExpSeqNum,
                     pendingClientRequests, published>>
  BY DEF Poll, matchingVars
<1>2. pendingClientRequests = << >>
  BY <1>1 DEF EntryInv, InRound
<1>3. InRound'
  BY <1>1, <1>2 DEF EntryInv, InRound
<1> QED BY <1>1, <1>3, PollBase, NumberedKept DEF EntryInv

-----------------------------------------------------------------------------
\* A read: what it appends to the requests pending.

LEMMA FollowsParts ==
  ASSUME NEW s \in Sockets, NEW time \in Times, NEW start \in ReadStates,
         NEW state \in ReadStates, Follows(start, state, s, time)
  PROVE  /\ \A i \in DOMAIN state.pending :
              \/ i \in DOMAIN start.pending /\ state.pending[i] = start.pending[i]
              \/ /\ Len(start.pending) < i
                 /\ i - Len(start.pending) \in 1 .. (state.expected - start.expected)
                 /\ state.pending[i].socket = s
                 /\ state.pending[i].time = time
                 /\ state.pending[i].number = start.expected + (i - Len(start.pending)) - 1
         /\ \A i \in DOMAIN start.pending :
              i \in DOMAIN state.pending /\ state.pending[i] = start.pending[i]
         /\ \A n \in start.expected .. (state.expected - 1) :
              \E i \in DOMAIN state.pending :
                state.pending[i].socket = s /\ state.pending[i].number = n
<1> DEFINE old == Len(start.pending)
           more == state.expected - start.expected
<1>1. /\ start.expected \in Nat /\ state.expected \in Nat
      /\ old \in Nat /\ Len(state.pending) \in Nat
      /\ DOMAIN start.pending = 1 .. old /\ DOMAIN state.pending = 1 .. Len(state.pending)
  BY LenProperties DEF ReadStates
<1>2. more \in Nat /\ Len(state.pending) = old + more
  BY <1>1 DEF Follows
<1>3. /\ \A i \in 1 .. old : state.pending[i] = start.pending[i]
      /\ \A i \in 1 .. more :
           state.pending[old + i] =
             [time |-> time, socket |-> s, number |-> start.expected + i - 1]
  BY DEF Follows
<1>4. start.expected + more = state.expected
  BY <1>1
<1> HIDE DEF old, more
<1>5. ASSUME NEW i \in 1 .. (old + more), ~ (i \in 1 .. old)
      PROVE  /\ old < i /\ i - old \in 1 .. more
             /\ state.pending[i].socket = s
             /\ state.pending[i].time = time
             /\ state.pending[i].number = start.expected + (i - old) - 1
  <2>1. old < i /\ i - old \in 1 .. more /\ old + (i - old) = i
    BY <1>1, <1>2, <1>5
  <2>2. state.pending[i] = [time |-> time, socket |-> s, number |-> start.expected + (i - old) - 1]
    BY <2>1, <1>3
  <2> QED BY <2>1, <2>2
<1>6. ASSUME NEW i \in 1 .. old PROVE i \in 1 .. (old + more)
  BY <1>1, <1>2
<1>7. ASSUME NEW n \in start.expected .. (state.expected - 1)
      PROVE  \E i \in 1 .. (old + more) :
               state.pending[i].socket = s /\ state.pending[i].number = n
  <2>1. PICK k \in 1 .. more : old + k \in 1 .. (old + more) /\ start.expected + k - 1 = n
    <3> DEFINE first == start.expected
               last == state.expected
    <3>1. /\ first \in Nat /\ last \in Nat /\ first + more = last
          /\ n \in first .. (last - 1)
      BY <1>1, <1>4
    <3> HIDE DEF first, last
    <3>2. /\ n - first + 1 \in 1 .. more
          /\ old + (n - first + 1) \in 1 .. (old + more)
          /\ first + (n - first + 1) - 1 = n
      BY <3>1, <1>1, <1>2
    <3> QED BY <3>2 DEF first
  <2>2. state.pending[old + k] = [time |-> time, socket |-> s, number |-> n]
    BY <2>1, <1>3
  <2> QED BY <2>1, <2>2
<1> QED BY <1>1, <1>2, <1>3, <1>5, <1>6, <1>7 DEF old, more

\* Nothing of a client is nothing of it from any socket.
LEMMA NothingRebound ==
  ASSUME NEW q, NEW c, NEW s, NEW r, OnceEach(q, c, s, 0, 0),
         \A i \in DOMAIN q : q[i].number \in Nat
  PROVE  OnceEach(q, c, r, 0, 0)
<1>1. \A i \in DOMAIN q : q[i].socket[1] # c
  BY DEF OnceEach
<1> QED BY <1>1 DEF OnceEach

\* A read of one client's socket is nothing to the others.
LEMMA RunOfOthers ==
  ASSUME NEW s \in Sockets, NEW time \in Times, NEW start \in ReadStates,
         NEW state \in ReadStates, Follows(start, state, s, time),
         NEW c, s[1] # c, NEW r, NEW from, NEW to, Run(start.pending, c, r, from, to)
  PROVE  Run(state.pending, c, r, from, to)
<1>1. /\ \A i \in DOMAIN state.pending :
           \/ i \in DOMAIN start.pending /\ state.pending[i] = start.pending[i]
           \/ state.pending[i].socket = s
      /\ \A i \in DOMAIN start.pending :
           i \in DOMAIN state.pending /\ state.pending[i] = start.pending[i]
  BY FollowsParts
<1> QED BY <1>1 DEF Run, OnceEach, Ordered

\* A client of which nothing is pending: its requests follow what went on.
LEMMA RunOfOne ==
  ASSUME NEW s \in Sockets, NEW time \in Times, NEW start \in ReadStates,
         NEW state \in ReadStates, Follows(start, state, s, time),
         \A i \in DOMAIN start.pending : start.pending[i].socket[1] # s[1]
  PROVE  Run(state.pending, s[1], s, start.expected - 1, state.expected - 1)
<1> DEFINE old == Len(start.pending)
<1>1. /\ start.expected \in Nat \ {0} /\ state.expected \in Nat \ {0} /\ old \in Nat
      /\ DOMAIN state.pending \in SUBSET Nat
  BY LenProperties DEF ReadStates
<1>2. \A i \in DOMAIN state.pending :
        state.pending[i].socket[1] = s[1] =>
          /\ old < i
          /\ i - old \in 1 .. (state.expected - start.expected)
          /\ state.pending[i].socket = s
          /\ state.pending[i].number = start.expected + (i - old) - 1
  BY FollowsParts
<1>3. \A n \in start.expected .. (state.expected - 1) :
        \E i \in DOMAIN state.pending :
          state.pending[i].socket = s /\ state.pending[i].number = n
  BY FollowsParts
<1> HIDE DEF old
<1>4. ASSUME NEW i \in DOMAIN state.pending, state.pending[i].socket[1] = s[1]
      PROVE  /\ state.pending[i].socket = s
             /\ start.expected - 1 < state.pending[i].number
             /\ state.pending[i].number <= state.expected - 1
  BY <1>1, <1>2, <1>4
<1>5. ASSUME NEW i \in DOMAIN state.pending, NEW j \in DOMAIN state.pending, i < j,
             state.pending[i].socket[1] = s[1], state.pending[j].socket[1] = s[1]
      PROVE  state.pending[i].number < state.pending[j].number
  <2>1. i \in Nat /\ j \in Nat
    BY <1>1
  <2>2. /\ state.pending[i].number = start.expected + (i - old) - 1
        /\ state.pending[j].number = start.expected + (j - old) - 1
    BY <1>2, <1>5
  <2> QED BY <1>1, <1>5, <2>1, <2>2
<1>6. ASSUME NEW n \in ((start.expected - 1) + 1) .. (state.expected - 1)
      PROVE  \E i \in DOMAIN state.pending :
               state.pending[i].socket[1] = s[1] /\ state.pending[i].number = n
  <2>1. n \in start.expected .. (state.expected - 1)
    BY <1>1
  <2> QED BY <2>1, <1>3
<1>7. Ordered(state.pending, s[1])
  BY <1>5 DEF Ordered
<1>8. ASSUME NEW i \in DOMAIN state.pending, NEW j \in DOMAIN state.pending, i # j,
             state.pending[i].socket[1] = s[1], state.pending[j].socket[1] = s[1]
      PROVE  state.pending[i].number # state.pending[j].number
  <2>1. i \in Nat /\ j \in Nat
    BY <1>1
  <2>2. /\ state.pending[i].number = start.expected + (i - old) - 1
        /\ state.pending[j].number = start.expected + (j - old) - 1
    BY <1>2, <1>8
  <2> QED BY <1>1, <1>8, <2>1, <2>2
<1> QED BY <1>4, <1>6, <1>7, <1>8 DEF Run, OnceEach

\* What is in a sequence.
LEMMA Elements ==
  ASSUME NEW S, NEW q \in Seq(S)
  PROVE  \A i \in DOMAIN q : q[i] \in S
  BY ElementOfSeq, LenProperties

\* A read of n bytes from socket s, and what is made of it.
ReadBytes(s, n) == inbound_data_[s] \o First(toExchange[s], n)
ReadStart(s) ==
  [socket |-> cidTcpSocketMap[s[1]], expected |-> cidNextExpSeqNum[s[1]],
   pending |-> pendingClientRequests]
ReadState(s, n, time) == AfterRequests(s, time, ReadStart(s), Messages(ReadBytes(s, n)))
Visited == recv_sockets_[visiting]

LEMMA VisitAssigns ==
  ASSUME NEW n \in Nat, NEW time \in Times, Visit(n, time)
  PROVE  /\ visiting \in DOMAIN recv_sockets_ /\ n <= Len(toExchange[Visited])
         /\ visiting' = visiting + 1
         /\ toExchange' = [toExchange EXCEPT ![Visited] = Rest(@, n)]
         /\ inbound_data_' = [inbound_data_ EXCEPT ![Visited] = Remainder(ReadBytes(Visited, n))]
         /\ cidTcpSocketMap' =
              [cidTcpSocketMap EXCEPT ![Visited[1]] = ReadState(Visited, n, time).socket]
         /\ cidNextExpSeqNum' =
              [cidNextExpSeqNum EXCEPT ![Visited[1]] = ReadState(Visited, n, time).expected]
         /\ pendingClientRequests' = ReadState(Visited, n, time).pending
         /\ received' = (received \/ n > 0)
         /\ UNCHANGED <<connection, next_outgoing_seq_num_, outbound, backlog, recv_sockets_,
                        published>>
  BY DEF Visit, SendAndRecv, clientVars, matchingVars, Visited, ReadBytes, ReadStart, ReadState

LEMMA VisitReads ==
  ASSUME EntryTypeOK, NEW n \in Nat, NEW time \in Times, Visit(n, time)
  PROVE  /\ Len(recv_sockets_) \in Nat /\ visiting \in 1 .. Len(recv_sockets_)
         /\ Visited \in Sockets /\ Visited[1] \in Clients
         /\ inbound_data_[Visited] \in Seq(Nat) /\ toExchange[Visited] \in Seq(Nat)
         /\ n \in 0 .. Len(toExchange[Visited])
         /\ ReadBytes(Visited, n) \in Seq(Nat)
         /\ Len(ReadBytes(Visited, n)) = Len(inbound_data_[Visited]) + n
         /\ Len(Messages(ReadBytes(Visited, n))) = Len(ReadBytes(Visited, n)) \div 2
         /\ Len(Messages(ReadBytes(Visited, n))) \in Nat
         /\ ReadStart(Visited) \in ReadStates
         /\ ReadState(Visited, n, time) \in ReadStates
         /\ Follows(ReadStart(Visited), ReadState(Visited, n, time), Visited, time)
         /\ Len(Messages(ReadBytes(Visited, n))) = 0
              => ReadState(Visited, n, time) = ReadStart(Visited)
<1> DEFINE s == Visited
           bytes == ReadBytes(s, n)
<1>1. visiting \in DOMAIN recv_sockets_ /\ n <= Len(toExchange[s])
  BY VisitAssigns
<1>2. /\ Len(recv_sockets_) \in Nat /\ visiting \in 1 .. Len(recv_sockets_)
      /\ s \in Sockets /\ s[1] \in Clients
      /\ inbound_data_[s] \in Seq(Nat) /\ toExchange[s] \in Seq(Nat)
      /\ n \in 0 .. Len(toExchange[s])
  <2>1. recv_sockets_ \in Seq(Sockets)
    BY DEF EntryTypeOK
  <2>2. Len(recv_sockets_) \in Nat /\ DOMAIN recv_sockets_ = 1 .. Len(recv_sockets_)
    BY <2>1, LenProperties
  <2>3. s \in Sockets
    BY <1>1, <2>1, <2>2, ElementOfSeq DEF Visited
  <2>4. s[1] \in Clients
    BY <2>3 DEF Sockets
  <2>5. inbound_data_[s] \in Seq(Nat) /\ toExchange[s] \in Seq(Nat)
    BY <2>3 DEF EntryTypeOK
  <2>6. n \in 0 .. Len(toExchange[s])
    BY <1>1, <2>5, LenProperties
  <2> QED BY <1>1, <2>2, <2>3, <2>4, <2>5, <2>6
<1> HIDE DEF s
<1>3. bytes \in Seq(Nat) /\ Len(bytes) = Len(inbound_data_[s]) + n
  <2>1. First(toExchange[s], n) \in Seq(Nat) /\ Len(First(toExchange[s], n)) = n
    BY <1>2, FirstType
  <2>2. bytes \in Seq(Nat)
        /\ Len(bytes) = Len(inbound_data_[s]) + Len(First(toExchange[s], n))
    BY <2>1, <1>2, ConcatProperties DEF ReadBytes
  <2> QED BY <2>1, <2>2
<1> HIDE DEF bytes
<1>4. Len(Messages(bytes)) = Len(bytes) \div 2 /\ Len(Messages(bytes)) \in Nat
  BY <1>3, MessagesType, LenProperties, Halving
<1>5. ReadStart(s) \in ReadStates
  BY <1>2 DEF EntryTypeOK, ReadStates, ReadStart
<1>6. ReadState(s, n, time) = AfterRequests(s, time, ReadStart(s), Messages(bytes))
  BY DEF ReadState, bytes
<1>7. /\ ReadState(s, n, time) \in ReadStates
      /\ Follows(ReadStart(s), ReadState(s, n, time), s, time)
      /\ Len(Messages(bytes)) = 0 => ReadState(s, n, time) = ReadStart(s)
  BY <1>2, <1>4, <1>5, <1>6, AfterRequestsFollows
<1> QED BY <1>2, <1>3, <1>4, <1>5, <1>7 DEF s, bytes

LEMMA VisitBase ==
  ASSUME EntryBase, NEW n \in Nat, NEW time \in Times, Visit(n, time)
  PROVE  EntryBase'
<1> DEFINE s == Visited
           c == s[1]
           bytes == ReadBytes(s, n)
           start == ReadStart(s)
           state == ReadState(s, n, time)
<1>1. /\ visiting' = visiting + 1
      /\ toExchange' = [toExchange EXCEPT ![s] = Rest(@, n)]
      /\ inbound_data_' = [inbound_data_ EXCEPT ![s] = Remainder(bytes)]
      /\ cidTcpSocketMap' = [cidTcpSocketMap EXCEPT ![c] = state.socket]
      /\ cidNextExpSeqNum' = [cidNextExpSeqNum EXCEPT ![c] = state.expected]
      /\ pendingClientRequests' = state.pending
      /\ received' = (received \/ n > 0)
      /\ UNCHANGED <<connection, next_outgoing_seq_num_, outbound, backlog, recv_sockets_,
                     published>>
  BY VisitAssigns
<1>2. /\ Len(recv_sockets_) \in Nat /\ visiting \in 1 .. Len(recv_sockets_)
      /\ s \in Sockets /\ c \in Clients
      /\ inbound_data_[s] \in Seq(Nat) /\ toExchange[s] \in Seq(Nat)
      /\ n \in 0 .. Len(toExchange[s])
      /\ bytes \in Seq(Nat)
      /\ start \in ReadStates /\ state \in ReadStates /\ Follows(start, state, s, time)
  BY VisitReads DEF EntryBase
<1>3. /\ start.socket = cidTcpSocketMap[c] /\ start.expected = cidNextExpSeqNum[c]
      /\ start.pending = pendingClientRequests
  BY DEF ReadStart
<1>c. c = s[1]
  OBVIOUS
<1> HIDE DEF s, c, bytes, start, state
<1>4. /\ state.socket \in Sockets \cup {None} /\ state.expected \in Nat \ {0}
      /\ state.pending \in Seq(Request)
      /\ start.expected \in Nat \ {0} /\ start.expected <= state.expected
  BY <1>2 DEF ReadStates, Follows
<1>5. EntryTypeOK'
  <2>1. Rest(toExchange[s], n) \in Seq(Nat)
    BY <1>2, RestType
  <2>2. toExchange' \in [Sockets -> Seq(Nat)]
    BY <1>1, <2>1 DEF EntryBase, EntryTypeOK
  <2>3. Remainder(bytes) \in Seq(Nat)
    BY <1>2, RemainderType
  <2>4. inbound_data_' \in [Sockets -> Seq(Nat)]
    BY <1>1, <2>3 DEF EntryBase, EntryTypeOK
  <2>5. /\ cidTcpSocketMap' \in [Clients -> Sockets \cup {None}]
        /\ cidNextExpSeqNum' \in [Clients -> Nat \ {0}]
    BY <1>1, <1>4 DEF EntryBase, EntryTypeOK
  <2>6. visiting' \in 0 .. (Len(recv_sockets_) + 2)
    BY <1>1, <1>2
  <2>7. received' \in BOOLEAN
    BY <1>1, Zenon
  <2> QED BY <1>1, <1>4, <2>2, <2>4, <2>5, <2>6, <2>7 DEF EntryBase, EntryTypeOK
<1>6. Connections'
  BY <1>1, ConnectionsKept DEF EntryBase
<1>7. Served'
  <2> SUFFICES ASSUME NEW d \in Clients
               PROVE  /\ cidTcpSocketMap'[d] = None =>
                           /\ cidNextExpSeqNum'[d] = 1
                           /\ \A i \in DOMAIN published : published[i].socket[1] # d
                           /\ \A i \in DOMAIN state.pending : state.pending[i].socket[1] # d
                      /\ cidTcpSocketMap'[d] # None => cidTcpSocketMap'[d][1] = d
    BY <1>1 DEF Served
  <2>1. /\ cidTcpSocketMap'[d] = IF d = c THEN state.socket ELSE cidTcpSocketMap[d]
        /\ cidNextExpSeqNum'[d] = IF d = c THEN state.expected ELSE cidNextExpSeqNum[d]
    BY <1>1 DEF EntryBase, EntryTypeOK
  <2>2. /\ cidTcpSocketMap[d] = None =>
             /\ cidNextExpSeqNum[d] = 1
             /\ \A i \in DOMAIN published : published[i].socket[1] # d
             /\ \A i \in DOMAIN start.pending : start.pending[i].socket[1] # d
        /\ cidTcpSocketMap[d] # None => cidTcpSocketMap[d][1] = d
    BY <1>3 DEF EntryBase, Served
  <2>3. \A i \in DOMAIN state.pending :
          \/ i \in DOMAIN start.pending /\ state.pending[i] = start.pending[i]
          \/ state.pending[i].socket = s /\ start.expected < state.expected
    <3>1. \A i \in DOMAIN state.pending :
            \/ i \in DOMAIN start.pending /\ state.pending[i] = start.pending[i]
            \/ /\ i - Len(start.pending) \in 1 .. (state.expected - start.expected)
               /\ state.pending[i].socket = s
      BY <1>2, FollowsParts
    <3> QED BY <3>1, <1>4
  <2>4. CASE d # c
    BY <2>4, <2>1, <2>2, <2>3, <1>c
  <2>5. CASE d = c
    <3>1. \/ state.socket = start.socket
          \/ start.socket = None /\ state.socket = s
      BY <1>2 DEF Follows
    <3>2. start.expected < state.expected => state.socket = s
      BY <1>2 DEF Follows
    <3>3. s # None
      BY <1>2, NoneAssumption
    <3>4. state.socket = None => ~ (start.expected < state.expected)
      BY <3>2, <3>3
    <3> QED BY <2>5, <2>1, <2>2, <2>3, <3>1, <3>3, <3>4, <1>3, <1>4, <1>c
  <2> QED BY <2>4, <2>5
<1> QED BY <1>5, <1>6, <1>7 DEF EntryBase

\* A read continues the numbers of the client whose socket it is.
LEMMA VisitStep ==
  ASSUME EntryInv, NEW n \in Nat, NEW time \in Times, Visit(n, time)
  PROVE  EntryInv'
<1> DEFINE s == Visited
           c == s[1]
           bytes == ReadBytes(s, n)
           numbers == Messages(bytes)
           start == ReadStart(s)
           state == ReadState(s, n, time)
<1>b. EntryBase /\ EntryTypeOK /\ Connections /\ Served
  BY DEF EntryInv, EntryBase
<1>1. /\ visiting' = visiting + 1
      /\ inbound_data_' = [inbound_data_ EXCEPT ![s] = Remainder(bytes)]
      /\ cidTcpSocketMap' = [cidTcpSocketMap EXCEPT ![c] = state.socket]
      /\ cidNextExpSeqNum' = [cidNextExpSeqNum EXCEPT ![c] = state.expected]
      /\ pendingClientRequests' = state.pending
      /\ received' = (received \/ n > 0)
      /\ UNCHANGED <<recv_sockets_, published>>
  BY VisitAssigns
<1>2. /\ Len(recv_sockets_) \in Nat /\ visiting \in 1 .. Len(recv_sockets_)
      /\ s \in Sockets /\ c \in Clients
      /\ inbound_data_[s] \in Seq(Nat)
      /\ bytes \in Seq(Nat) /\ Len(bytes) = Len(inbound_data_[s]) + n
      /\ Len(numbers) = Len(bytes) \div 2
      /\ start \in ReadStates /\ state \in ReadStates /\ Follows(start, state, s, time)
      /\ Len(numbers) = 0 => state = start
  BY <1>b, VisitReads
<1>6. /\ start.socket = cidTcpSocketMap[c] /\ start.expected = cidNextExpSeqNum[c]
      /\ start.pending = pendingClientRequests
  BY DEF ReadStart
<1>s. s = recv_sockets_[visiting]
  BY DEF Visited
<1> HIDE DEF s, c, bytes, numbers, start, state
<1>8. /\ state.socket \in Sockets \cup {None} /\ state.expected \in Nat \ {0}
      /\ state.pending \in Seq(Request)
      /\ start.expected \in Nat \ {0} /\ start.expected <= state.expected
  BY <1>2 DEF ReadStates, Follows
\* No request of this client is pending from a socket visited before.
<1>11. \A i \in DOMAIN pendingClientRequests : pendingClientRequests[i].socket # s
  <2> SUFFICES ASSUME NEW i \in DOMAIN pendingClientRequests,
                      pendingClientRequests[i].socket = s
               PROVE  FALSE
    OBVIOUS
  <2>1. PICK k \in 1 .. Len(recv_sockets_) : k < visiting /\ recv_sockets_[k] = s
    BY DEF EntryInv, InRound
  <2>2. /\ \A j \in 1 .. Len(recv_sockets_) :
             j \in 1 .. Len(Accepted) /\ Accepted[j] = recv_sockets_[j]
    BY <1>b, ConcatProperties, LenProperties DEF EntryTypeOK, Accepted
  <2>3. Accepted[k] = Accepted[visiting] /\ k # visiting
        /\ k \in 1 .. Len(Accepted) /\ visiting \in 1 .. Len(Accepted)
    BY <2>1, <2>2, <1>2, <1>s
  <2> QED BY <2>3, <1>b DEF Connections
<1>12. Numbered'
  <2> SUFFICES ASSUME NEW d \in Clients
               PROVE  \E last \in 0 .. (cidNextExpSeqNum'[d] - 1) :
                        /\ OnceEach(published, d, cidTcpSocketMap'[d], 0, last)
                        /\ Run(state.pending, d, cidTcpSocketMap'[d], last,
                               cidNextExpSeqNum'[d] - 1)
    BY <1>1 DEF Numbered
  <2>1. PICK last \in 0 .. (cidNextExpSeqNum[d] - 1) :
          /\ OnceEach(published, d, cidTcpSocketMap[d], 0, last)
          /\ Run(pendingClientRequests, d, cidTcpSocketMap[d], last, cidNextExpSeqNum[d] - 1)
    BY DEF EntryInv, Numbered
  <2>2. /\ cidTcpSocketMap[d] = None => cidNextExpSeqNum[d] = 1
        /\ cidTcpSocketMap[d] # None => cidTcpSocketMap[d][1] = d
    BY <1>b DEF Served
  <2>3. /\ cidTcpSocketMap'[d] = IF d = c THEN state.socket ELSE cidTcpSocketMap[d]
        /\ cidNextExpSeqNum'[d] = IF d = c THEN state.expected ELSE cidNextExpSeqNum[d]
    BY <1>1, <1>b DEF EntryTypeOK
  <2>4. CASE d # c
    <3> DEFINE to == cidNextExpSeqNum[d] - 1
               r == cidTcpSocketMap[d]
    <3>2. Run(start.pending, d, r, last, to)
      BY <2>1, <1>6
    <3> HIDE DEF to, r
    <3>3. s[1] # d
      BY <2>4 DEF c
    <3>4. s \in Sockets /\ Follows(start, state, s, time)
      BY <1>2
    <3>5. Run(state.pending, d, r, last, to)
      BY ONLY <3>2, <3>3, <3>4, <1>2, RunOfOthers, time \in Times
    <3>1. Run(state.pending, d, cidTcpSocketMap[d], last, cidNextExpSeqNum[d] - 1)
      BY <3>5 DEF to, r
    <3> QED BY <2>1, <2>2, <2>3, <2>4, <3>1
  <2>5. CASE d = c /\ state.expected = start.expected /\ state.socket = start.socket
    <3>1. state.pending = pendingClientRequests
      <4>1. /\ Len(state.pending) = Len(start.pending)
            /\ \A i \in 1 .. Len(start.pending) : state.pending[i] = start.pending[i]
        BY <2>5, <1>2, <1>8, LenProperties DEF Follows, ReadStates
      <4>2. start.pending \in Seq(Request)
        BY <1>2 DEF ReadStates
      <4> QED BY <4>1, <4>2, <1>6, <1>8, SeqEqual
    <3> QED BY <2>1, <2>2, <2>3, <2>5, <3>1, <1>6
  <2>6. CASE d = c /\ state.socket # start.socket
    <3>1. start.socket = None /\ state.socket = s
      BY <2>6, <1>2 DEF Follows
    <3>2. start.expected = 1 /\ last = 0
      BY <3>1, <2>1, <2>2, <2>6, <1>6
    <3>3. \A i \in DOMAIN published : published[i].number \in Nat
      <4>1. published \in Seq([socket : Sockets, number : Nat])
        BY <1>b DEF EntryTypeOK
      <4>2. \A i \in DOMAIN published : published[i] \in [socket : Sockets, number : Nat]
        BY <4>1, Elements
      <4> QED BY <4>2
    <3>4. OnceEach(published, c, s, 0, 0)
      BY <2>1, <2>6, <3>2, <3>3, NothingRebound
    <3>5. \A i \in DOMAIN start.pending : start.pending[i].socket[1] # c
      <4>1. Run(start.pending, c, cidTcpSocketMap[c], 0, 0)
        BY <2>1, <2>6, <3>2, <1>6
      <4>2. \A i \in DOMAIN start.pending : start.pending[i].number \in Nat
        <5>1. \A i \in DOMAIN start.pending : start.pending[i] \in Request
          BY <1>2 DEF ReadStates
        <5> QED BY <5>1 DEF Request
      <4> QED BY <4>1, <4>2 DEF Run, OnceEach
    <3>6. Run(state.pending, c, s, 0, state.expected - 1)
      BY <3>2, <3>5, <1>2, RunOfOne DEF c
    <3>7. 0 \in 0 .. (state.expected - 1) /\ s # None
      BY <1>8, <1>2, NoneAssumption
    <3> QED BY <2>3, <2>6, <3>1, <3>4, <3>6, <3>7 DEF c
  <2>7. CASE d = c /\ state.socket = start.socket /\ state.expected # start.expected
    <3>1. state.socket = s /\ cidTcpSocketMap[c] = s
      BY <2>7, <1>6, <1>2, <1>8 DEF Follows
    <3>2. \A i \in DOMAIN start.pending : start.pending[i].socket[1] # c
      BY <3>1, <2>1, <2>7, <1>6, <1>11 DEF Run, OnceEach
    <3>3. last = start.expected - 1
      <4> SUFFICES ASSUME last < start.expected - 1 PROVE FALSE
        BY <2>1, <2>7, <1>6, <1>8
      <4>1. last + 1 \in (last + 1) .. (start.expected - 1)
        BY <2>1, <1>8
      <4> QED BY <4>1, <3>2, <2>1, <2>7, <1>6 DEF Run, OnceEach
    <3>4. Run(state.pending, c, s, last, state.expected - 1)
      BY <3>2, <3>3, <1>2, RunOfOne DEF c
    <3>5. last \in 0 .. (state.expected - 1) /\ s # None
      BY <3>3, <1>8, <1>2, NoneAssumption
    <3> QED BY <2>1, <2>3, <2>7, <3>1, <3>4, <3>5 DEF c
  <2> QED BY <2>4, <2>5, <2>6, <2>7
<1>13. InRound'
  <2>1. /\ \A i \in DOMAIN state.pending :
             \/ /\ i \in DOMAIN pendingClientRequests
                /\ state.pending[i] = pendingClientRequests[i]
             \/ state.pending[i].socket = s /\ state.pending[i].time = time
    BY <1>2, <1>6, FollowsParts
  <2>2. ASSUME NEW i \in DOMAIN state.pending
        PROVE  \E k \in 1 .. Len(recv_sockets_) :
                 k < visiting + 1 /\ recv_sockets_[k] = state.pending[i].socket
    <3>0. Len(recv_sockets_) \in Nat /\ visiting \in 1 .. Len(recv_sockets_)
      BY <1>2
    <3>1. CASE /\ i \in DOMAIN pendingClientRequests
               /\ state.pending[i] = pendingClientRequests[i]
      <4>1. PICK k \in 1 .. Len(recv_sockets_) :
              k < visiting /\ recv_sockets_[k] = pendingClientRequests[i].socket
        BY <3>1 DEF EntryInv, InRound
      <4> QED BY <3>0, <3>1, <4>1
    <3>2. CASE state.pending[i].socket = s
      BY <3>0, <3>2, <1>s
    <3> QED BY <2>1, <3>1, <3>2
  <2>3. ASSUME NEW i \in DOMAIN state.pending, NEW j \in DOMAIN state.pending,
               state.pending[i].socket = state.pending[j].socket
        PROVE  state.pending[i].time = state.pending[j].time
    <3>1. \A k, l \in DOMAIN pendingClientRequests :
            pendingClientRequests[k].socket = pendingClientRequests[l].socket
              => pendingClientRequests[k].time = pendingClientRequests[l].time
      BY DEF EntryInv, InRound
    <3> QED BY <2>1, <2>3, <3>1, <1>11
  <2>4. visiting' # 0 /\ visiting' # Len(recv_sockets_) + 2
    BY <1>1, <1>2
  <2>5. ASSUME ~ received' PROVE state.pending = << >>
    <3>1. ~ received /\ ~ (n > 0)
      BY <2>5, <1>1, Zenon
    <3>2. n = 0 /\ pendingClientRequests = << >>
      BY <3>1 DEF EntryInv, InRound
    <3>3. \A r \in Sockets : Len(inbound_data_[r]) < 2
      BY DEF EntryInv, InRound
    <3>4. Len(inbound_data_[s]) \in Nat /\ Len(inbound_data_[s]) < 2
      BY <3>3, <1>2, LenProperties
    <3> DEFINE m == Len(inbound_data_[s])
    <3>5. Len(bytes) = m /\ m \in Nat /\ m < 2
      BY <3>2, <3>4, <1>2
    <3> HIDE DEF m
    <3>6. Len(bytes) \div 2 = 0
      <4>1. m \div 2 = 0
        BY <3>5, Halving
      <4> QED BY <3>5, <4>1
    <3> QED BY <3>2, <3>6, <1>2, <1>6
  <2>6. \A r \in Sockets : Len(inbound_data_'[r]) < 2
    <3>1. Len(Remainder(bytes)) < 2
      BY <1>2, RemainderType
    <3> QED BY <3>1, <1>1, <1>b DEF EntryInv, EntryTypeOK, InRound
  <2> QED BY <1>1, <2>2, <2>3, <2>4, <2>5, <2>6 DEF InRound
<1> QED BY <1>12, <1>13, VisitBase DEF EntryInv

-----------------------------------------------------------------------------
\* A round goes on.

\* The sort has the requests it is given and no others.
LEMMA SortedType ==
  ASSUME NEW batch \in Seq(Request), NEW sorted \in Sorted(batch)
  PROVE  /\ sorted \in Seq(Request)
         /\ \A i \in DOMAIN sorted : \E j \in DOMAIN batch : sorted[i] = batch[j]
<1> DEFINE n == Len(batch)
<1>1. n \in Nat /\ DOMAIN batch = 1 .. n /\ \A i \in 1 .. n : batch[i] \in Request
  BY LenProperties, Elements
<1>2. PICK p \in [DOMAIN batch -> DOMAIN batch] : sorted = [i \in DOMAIN batch |-> batch[p[i]]]
  BY DEF Sorted
<1>3. sorted \in [1 .. n -> Request]
  BY <1>1, <1>2
<1> QED BY <1>1, <1>2, <1>3

\* It gives every request a place.
LEMMA SortedPlaces ==
  ASSUME NEW batch \in Seq(Request), NEW sorted \in Sorted(batch)
  PROVE  LET n == Len(batch)
         IN /\ n \in Nat /\ DOMAIN batch = 1 .. n /\ DOMAIN sorted = 1 .. n
            /\ \A i \in 1 .. n : batch[i] \in Request
            /\ \E p \in [1 .. n -> 1 .. n] :
                 /\ \A i \in 1 .. n : sorted[i] = batch[p[i]]
                 /\ \A i, j \in 1 .. n : i # j => p[i] # p[j]
                 /\ \A m \in 1 .. n : \E i \in 1 .. n : p[i] = m
                 /\ Len(batch) <= StableLimit =>
                      \A i, j \in 1 .. n :
                        i < j /\ batch[p[i]].time = batch[p[j]].time => p[i] < p[j]
<1> DEFINE n == Len(batch)
<1>1. n \in Nat /\ DOMAIN batch = 1 .. n /\ \A i \in 1 .. n : batch[i] \in Request
  BY LenProperties, Elements
<1>2. PICK p \in [DOMAIN batch -> DOMAIN batch] :
        /\ sorted = [i \in DOMAIN batch |-> batch[p[i]]]
        /\ \A i, j \in DOMAIN batch : i # j => p[i] # p[j]
        /\ \A i, j \in DOMAIN batch : i < j =>
             /\ batch[p[i]].time <= batch[p[j]].time
             /\ Len(batch) <= StableLimit /\ batch[p[i]].time = batch[p[j]].time
                  => p[i] < p[j]
  BY DEF Sorted
<1>3. /\ p \in [1 .. n -> 1 .. n]
      /\ DOMAIN sorted = 1 .. n
      /\ \A i \in 1 .. n : sorted[i] = batch[p[i]]
      /\ \A i, j \in 1 .. n : i # j => p[i] # p[j]
  BY <1>1, <1>2
<1>5. \A m \in 1 .. n : \E i \in 1 .. n : p[i] = m
  <2>1. p \in Injection(1 .. n, 1 .. n)
    BY <1>1, <1>2, <1>3 DEF Injection, IsInjective
  <2>2. IsFiniteSet(1 .. n)
    BY <1>1, FS_Interval
  <2>3. p \in Surjection(1 .. n, 1 .. n)
    BY <2>1, <2>2, FS_Injection
  <2> QED BY <2>3 DEF Surjection
<1>6. Len(batch) <= StableLimit =>
        \A i, j \in 1 .. n :
          i < j /\ batch[p[i]].time = batch[p[j]].time => p[i] < p[j]
  BY <1>1, <1>2
<1> QED BY <1>1, <1>3, <1>5, <1>6

\* What is in the batch once is in it once when it is sorted.
LEMMA SortedOnce ==
  ASSUME NEW batch \in Seq(Request), NEW sorted \in Sorted(batch),
         NEW c, NEW r, NEW from \in Nat, NEW to \in Nat, OnceEach(batch, c, r, from, to)
  PROVE  OnceEach(sorted, c, r, from, to)
<1> DEFINE n == Len(batch)
<1>1. DOMAIN batch = 1 .. n /\ DOMAIN sorted = 1 .. n
  BY SortedPlaces
<1>2. PICK p \in [1 .. n -> 1 .. n] :
        /\ \A i \in 1 .. n : sorted[i] = batch[p[i]]
        /\ \A i, j \in 1 .. n : i # j => p[i] # p[j]
        /\ \A m \in 1 .. n : \E i \in 1 .. n : p[i] = m
        /\ Len(batch) <= StableLimit =>
             \A i, j \in 1 .. n :
               i < j /\ batch[p[i]].time = batch[p[j]].time => p[i] < p[j]
  BY SortedPlaces, Zenon
<1> HIDE DEF n
<1>3. /\ \A i \in 1 .. n :
           batch[i].socket[1] = c => /\ batch[i].socket = r
                                     /\ from < batch[i].number
                                     /\ batch[i].number <= to
      /\ \A i, j \in 1 .. n :
           i # j /\ batch[i].socket[1] = c /\ batch[j].socket[1] = c
             => batch[i].number # batch[j].number
      /\ \A m \in (from + 1) .. to :
           \E i \in 1 .. n : batch[i].socket[1] = c /\ batch[i].number = m
  BY <1>1 DEF OnceEach
<1>4. ASSUME NEW i \in 1 .. n, sorted[i].socket[1] = c
      PROVE  /\ sorted[i].socket = r
             /\ from < sorted[i].number /\ sorted[i].number <= to
  <2>1. p[i] \in 1 .. n /\ sorted[i] = batch[p[i]]
    BY <1>2
  <2> QED BY <2>1, <1>3, <1>4
<1>5. ASSUME NEW i \in 1 .. n, NEW j \in 1 .. n, i # j,
             sorted[i].socket[1] = c, sorted[j].socket[1] = c
      PROVE  sorted[i].number # sorted[j].number
  <2>1. /\ p[i] \in 1 .. n /\ sorted[i] = batch[p[i]]
        /\ p[j] \in 1 .. n /\ sorted[j] = batch[p[j]]
        /\ p[i] # p[j]
    BY <1>2, <1>5
  <2> QED BY <2>1, <1>3, <1>5
<1>6. ASSUME NEW m \in (from + 1) .. to
      PROVE  \E i \in 1 .. n : sorted[i].socket[1] = c /\ sorted[i].number = m
  <2>1. PICK k \in 1 .. n : batch[k].socket[1] = c /\ batch[k].number = m
    BY <1>3
  <2>2. PICK i \in 1 .. n : p[i] = k
    BY <1>2
  <2> QED BY <2>1, <2>2, <1>2
<1> QED BY <1>1, <1>4, <1>5, <1>6 DEF OnceEach

\* A batch that is short enough it leaves in the order of each client, whose
\* requests have one time.
LEMMA SortedOrdered ==
  ASSUME NEW batch \in Seq(Request), Len(batch) <= StableLimit,
         \A i, j \in DOMAIN batch :
           batch[i].socket = batch[j].socket => batch[i].time = batch[j].time,
         NEW sorted \in Sorted(batch),
         NEW c, NEW r, NEW from \in Nat, NEW to \in Nat, Run(batch, c, r, from, to)
  PROVE  Ordered(sorted, c)
<1> DEFINE n == Len(batch)
<1>1. DOMAIN batch = 1 .. n /\ DOMAIN sorted = 1 .. n
  BY SortedPlaces
<1>2. PICK p \in [1 .. n -> 1 .. n] :
        /\ \A i \in 1 .. n : sorted[i] = batch[p[i]]
        /\ \A i, j \in 1 .. n :
             i < j /\ batch[p[i]].time = batch[p[j]].time => p[i] < p[j]
  BY SortedPlaces
<1> HIDE DEF n
<1>3. /\ \A i \in 1 .. n : batch[i].socket[1] = c => batch[i].socket = r
      /\ \A i, j \in 1 .. n :
           i < j /\ batch[i].socket[1] = c /\ batch[j].socket[1] = c
             => batch[i].number < batch[j].number
  BY <1>1 DEF Run, OnceEach, Ordered
<1>4. ASSUME NEW i \in 1 .. n, NEW j \in 1 .. n, i < j,
             sorted[i].socket[1] = c, sorted[j].socket[1] = c
      PROVE  sorted[i].number < sorted[j].number
  <2>1. p[i] \in 1 .. n /\ p[j] \in 1 .. n
    BY <1>2
  <2>2. batch[p[i]].socket = r /\ batch[p[j]].socket = r
    BY <1>2, <1>3, <1>4, <2>1
  <2>3. batch[p[i]].time = batch[p[j]].time
    BY <1>1, <2>1, <2>2
  <2>4. p[i] < p[j]
    BY <1>2, <1>4, <2>3
  <2> QED BY <1>2, <1>3, <1>4, <2>1, <2>4
<1> QED BY <1>1, <1>4 DEF Ordered

\* A list and what goes on where it ends.
LEMMA OnceJoined ==
  ASSUME NEW S, NEW a \in Seq(S), NEW b \in Seq(S), NEW c, NEW r,
         NEW from \in Nat, NEW mid \in Nat, NEW to \in Nat, from <= mid, mid <= to,
         \A x \in S : x.number \in Nat,
         OnceEach(a, c, r, from, mid), OnceEach(b, c, r, mid, to)
  PROVE  OnceEach(a \o b, c, r, from, to)
<1> DEFINE m == Len(a)
           n == Len(b)
           whole == a \o b
<1>1. /\ m \in Nat /\ n \in Nat
      /\ DOMAIN a = 1 .. m /\ DOMAIN b = 1 .. n /\ DOMAIN whole = 1 .. (m + n)
      /\ \A i \in 1 .. (m + n) : whole[i] = IF i <= m THEN a[i] ELSE b[i - m]
  BY LenProperties, ConcatProperties
<1>2. \A i \in 1 .. m : a[i].number \in Nat
  BY Elements
<1>3. \A i \in 1 .. n : b[i].number \in Nat
  BY Elements
<1> HIDE DEF m, n, whole
<1>4. ASSUME NEW i \in 1 .. (m + n)
      PROVE  \/ i \in 1 .. m /\ whole[i] = a[i]
             \/ m < i /\ i - m \in 1 .. n /\ whole[i] = b[i - m]
  BY <1>1
<1>5. /\ \A i \in 1 .. m : a[i].socket[1] = c =>
           a[i].socket = r /\ from < a[i].number /\ a[i].number <= mid
      /\ \A i, j \in 1 .. m : i # j /\ a[i].socket[1] = c /\ a[j].socket[1] = c
           => a[i].number # a[j].number
      /\ \A k \in (from + 1) .. mid :
           \E i \in 1 .. m : a[i].socket[1] = c /\ a[i].number = k
  BY <1>1 DEF OnceEach
<1>6. /\ \A i \in 1 .. n : b[i].socket[1] = c =>
           b[i].socket = r /\ mid < b[i].number /\ b[i].number <= to
      /\ \A i, j \in 1 .. n : i # j /\ b[i].socket[1] = c /\ b[j].socket[1] = c
           => b[i].number # b[j].number
      /\ \A k \in (mid + 1) .. to :
           \E i \in 1 .. n : b[i].socket[1] = c /\ b[i].number = k
  BY <1>1 DEF OnceEach
<1>7. ASSUME NEW i \in 1 .. (m + n), whole[i].socket[1] = c
      PROVE  whole[i].socket = r /\ from < whole[i].number /\ whole[i].number <= to
  <2>1. CASE i \in 1 .. m /\ whole[i] = a[i]
    BY <2>1, <1>2, <1>5, <1>7
  <2>2. CASE i - m \in 1 .. n /\ whole[i] = b[i - m]
    BY <2>2, <1>3, <1>6, <1>7
  <2> QED BY <2>1, <2>2, <1>4
<1>8. ASSUME NEW i \in 1 .. (m + n), NEW j \in 1 .. (m + n), i # j,
             whole[i].socket[1] = c, whole[j].socket[1] = c
      PROVE  whole[i].number # whole[j].number
  <2>1. CASE i \in 1 .. m /\ whole[i] = a[i] /\ j \in 1 .. m /\ whole[j] = a[j]
    BY <2>1, <1>5, <1>8
  <2>2. CASE i \in 1 .. m /\ whole[i] = a[i] /\ j - m \in 1 .. n /\ whole[j] = b[j - m]
    <3>1. a[i].number \in Nat /\ b[j - m].number \in Nat
      BY <2>2, <1>2, <1>3
    <3>2. a[i].number <= mid /\ mid < b[j - m].number
      BY <2>2, <1>5, <1>6, <1>8
    <3>3. a[i].number # b[j - m].number
      BY <3>1, <3>2
    <3> QED BY <2>2, <3>3
  <2>3. CASE j \in 1 .. m /\ whole[j] = a[j] /\ i - m \in 1 .. n /\ whole[i] = b[i - m]
    <3>1. a[j].number \in Nat /\ b[i - m].number \in Nat
      BY <2>3, <1>2, <1>3
    <3>2. a[j].number <= mid /\ mid < b[i - m].number
      BY <2>3, <1>5, <1>6, <1>8
    <3>3. a[j].number # b[i - m].number
      BY <3>1, <3>2
    <3> QED BY <2>3, <3>3
  <2>4. CASE /\ i - m \in 1 .. n /\ whole[i] = b[i - m]
             /\ j - m \in 1 .. n /\ whole[j] = b[j - m]
    <3>1. i - m # j - m
      BY <1>1, <1>8
    <3> QED BY <2>4, <3>1, <1>6, <1>8, SMTT(30)
  <2> QED BY <2>1, <2>2, <2>3, <2>4, <1>4
<1>9. ASSUME NEW k \in (from + 1) .. to
      PROVE  \E i \in 1 .. (m + n) : whole[i].socket[1] = c /\ whole[i].number = k
  <2>1. CASE k <= mid
    <3>1. k \in (from + 1) .. mid
      BY <2>1
    <3>2. PICK i \in 1 .. m : a[i].socket[1] = c /\ a[i].number = k
      BY <3>1, <1>5
    <3>3. i \in 1 .. (m + n) /\ whole[i] = a[i]
      BY <1>1
    <3> QED BY <3>2, <3>3
  <2>2. CASE ~ (k <= mid)
    <3>1. k \in (mid + 1) .. to
      BY <2>2
    <3>2. PICK i \in 1 .. n : b[i].socket[1] = c /\ b[i].number = k
      BY <3>1, <1>6
    <3>3. m + i \in 1 .. (m + n) /\ whole[m + i] = b[i]
      <4>1. m + i \in 1 .. (m + n) /\ ~ (m + i <= m) /\ (m + i) - m = i
        BY <1>1
      <4> QED BY <4>1, <1>1
    <3> QED BY <3>2, <3>3
  <2> QED BY <2>1, <2>2
<1> QED BY <1>1, <1>7, <1>8, <1>9 DEF OnceEach, whole

\* If both are in order, so is the whole.
LEMMA OrderedJoined ==
  ASSUME NEW S, NEW a \in Seq(S), NEW b \in Seq(S), NEW c, NEW r,
         NEW from \in Nat, NEW mid \in Nat, NEW to \in Nat,
         \A x \in S : x.number \in Nat,
         OnceEach(a, c, r, from, mid), OnceEach(b, c, r, mid, to),
         Ordered(a, c), Ordered(b, c)
  PROVE  Ordered(a \o b, c)
<1> DEFINE m == Len(a)
           n == Len(b)
           whole == a \o b
<1>1. /\ m \in Nat /\ n \in Nat
      /\ DOMAIN a = 1 .. m /\ DOMAIN b = 1 .. n /\ DOMAIN whole = 1 .. (m + n)
      /\ \A i \in 1 .. (m + n) : whole[i] = IF i <= m THEN a[i] ELSE b[i - m]
  BY LenProperties, ConcatProperties
<1>2. \A i \in 1 .. m : a[i].number \in Nat
  BY Elements
<1>3. \A i \in 1 .. n : b[i].number \in Nat
  BY Elements
<1> HIDE DEF m, n, whole
<1>4. ASSUME NEW i \in 1 .. (m + n)
      PROVE  \/ i \in 1 .. m /\ whole[i] = a[i]
             \/ m < i /\ i - m \in 1 .. n /\ whole[i] = b[i - m]
  BY <1>1
<1>5. /\ \A i \in 1 .. m : a[i].socket[1] = c => a[i].number <= mid
      /\ \A i, j \in 1 .. m : i < j /\ a[i].socket[1] = c /\ a[j].socket[1] = c
           => a[i].number < a[j].number
  BY <1>1 DEF OnceEach, Ordered
<1>6. /\ \A i \in 1 .. n : b[i].socket[1] = c => mid < b[i].number
      /\ \A i, j \in 1 .. n : i < j /\ b[i].socket[1] = c /\ b[j].socket[1] = c
           => b[i].number < b[j].number
  BY <1>1 DEF OnceEach, Ordered
<1>8. ASSUME NEW i \in 1 .. (m + n), NEW j \in 1 .. (m + n), i < j,
             whole[i].socket[1] = c, whole[j].socket[1] = c
      PROVE  whole[i].number < whole[j].number
  <2>1. CASE i \in 1 .. m /\ whole[i] = a[i] /\ j \in 1 .. m /\ whole[j] = a[j]
    BY <2>1, <1>5, <1>8
  <2>2. CASE i \in 1 .. m /\ whole[i] = a[i] /\ j - m \in 1 .. n /\ whole[j] = b[j - m]
    <3>1. a[i].number \in Nat /\ b[j - m].number \in Nat
      BY <2>2, <1>2, <1>3
    <3>2. a[i].number <= mid
      BY <2>2, <1>5, <1>8
    <3>3. mid < b[j - m].number
      BY <2>2, <1>6, <1>8
    <3>4. a[i].number < b[j - m].number
      BY <3>1, <3>2, <3>3
    <3> QED BY <2>2, <3>4
  <2>3. CASE /\ i - m \in 1 .. n /\ whole[i] = b[i - m]
             /\ j - m \in 1 .. n /\ whole[j] = b[j - m]
    <3>1. i - m < j - m
      BY <1>1, <1>8
    <3> QED BY <2>3, <3>1, <1>6, <1>8, SMTT(30)
  <2>4. ~ (m < i /\ j \in 1 .. m)
    BY <1>1, <1>8
  <2> QED BY <2>1, <2>2, <2>3, <2>4, <1>4
<1> QED BY <1>1, <1>8 DEF Ordered, whole

\* What goes on to the matching engine of a batch.
Outgoing == [socket : Sockets, number : Nat]
Publishable(q) == [i \in DOMAIN q |-> [socket |-> q[i].socket, number |-> q[i].number]]

LEMMA PublishableType ==
  ASSUME NEW q \in Seq(Request)
  PROVE  /\ Publishable(q) \in Seq(Outgoing)
         /\ DOMAIN Publishable(q) = DOMAIN q
         /\ \A i \in DOMAIN q : /\ Publishable(q)[i].socket = q[i].socket
                                /\ Publishable(q)[i].number = q[i].number
<1>1. /\ Len(q) \in Nat /\ DOMAIN q = 1 .. Len(q)
      /\ \A i \in 1 .. Len(q) : q[i] \in Request
  BY LenProperties, Elements
<1>2. \A i \in 1 .. Len(q) : [socket |-> q[i].socket, number |-> q[i].number] \in Outgoing
  BY <1>1 DEF Request, Outgoing
<1>3. Publishable(q) \in [1 .. Len(q) -> Outgoing]
  BY <1>1, <1>2 DEF Publishable
<1>4. Publishable(q) \in Seq(Outgoing)
  BY <1>1, <1>3
<1> QED BY <1>4 DEF Publishable

LEMMA PublishAssigns ==
  ASSUME EntryTypeOK, SequenceAndPublish
  PROVE  /\ visiting = Len(recv_sockets_) + 1 /\ visiting' = visiting + 1
         /\ pendingClientRequests' = IF received THEN << >> ELSE pendingClientRequests
         /\ UNCHANGED <<connection, next_outgoing_seq_num_, outbound, toExchange, backlog,
                        recv_sockets_, received, inbound_data_, cidTcpSocketMap,
                        cidNextExpSeqNum>>
         /\ \E sorted \in Sorted(pendingClientRequests) :
              published' = IF received THEN published \o Publishable(sorted) ELSE published
         /\ pendingClientRequests \in Seq(Request) /\ published \in Seq(Outgoing)
  BY DEF SequenceAndPublish, clientVars, wire, EntryTypeOK, Publishable, Outgoing

LEMMA PublishBase ==
  ASSUME EntryBase, SequenceAndPublish
  PROVE  EntryBase'
<1>b. EntryTypeOK /\ Connections /\ Served
  BY DEF EntryBase
<1>1. /\ visiting = Len(recv_sockets_) + 1 /\ visiting' = visiting + 1
      /\ pendingClientRequests' = IF received THEN << >> ELSE pendingClientRequests
      /\ UNCHANGED <<connection, next_outgoing_seq_num_, outbound, toExchange, backlog,
                     recv_sockets_, received, inbound_data_, cidTcpSocketMap,
                     cidNextExpSeqNum>>
      /\ pendingClientRequests \in Seq(Request) /\ published \in Seq(Outgoing)
  BY <1>b, PublishAssigns
<1>2. PICK sorted \in Sorted(pendingClientRequests) :
        published' = IF received THEN published \o Publishable(sorted) ELSE published
  BY <1>b, PublishAssigns
<1>3. /\ sorted \in Seq(Request)
      /\ \A i \in DOMAIN sorted : \E j \in DOMAIN pendingClientRequests :
           sorted[i] = pendingClientRequests[j]
  BY <1>1, SortedType
<1> DEFINE more == Publishable(sorted)
<1>4. /\ more \in Seq(Outgoing) /\ DOMAIN more = DOMAIN sorted
      /\ \A i \in DOMAIN sorted : more[i].socket = sorted[i].socket
  BY <1>3, PublishableType
<1>p. published' = IF received THEN published \o more ELSE published
  BY <1>2
<1> HIDE DEF more
<1>5. published' \in Seq(Outgoing)
  BY <1>1, <1>p, <1>4, ConcatProperties
<1>6. EntryTypeOK'
  <2>1. visiting' \in 0 .. (Len(recv_sockets_) + 2)
    BY <1>1, <1>b, LenProperties DEF EntryTypeOK
  <2>2. << >> \in Seq(Request)
    OBVIOUS
  <2>3. pendingClientRequests' \in Seq(Request)
    BY <1>1, <2>2
  <2> QED BY <1>1, <1>b, <1>5, <2>1, <2>3 DEF EntryTypeOK, Outgoing
<1>7. Served'
  <2> SUFFICES ASSUME NEW c \in Clients, cidTcpSocketMap[c] = None
               PROVE  /\ \A i \in DOMAIN published' : published'[i].socket[1] # c
                      /\ \A i \in DOMAIN pendingClientRequests' :
                           pendingClientRequests'[i].socket[1] # c
    BY <1>1, <1>b DEF Served
  <2>1. /\ \A i \in DOMAIN published : published[i].socket[1] # c
        /\ \A i \in DOMAIN pendingClientRequests : pendingClientRequests[i].socket[1] # c
    BY <1>b DEF Served
  <2>2. \A i \in DOMAIN more : more[i].socket[1] # c
    BY <2>1, <1>3, <1>4
  <2>3. \A i \in DOMAIN (published \o more) : (published \o more)[i].socket[1] # c
    <3>1. /\ Len(published) \in Nat /\ Len(more) \in Nat
          /\ DOMAIN published = 1 .. Len(published) /\ DOMAIN more = 1 .. Len(more)
          /\ DOMAIN (published \o more) = 1 .. (Len(published) + Len(more))
          /\ \A i \in 1 .. (Len(published) + Len(more)) : (published \o more)[i] =
               IF i <= Len(published) THEN published[i] ELSE more[i - Len(published)]
      BY <1>1, <1>4, LenProperties, ConcatProperties
    <3> QED BY <3>1, <2>1, <2>2
  <2>4. pendingClientRequests' = << >> \/ pendingClientRequests' = pendingClientRequests
    BY <1>1
  <2>5. published' = published \o more \/ published' = published
    BY <1>p
  <2>6. \A i \in DOMAIN published' : published'[i].socket[1] # c
    BY <2>1, <2>3, <2>5
  <2>7. \A i \in DOMAIN pendingClientRequests' : pendingClientRequests'[i].socket[1] # c
    BY <2>1, <2>4
  <2> QED BY <2>6, <2>7
<1> QED BY <1>1, <1>b, <1>6, <1>7, ConnectionsKept DEF EntryBase

\* What a round adds are the next requests of a client, each once, and in their
\* order if the round is short enough.
LEMMA PublishAdds ==
  ASSUME EntryInv, SequenceAndPublish, NEW c \in Clients
  PROVE  \E more \in Seq(Outgoing), last \in 0 .. (cidNextExpSeqNum[c] - 1) :
           /\ published' = published \o more
           /\ OnceEach(published, c, cidTcpSocketMap[c], 0, last)
           /\ OnceEach(more, c, cidTcpSocketMap[c], last, cidNextExpSeqNum[c] - 1)
           /\ Len(pendingClientRequests) <= StableLimit => Ordered(more, c)
<1>b. EntryTypeOK
  BY DEF EntryInv, EntryBase
<1> DEFINE r == cidTcpSocketMap[c]
           to == cidNextExpSeqNum[c] - 1
<1>1. pendingClientRequests \in Seq(Request) /\ published \in Seq(Outgoing)
  BY <1>b, PublishAssigns
<1>2. PICK sorted \in Sorted(pendingClientRequests) :
        published' = IF received THEN published \o Publishable(sorted) ELSE published
  BY <1>b, PublishAssigns
<1>3. PICK last \in 0 .. to :
        /\ OnceEach(published, c, r, 0, last)
        /\ Run(pendingClientRequests, c, r, last, to)
  BY DEF EntryInv, Numbered
<1>4. to \in Nat /\ last \in Nat /\ last <= to
  BY <1>3, <1>b DEF EntryTypeOK
<1>5. \A i, j \in DOMAIN pendingClientRequests :
        pendingClientRequests[i].socket = pendingClientRequests[j].socket
          => pendingClientRequests[i].time = pendingClientRequests[j].time
  BY DEF EntryInv, InRound
<1> HIDE DEF r, to
<1>6. CASE received
  <2> DEFINE more == Publishable(sorted)
  <2>1. OnceEach(pendingClientRequests, c, r, last, to)
    BY <1>3 DEF Run
  <2>2. OnceEach(sorted, c, r, last, to)
    BY <2>1, <1>1, <1>4, SortedOnce
  <2>3. Len(pendingClientRequests) <= StableLimit => Ordered(sorted, c)
    BY <1>1, <1>3, <1>4, <1>5, SortedOrdered
  <2>4. sorted \in Seq(Request)
    BY <1>1, SortedType
  <2>5. /\ more \in Seq(Outgoing) /\ DOMAIN more = DOMAIN sorted
        /\ \A i \in DOMAIN sorted : /\ more[i].socket = sorted[i].socket
                                    /\ more[i].number = sorted[i].number
    BY <2>4, PublishableType
  <2>6. published' = published \o more
    BY <1>2, <1>6
  <2> HIDE DEF more
  <2>7. OnceEach(more, c, r, last, to)
    BY <2>2, <2>5 DEF OnceEach
  <2>8. Len(pendingClientRequests) <= StableLimit => Ordered(more, c)
    BY <2>3, <2>5 DEF Ordered
  <2> QED BY <1>3, <2>5, <2>6, <2>7, <2>8 DEF r, to
<1>7. CASE ~ received
  <2>1. published' = published /\ pendingClientRequests = << >>
    BY <1>2, <1>7 DEF EntryInv, InRound
  <2>2. << >> \in Seq(Outgoing) /\ published \o << >> = published
    BY <1>1, ConcatEmptySeq
  <2>3. OnceEach(<< >>, c, r, last, to) /\ Ordered(<< >>, c)
    BY <1>3, <2>1 DEF Run
  <2> QED BY <1>3, <2>1, <2>2, <2>3 DEF r, to
<1> QED BY <1>6, <1>7

LEMMA NumberIsNat == \A x \in Outgoing : x.number \in Nat
  BY DEF Outgoing

LEMMA PublishStep ==
  ASSUME EntryInv, SequenceAndPublish
  PROVE  EntryInv'
<1>b. EntryBase /\ EntryTypeOK
  BY DEF EntryInv, EntryBase
<1>1. /\ visiting = Len(recv_sockets_) + 1 /\ visiting' = visiting + 1
      /\ pendingClientRequests' = IF received THEN << >> ELSE pendingClientRequests
      /\ UNCHANGED <<recv_sockets_, received, inbound_data_, cidTcpSocketMap,
                     cidNextExpSeqNum>>
      /\ published \in Seq(Outgoing)
  BY <1>b, PublishAssigns
<1>3. pendingClientRequests' = << >>
  BY <1>1 DEF EntryInv, InRound
<1>9. Numbered'
  <2> SUFFICES ASSUME NEW c \in Clients
               PROVE  \E last \in 0 .. (cidNextExpSeqNum[c] - 1) :
                        /\ OnceEach(published', c, cidTcpSocketMap[c], 0, last)
                        /\ Run(<< >>, c, cidTcpSocketMap[c], last, cidNextExpSeqNum[c] - 1)
    BY <1>1, <1>3 DEF Numbered
  <2> DEFINE r == cidTcpSocketMap[c]
             to == cidNextExpSeqNum[c] - 1
  <2>1. PICK more \in Seq(Outgoing), last \in 0 .. to :
          /\ published' = published \o more
          /\ OnceEach(published, c, r, 0, last)
          /\ OnceEach(more, c, r, last, to)
    BY PublishAdds
  <2>3. to \in Nat /\ last \in Nat /\ last <= to
    BY <2>1, <1>b DEF EntryTypeOK
  <2> HIDE DEF r, to
  <2>4. OnceEach(published \o more, c, r, 0, to)
    BY <2>1, <2>3, <1>1, NumberIsNat, OnceJoined
  <2>5. Run(<< >>, c, r, to, to)
    BY <2>3 DEF Run, OnceEach, Ordered
  <2> QED BY <2>1, <2>3, <2>4, <2>5 DEF r, to
<1>10. InRound'
  <2>1. \A s \in Sockets : Len(inbound_data_[s]) < 2
    BY DEF EntryInv, InRound
  <2> QED BY <2>1, <1>1, <1>3 DEF InRound
<1> QED BY <1>9, <1>10, <1>b, PublishBase DEF EntryInv

\* Every step keeps the invariant: one case for each action.
LEMMA BaseStep ==
  ASSUME EntryBase, [EntryNext]_entryVars
  PROVE  EntryBase'
<1>0. EntryTypeOK
  BY DEF EntryBase
<1>1. ASSUME NEW c \in Clients, Connect(c) PROVE EntryBase'
  BY <1>1, ConnectBase
<1>2. ASSUME NEW c \in Clients, GatewaySend(c) PROVE EntryBase'
  BY <1>2, <1>0, GatewaySendQuiet, QuietBase
<1>3. ASSUME NEW c \in Clients, GatewayStep(c) PROVE EntryBase'
  BY <1>3, <1>0, GatewayReadQuiet, QuietBase
<1>4. CASE \/ \E c \in Clients : End(c) \/ AnswerClient(c)
           \/ \E s \in Sockets : Reset(s)
           \/ ForwardResponse
           \/ UNCHANGED entryVars
  BY <1>4, <1>0, OthersQuiet, QuietBase
<1>5. CASE Poll
  BY <1>5, PollBase
<1>6. ASSUME NEW n \in 0 .. 2 * MaxRequests, NEW time \in Times, Visit(n, time)
      PROVE  EntryBase'
  <2>1. n \in Nat
    BY OrderEntryAssumption
  <2> QED BY <2>1, <1>6, VisitBase
<1>7. CASE SequenceAndPublish
  BY <1>7, PublishBase
<1>8. CASE NextRound
  BY <1>8, NextRoundBase
<1> QED BY <1>1, <1>2, <1>3, <1>4, <1>5, <1>6, <1>7, <1>8 DEF EntryNext

LEMMA EntryStep ==
  ASSUME EntryInv, [EntryNext]_entryVars
  PROVE  EntryInv'
<1>0. EntryTypeOK
  BY DEF EntryInv, EntryBase
<1>1. ASSUME NEW c \in Clients, Connect(c) PROVE EntryInv'
  BY <1>1, ConnectStep
<1>2. ASSUME NEW c \in Clients, GatewaySend(c) PROVE EntryInv'
  BY <1>2, <1>0, GatewaySendQuiet, QuietStep
<1>3. ASSUME NEW c \in Clients, GatewayStep(c) PROVE EntryInv'
  BY <1>3, <1>0, GatewayReadQuiet, QuietStep
<1>4. CASE \/ \E c \in Clients : End(c) \/ AnswerClient(c)
           \/ \E s \in Sockets : Reset(s)
           \/ ForwardResponse
           \/ UNCHANGED entryVars
  BY <1>4, <1>0, OthersQuiet, QuietStep
<1>5. CASE Poll
  BY <1>5, PollStep
<1>6. ASSUME NEW n \in 0 .. 2 * MaxRequests, NEW time \in Times, Visit(n, time)
      PROVE  EntryInv'
  <2>1. n \in Nat
    BY OrderEntryAssumption
  <2> QED BY <2>1, <1>6, VisitStep
<1>7. CASE SequenceAndPublish
  BY <1>7, PublishStep
<1>8. CASE NextRound
  BY <1>8, NextRoundStep
<1> QED BY <1>1, <1>2, <1>3, <1>4, <1>5, <1>6, <1>7, <1>8 DEF EntryNext

\* In a list of the numbers from 1 on a number says how many there are so far.
SoFar(q, c, i) == Cardinality({j \in 1 .. i : q[j].socket[1] = c})

LEMMA Counted ==
  ASSUME NEW q \in Seq([socket : Sockets, number : Nat]), NEW c, NEW r, NEW to \in Nat,
         Run(q, c, r, 0, to), NEW i \in DOMAIN q, q[i].socket[1] = c
  PROVE  q[i].number = SoFar(q, c, i)
<1> DEFINE T == {j \in 1 .. i : q[j].socket[1] = c}
           n == q[i].number
           number == [j \in T |-> q[j].number]
<1>1. /\ Len(q) \in Nat /\ DOMAIN q = 1 .. Len(q)
      /\ \A j \in 1 .. Len(q) : q[j].number \in Nat
  <2>1. \A j \in DOMAIN q : q[j] \in [socket : Sockets, number : Nat]
    BY Elements
  <2> QED BY <2>1, LenProperties
<1>2. n \in Nat /\ i \in Nat /\ i <= Len(q) /\ 0 < n /\ n <= to
  BY <1>1 DEF Run, OnceEach, Ordered
<1>3. \A j \in T : /\ j \in DOMAIN q /\ j \in Nat /\ j <= i
                   /\ q[j].socket[1] = c /\ q[j].number \in Nat /\ 0 < q[j].number
  <2>1. \A j \in DOMAIN q : q[j].socket[1] = c => 0 < q[j].number
    BY DEF Run, OnceEach
  <2>2. \A j \in T : j \in 1 .. i /\ q[j].socket[1] = c
    OBVIOUS
  <2>3. \A j \in 1 .. i : j \in 1 .. Len(q) /\ j \in Nat /\ j <= i
    BY <1>1, <1>2
  <2> HIDE DEF T, n
  <2> QED BY <2>1, <2>2, <2>3, <1>1
<1>4. \A j, k \in DOMAIN q :
        j < k /\ q[j].socket[1] = c /\ q[k].socket[1] = c => q[j].number < q[k].number
  BY DEF Run, OnceEach, Ordered
<1>5. \A m \in 1 .. to : \E j \in DOMAIN q : q[j].socket[1] = c /\ q[j].number = m
  BY DEF Run, OnceEach, Ordered
<1>6. i \in T
  BY <1>2
<1>7. ASSUME NEW j \in T PROVE q[j].number \in 1 .. n
  <2>1. CASE j = i
    BY <2>1, <1>2
  <2>2. CASE j # i
    <3>1. j < i
      BY <2>2, <1>3, <1>2
    <3> QED BY <3>1, <1>2, <1>3, <1>4
  <2> QED BY <2>1, <2>2
<1>8. ASSUME NEW j \in T, NEW k \in T, q[j].number = q[k].number PROVE j = k
  <2>1. ~ (j < k) /\ ~ (k < j)
    BY <1>3, <1>4, <1>8
  <2> QED BY <2>1, <1>3
<1>9. ASSUME NEW m \in 1 .. n PROVE \E j \in T : q[j].number = m
  <2>1. PICK j \in DOMAIN q : q[j].socket[1] = c /\ q[j].number = m
    BY <1>2, <1>5
  <2>2. ~ (i < j)
    BY <2>1, <1>2, <1>4
  <2>3. j \in T
    BY <2>1, <2>2, <1>1, <1>2
  <2> QED BY <2>1, <2>3
<1> HIDE DEF T, n
<1>10. number \in Bijection(T, 1 .. n)
  BY <1>7, <1>8, <1>9 DEF Bijection, Injection, Surjection, IsInjective
<1>11. IsFiniteSet(1 .. n) /\ Cardinality(1 .. n) = n
  <2>1. n \in Nat /\ n \in Int /\ 1 \in Int /\ (1 > n => n = 0)
    BY <1>2
  <2>2. n - 1 + 1 = n
    BY <2>1
  <2> QED BY <2>1, <2>2, FS_Interval
<1>12. Cardinality(T) = n
  <2>1. number \in Injection(T, 1 .. n) /\ number \in Surjection(T, 1 .. n)
    BY <1>10 DEF Bijection
  <2> QED BY <2>1, <1>11, FS_Injection
<1> QED BY <1>12 DEF T, n, SoFar

\* There are as many requests of a client as the last one's number says.
LEMMA AllCounted ==
  ASSUME NEW q \in Seq(Outgoing), NEW c, NEW r, NEW to \in Nat, OnceEach(q, c, r, 0, to)
  PROVE  Cardinality(RequestsOf(c, q)) = to
<1> DEFINE T == RequestsOf(c, q)
           number == [j \in T |-> q[j].number]
<1>1. \A j \in T : j \in DOMAIN q /\ q[j].socket[1] = c /\ q[j].number \in Nat
  BY Elements, NumberIsNat DEF RequestsOf
<1>2. \A j \in T : q[j].number \in 1 .. to
  BY <1>1 DEF OnceEach
<1>3. \A j, k \in T : q[j].number = q[k].number => j = k
  BY <1>1 DEF OnceEach
<1>4. \A m \in 1 .. to : \E j \in T : q[j].number = m
  BY DEF OnceEach, RequestsOf
<1> HIDE DEF T
<1>5. number \in Injection(T, 1 .. to) /\ number \in Surjection(T, 1 .. to)
  BY <1>2, <1>3, <1>4 DEF Injection, Surjection, IsInjective
<1>6. IsFiniteSet(1 .. to) /\ Cardinality(1 .. to) = to
  BY FS_Interval
<1> QED BY <1>5, <1>6, FS_Injection DEF T

\* The requests a round adds, as RoundsInOrder sees them.
LEMMA RoundAdds ==
  ASSUME NEW a \in Seq(Outgoing), NEW b \in Seq(Outgoing), NEW c, NEW r,
         NEW from \in Nat, NEW to \in Nat, OnceEach(b, c, r, from, to)
  PROVE  LET whole == a \o b
             round == RequestsOf(c, whole) \ DOMAIN a
         IN /\ {whole[i].number : i \in round} = (from + 1) .. to
            /\ \A i \in round : whole[i].socket = r
            /\ Ordered(b, c) =>
                 \A i, j \in round : i < j => whole[i].number < whole[j].number
<1> DEFINE m == Len(a)
           n == Len(b)
           whole == a \o b
           round == RequestsOf(c, whole) \ DOMAIN a
<1>1. /\ m \in Nat /\ n \in Nat
      /\ DOMAIN a = 1 .. m /\ DOMAIN b = 1 .. n /\ DOMAIN whole = 1 .. (m + n)
      /\ \A i \in 1 .. (m + n) : whole[i] = IF i <= m THEN a[i] ELSE b[i - m]
  BY LenProperties, ConcatProperties
<1>2. \A i \in 1 .. n : b[i].number \in Nat
  BY <1>1, Elements, NumberIsNat
<1> HIDE DEF m, n, whole
<1>3. ASSUME NEW i \in round
      PROVE  /\ i \in 1 .. (m + n) /\ i - m \in 1 .. n /\ whole[i] = b[i - m]
             /\ b[i - m].socket[1] = c
  <2>1. i \in 1 .. (m + n) /\ ~ (i \in 1 .. m) /\ whole[i].socket[1] = c
    BY <1>1 DEF RequestsOf
  <2>2. i - m \in 1 .. n /\ ~ (i <= m)
    BY <2>1, <1>1
  <2>3. whole[i] = b[i - m]
    BY <2>1, <2>2, <1>1
  <2> QED BY <2>1, <2>2, <2>3
<1>4. ASSUME NEW k \in 1 .. n, b[k].socket[1] = c
      PROVE  m + k \in round /\ whole[m + k] = b[k]
  <2>1. m + k \in 1 .. (m + n) /\ ~ (m + k <= m) /\ (m + k) - m = k
    BY <1>1
  <2>2. whole[m + k] = b[k]
    BY <2>1, <1>1
  <2> QED BY <2>1, <2>2, <1>1, <1>4 DEF RequestsOf
<1> HIDE DEF round
<1>5. /\ \A i \in 1 .. n : b[i].socket[1] = c =>
           b[i].socket = r /\ from < b[i].number /\ b[i].number <= to
      /\ \A k \in (from + 1) .. to :
           \E i \in 1 .. n : b[i].socket[1] = c /\ b[i].number = k
  BY <1>1 DEF OnceEach
<1>6. ASSUME NEW i \in round
      PROVE  whole[i].socket = r /\ whole[i].number \in (from + 1) .. to
  <2>1. /\ i - m \in 1 .. n /\ whole[i] = b[i - m] /\ b[i - m].socket[1] = c
    BY <1>3
  <2>2. b[i - m].socket = r /\ b[i - m].number \in Nat
        /\ from < b[i - m].number /\ b[i - m].number <= to
    BY <2>1, <1>2, <1>5
  <2>3. b[i - m].number \in (from + 1) .. to
    BY <2>2
  <2> QED BY <2>1, <2>2, <2>3
<1>7. ASSUME NEW k \in (from + 1) .. to PROVE \E i \in round : whole[i].number = k
  <2>1. PICK i \in 1 .. n : b[i].socket[1] = c /\ b[i].number = k
    BY <1>5
  <2> QED BY <2>1, <1>4
<1>8. ASSUME Ordered(b, c), NEW i \in round, NEW j \in round, i < j
      PROVE  whole[i].number < whole[j].number
  <2>1. i - m < j - m
    BY <1>1, <1>3, <1>8
  <2>2. b[i - m].number < b[j - m].number
    BY <2>1, <1>1, <1>3, <1>8 DEF Ordered
  <2> QED BY <2>2, <1>3
<1> QED BY <1>6, <1>7, <1>8 DEF round, whole

\* What one step does to the requests of a client that have gone on.
RoundOf(c) ==
  LET before == Cardinality(RequestsOf(c, published))
      after == Cardinality(RequestsOf(c, published'))
      round == RequestsOf(c, published') \ DOMAIN published
  IN /\ {published'[i].number : i \in round} = (before + 1) .. after
     /\ \A i \in round : published'[i].socket = cidTcpSocketMap[c]
     /\ Len(pendingClientRequests) <= StableLimit =>
          \A i, j \in round : i < j => published'[i].number < published'[j].number

LEMMA OthersPublishNothing ==
  ASSUME [EntryNext]_entryVars, ~ SequenceAndPublish
  PROVE  published' = published
<1>1. CASE \/ \E c \in Clients : \/ Connect(c) \/ End(c) \/ GatewaySend(c)
                               \/ GatewayStep(c) \/ AnswerClient(c)
           \/ \E s \in Sockets : Reset(s)
           \/ Poll \/ ForwardResponse \/ NextRound \/ UNCHANGED entryVars
  BY <1>1 DEF Connect, End, GatewaySend, GatewayStep, GatewaySendAndRecv, AnswerClient,
              Reset, Poll, ForwardResponse, NextRound, entryVars, matchingVars
<1>2. ASSUME NEW n \in 0 .. 2 * MaxRequests, NEW time \in Times, Visit(n, time)
      PROVE  published' = published
  BY <1>2 DEF Visit, matchingVars
<1> QED BY <1>1, <1>2 DEF EntryNext

LEMMA RoundStep ==
  ASSUME EntryInv, [EntryNext]_entryVars, NEW c \in Clients
  PROVE  RoundOf(c)
<1> DEFINE r == cidTcpSocketMap[c]
           to == cidNextExpSeqNum[c] - 1
<1>1. published \in Seq(Outgoing) /\ to \in Nat
  BY DEF EntryInv, EntryBase, EntryTypeOK, Outgoing
<1>2. CASE SequenceAndPublish
  <2>1. PICK more \in Seq(Outgoing), last \in 0 .. to :
          /\ published' = published \o more
          /\ OnceEach(published, c, r, 0, last)
          /\ OnceEach(more, c, r, last, to)
          /\ Len(pendingClientRequests) <= StableLimit => Ordered(more, c)
    BY <1>2, PublishAdds
  <2>2. to \in Nat /\ last \in Nat /\ last <= to
    BY <2>1, <1>1
  <2> HIDE DEF r, to
  <2>3. published \o more \in Seq(Outgoing)
    BY <1>1, ConcatProperties
  <2>4. OnceEach(published \o more, c, r, 0, to)
    BY <2>1, <2>2, <1>1, NumberIsNat, OnceJoined
  <2>5. Cardinality(RequestsOf(c, published)) = last
    BY <2>1, <2>2, <1>1, AllCounted
  <2>6. Cardinality(RequestsOf(c, published')) = to
    BY <2>1, <2>2, <2>3, <2>4, AllCounted
  <2> DEFINE round == RequestsOf(c, published') \ DOMAIN published
  <2>7. /\ {published'[i].number : i \in round} = (last + 1) .. to
        /\ \A i \in round : published'[i].socket = r
        /\ Ordered(more, c) =>
             \A i, j \in round : i < j => published'[i].number < published'[j].number
    <3> DEFINE whole == published \o more
    <3>1. /\ {whole[i].number : i \in RequestsOf(c, whole) \ DOMAIN published}
               = (last + 1) .. to
          /\ \A i \in RequestsOf(c, whole) \ DOMAIN published : whole[i].socket = r
          /\ Ordered(more, c) =>
               \A i, j \in RequestsOf(c, whole) \ DOMAIN published :
                 i < j => whole[i].number < whole[j].number
      BY ONLY <2>1, <2>2, <1>1, RoundAdds
    <3>2. published' = whole
      BY <2>1
    <3> HIDE DEF whole
    <3> QED BY ONLY <3>1, <3>2
  <2> HIDE DEF round
  <2>8. {published'[i].number : i \in round}
          = (Cardinality(RequestsOf(c, published)) + 1)
              .. Cardinality(RequestsOf(c, published'))
    BY <2>5, <2>6, <2>7
  <2>9. /\ \A i \in round : published'[i].socket = cidTcpSocketMap[c]
        /\ Len(pendingClientRequests) <= StableLimit =>
             \A i, j \in round : i < j => published'[i].number < published'[j].number
    BY <2>1, <2>7 DEF r
  <2> QED BY <2>8, <2>9 DEF RoundOf, round
<1>3. CASE ~ SequenceAndPublish
  <2>1. published' = published
    BY <1>3, OthersPublishNothing
  <2>2. PICK last \in 0 .. to : OnceEach(published, c, r, 0, last)
    BY DEF EntryInv, Numbered
  <2>3. last \in Nat /\ Cardinality(RequestsOf(c, published)) = last
    <3>1. last \in Nat
      BY <1>1, <2>2
    <3> QED BY <3>1, <2>2, <1>1, AllCounted
  <2>4. RequestsOf(c, published') \ DOMAIN published = {}
    BY <2>1 DEF RequestsOf
  <2>5. (Cardinality(RequestsOf(c, published)) + 1) .. Cardinality(RequestsOf(c, published')) = {}
    BY <2>1, <2>3
  <2> QED BY <2>4, <2>5 DEF RoundOf
<1> QED BY <1>2, <1>3

\* A round gives the matching engine the next requests of each client, each
\* once and all of one connection, whatever arrives on whichever connection
\* and whatever the sort does (FIFOSequencer.h 41-65); in their order too when
\* the round is not longer than the sort is stable.
THEOREM RoundsCorrect == EntrySpec => RoundsInOrder
<1>1. EntryInv /\ [EntryNext]_entryVars => EntryInv'
  BY EntryStep
<1>2. EntryInv /\ [EntryNext]_entryVars => [\A c \in Clients : RoundOf(c)]_entryVars
  BY RoundStep
<1>3. RoundsInOrder <=> [][\A c \in Clients : RoundOf(c)]_entryVars
  BY DEF RoundsInOrder, RoundOf
<1> QED BY EntryStart, <1>1, <1>2, <1>3, PTL DEF EntrySpec

\* As long as no round reads more requests than the sort leaves in order, all
\* that has been published of a client is in its order.
PublishedOrdered == \A c \in Clients : Ordered(published, c)

LEMMA OrderedStep ==
  ASSUME EntryInv, PublishedOrdered, RoundsShort, [EntryNext]_entryVars
  PROVE  PublishedOrdered'
<1> SUFFICES ASSUME NEW c \in Clients PROVE Ordered(published', c)
  BY DEF PublishedOrdered
<1>0. Ordered(published, c)
  BY DEF PublishedOrdered
<1>1. CASE SequenceAndPublish
  <2> DEFINE r == cidTcpSocketMap[c]
             to == cidNextExpSeqNum[c] - 1
  <2>1. PICK more \in Seq(Outgoing), last \in 0 .. to :
          /\ published' = published \o more
          /\ OnceEach(published, c, r, 0, last)
          /\ OnceEach(more, c, r, last, to)
          /\ Len(pendingClientRequests) <= StableLimit => Ordered(more, c)
    BY <1>1, PublishAdds
  <2>2. published \in Seq(Outgoing) /\ to \in Nat
    BY DEF EntryInv, EntryBase, EntryTypeOK, Outgoing
  <2>3. last \in Nat /\ Ordered(more, c)
    BY <2>1, <2>2 DEF RoundsShort
  <2> HIDE DEF r, to
  <2>4. Ordered(published \o more, c)
    BY <2>1, <2>2, <2>3, <1>0, NumberIsNat, OrderedJoined
  <2> QED BY <2>1, <2>4
<1>2. CASE ~ SequenceAndPublish
  BY <1>0, <1>2, OthersPublishNothing
<1> QED BY <1>1, <1>2

\* The numbers of a client that have been published are then the first ones.
LEMMA InOrder == EntryInv /\ PublishedOrdered => RequestsInOrder
<1> SUFFICES ASSUME EntryInv, PublishedOrdered, NEW i \in DOMAIN published
             PROVE  /\ published[i].socket = cidTcpSocketMap[published[i].socket[1]]
                    /\ published[i].number =
                         Cardinality({j \in 1 .. i : published[j].socket[1] =
                                                     published[i].socket[1]})
  BY DEF RequestsInOrder
<1> DEFINE c == published[i].socket[1]
<1>1. published \in Seq(Outgoing)
  BY DEF EntryInv, EntryBase, EntryTypeOK, Outgoing
<1>2. published[i] \in Outgoing
  BY <1>1, Elements
<1>3. c \in Clients
  BY <1>2 DEF Sockets, Outgoing
<1> HIDE DEF c
<1>4. PICK last \in 0 .. (cidNextExpSeqNum[c] - 1) :
        OnceEach(published, c, cidTcpSocketMap[c], 0, last)
  BY <1>3 DEF EntryInv, Numbered
<1>5. last \in Nat
  BY <1>4
<1>6. published[i].socket = cidTcpSocketMap[c]
  BY <1>4 DEF OnceEach, c
<1>7. published[i].socket[1] = c
  BY DEF c
<1>8. Run(published, c, cidTcpSocketMap[c], 0, last)
  BY <1>3, <1>4 DEF Run, PublishedOrdered
<1>9. published[i].number = SoFar(published, c, i)
  BY <1>1, <1>8, <1>5, <1>7, Counted DEF Outgoing
<1> QED BY <1>6, <1>9 DEF c, SoFar

\* The requests of a client reach the matching engine once and in order
\* (order_manager.h 131), whatever its connections send and wherever reads cut
\* it, as long as no round has more requests than the sort leaves in order.
THEOREM EntryOrdered ==
  EntrySpec /\ []RoundsShort => []RequestsInOrder
<1>1. EntryInit => EntryInv /\ PublishedOrdered
  BY EntryStart DEF EntryInit, PublishedOrdered, Ordered
<1>2. EntryInv /\ PublishedOrdered /\ RoundsShort /\ [EntryNext]_entryVars
        => EntryInv' /\ PublishedOrdered'
  BY EntryStep, OrderedStep
<1> QED BY <1>1, <1>2, InOrder, PTL DEF EntrySpec

-----------------------------------------------------------------------------
\* The bytes between a client and the exchange.

\* As long as the kernel takes all that either side has for it.
KernelTakesAll ==
  /\ \A c \in Clients :
       up[c] => Len(toExchange[Socket(c)]) + Len(outbound[c]) <= SocketBuffer
  /\ \A s \in Sockets :
       Open(s) => Len(toClient[s]) + Len(outbound_data_[s]) <= SocketBuffer

\* A step that cuts no ::send of these clients short, on either side.
NotCut(kept) == \A c \in kept : ~ CutShort(Socket(c))

\* The halves of the items from the first one up to, but not with, the last.
HalvesOf(item, first, last) ==
  [j \in 1 .. 2 * (last - first) |-> item[first + (j - 1) \div 2]]
Numbers == [n \in Nat |-> n]
AnswersOf(c) == [n \in Nat |-> [client |-> c, seq |-> n, answer |-> n]]
UpTo(n) == [k \in 1 .. n |-> k]

\* What is on its way from the gateway of a client, the oldest byte first, and
\* what is on its way back.
Stream(read, way, buffer) == read \o (way \o buffer)
RequestStream(c) ==
  Stream(inbound_data_[Socket(c)], toExchange[Socket(c)], outbound[c])
AnswerStream(c) ==
  Stream(inbound[c], toClient[Socket(c)], outbound_data_[Socket(c)])

\* The bytes to the exchange are halves of numbers.
Number == Nat

\* How many of the first i answers in the queue are for client c.
Waiting(queue, c, i) == Cardinality({j \in 1 .. i : queue[j].client = c})

\* The n-th answer to a client has the number n.
ClientAnswer == {[client |-> c, seq |-> n, answer |-> n] : c \in Clients, n \in Nat}
Response == [client : Clients, answer : Nat]
WireTypeOK ==
  /\ up \in [Clients -> BOOLEAN]
  /\ next_exp_seq_num_ \in [Clients -> Nat \ {0}]
  /\ inbound \in [Clients -> Seq(ClientAnswer)]
  /\ passedOn \in [Clients -> Seq(Nat)]
  /\ toClient \in [Sockets -> Seq(ClientAnswer)]
  /\ outbound_data_ \in [Sockets -> Seq(ClientAnswer)]
  /\ cidNextOutgoingSeqNum \in [Clients -> Nat \ {0}]
  /\ answers \in [Clients -> Nat]
  /\ outgoingResponses \in Seq(Response)

\* Nothing is on a connection before it is there, and nothing goes to a client
\* on a connection that is not the one bound to it.
Unused ==
  /\ \A s \in Sockets : connection[s[1]] < s[2] =>
       toExchange[s] = << >> /\ inbound_data_[s] = << >>
  /\ \A s \in Sockets : cidTcpSocketMap[s[1]] # s =>
       toClient[s] = << >> /\ outbound_data_[s] = << >>
  /\ \A c \in Clients :
       /\ up[c] => Socket(c) \in Sockets
       /\ cidTcpSocketMap[c] = None => cidNextOutgoingSeqNum[c] = 1
       /\ cidTcpSocketMap[c] # None => cidTcpSocketMap[c][2] <= connection[c]

\* What a gateway passed on are the answers before the one it expects; a
\* connection that is not the one bound to the client gets none.
Gateways ==
  \A c \in Clients :
    /\ passedOn[c] = UpTo(next_exp_seq_num_[c] - 1)
    /\ cidTcpSocketMap[c] = None \/ cidTcpSocketMap[c] # Socket(c)
         => inbound[c] = << >> /\ next_exp_seq_num_[c] = 1

\* The answers in the queue are the next ones of their clients.
Queued ==
  /\ \A i \in DOMAIN outgoingResponses :
       LET c == outgoingResponses[i].client
       IN /\ cidTcpSocketMap[c] # None
          /\ outgoingResponses[i].answer =
               cidNextOutgoingSeqNum[c] - 1 + Waiting(outgoingResponses, c, i)
  /\ \A c \in Clients :
       answers[c] = cidNextOutgoingSeqNum[c] - 1
                    + Waiting(outgoingResponses, c, Len(outgoingResponses))

\* The bytes on their way between a client and the exchange are the halves of
\* what has been numbered and not yet taken.
InStep(c) ==
  up[c] /\ cidTcpSocketMap[c] \in {None, Socket(c)} =>
    /\ cidNextExpSeqNum[c] <= next_outgoing_seq_num_[c]
    /\ RequestStream(c) =
         HalvesOf(Numbers, cidNextExpSeqNum[c], next_outgoing_seq_num_[c])
    /\ next_exp_seq_num_[c] <= cidNextOutgoingSeqNum[c]
    /\ AnswerStream(c) =
         HalvesOf(AnswersOf(c), next_exp_seq_num_[c], cidNextOutgoingSeqNum[c])
Streams(kept) == \A c \in kept : InStep(c)

\* ... of the clients whose sends were not cut short.
WireInv(kept) ==
  /\ WireTypeOK /\ Unused /\ Gateways /\ Queued
  /\ kept \subseteq Clients /\ Streams(kept)

-----------------------------------------------------------------------------
\* Streams of halves.

\* Twice as many halves as items.
LEMMA HalvesOfType ==
  ASSUME NEW S, NEW item \in [Nat -> S],
         NEW first \in Nat, NEW last \in Nat, first <= last
  PROVE  /\ HalvesOf(item, first, last) \in Seq(S)
         /\ Len(HalvesOf(item, first, last)) = 2 * (last - first)
         /\ \A j \in 1 .. 2 * (last - first) :
              HalvesOf(item, first, last)[j] = item[first + (j - 1) \div 2]
<1> DEFINE n == 2 * (last - first)
<1>1. n \in Nat
  OBVIOUS
<1>2. ASSUME NEW j \in 1 .. n PROVE item[first + (j - 1) \div 2] \in S
  <2>1. j - 1 \in Nat
    BY <1>1
  <2>2. (j - 1) \div 2 \in Nat
    BY <2>1, Halving
  <2> QED BY <2>2
<1>3. HalvesOf(item, first, last) = [j \in 1 .. n |-> item[first + (j - 1) \div 2]]
  BY DEF HalvesOf
<1> HIDE DEF n
<1>4. HalvesOf(item, first, last) \in [1 .. n -> S]
  BY <1>2, <1>3
<1>5. HalvesOf(item, first, last) \in Seq(S) /\ Len(HalvesOf(item, first, last)) = n
  BY <1>1, <1>3, <1>4
<1> QED BY <1>3, <1>5 DEF n

\* No item, no half.
LEMMA NoHalves ==
  ASSUME NEW item, NEW first \in Nat
  PROVE  HalvesOf(item, first, first) = << >>
  BY DEF HalvesOf

\* One item more.
LEMMA HalvesAppended ==
  ASSUME NEW S, NEW item \in [Nat -> S],
         NEW first \in Nat, NEW last \in Nat, first <= last
  PROVE  HalvesOf(item, first, last) \o Halves(item[last]) = HalvesOf(item, first, last + 1)
<1> DEFINE n == 2 * (last - first)
           before == HalvesOf(item, first, last)
           after == HalvesOf(item, first, last + 1)
           more == Halves(item[last])
<1>1. n \in Nat /\ n = 2 * (last - first) /\ 2 * ((last + 1) - first) = n + 2
  OBVIOUS
<1>2. /\ before \in Seq(S) /\ Len(before) = n
      /\ \A j \in 1 .. n : before[j] = item[first + (j - 1) \div 2]
  BY HalvesOfType, ZenonT(40)
<1>3. /\ after \in Seq(S) /\ Len(after) = n + 2
      /\ \A j \in 1 .. (n + 2) : after[j] = item[first + (j - 1) \div 2]
  <2> DEFINE to == last + 1
  <2>1. 2 * (to - first) = n + 2 /\ after = HalvesOf(item, first, to)
    BY <1>1
  <2>3. to \in Nat /\ first <= to
    OBVIOUS
  <2> HIDE DEF to, after, n
  <2>4. HalvesOf(item, first, to) \in Seq(S)
    BY <2>3, HalvesOfType
  <2>5. Len(HalvesOf(item, first, to)) = 2 * (to - first)
    BY <2>3, HalvesOfType
  <2>2. \A j \in 1 .. 2 * (to - first) :
          HalvesOf(item, first, to)[j] = item[first + (j - 1) \div 2]
    BY DEF HalvesOf
  <2> QED BY <2>1, <2>2, <2>4, <2>5
<1>4. more \in Seq(S) /\ Len(more) = 2 /\ more[1] = item[last] /\ more[2] = item[last]
  BY DEF Halves
<1> HIDE DEF n, before, after, more
<1>5. /\ before \o more \in Seq(S) /\ Len(before \o more) = n + 2
      /\ \A j \in 1 .. (n + 2) :
           (before \o more)[j] = IF j <= n THEN before[j] ELSE more[j - n]
  <2>1. /\ before \o more \in Seq(S) /\ Len(before \o more) = Len(before) + Len(more)
        /\ \A j \in 1 .. Len(before) + Len(more) : (before \o more)[j] =
             IF j <= Len(before) THEN before[j] ELSE more[j - Len(before)]
    BY <1>2, <1>4, ConcatProperties
  <2> QED BY <2>1, <1>2, <1>4
<1>6. ASSUME NEW j \in 1 .. (n + 2) PROVE (before \o more)[j] = after[j]
  <2>1. CASE j <= n
    BY <2>1, <1>1, <1>2, <1>3, <1>5
  <2>2. CASE ~ (j <= n)
    <3>1. (j = n + 1 \/ j = n + 2) /\ (j - n = 1 \/ j - n = 2)
      BY <2>2, <1>1
    <3>2. (before \o more)[j] = item[last]
      BY <3>1, <2>2, <1>4, <1>5
    <3>3. first + (j - 1) \div 2 = last
      BY <3>1, <1>1
    <3> QED BY <3>2, <3>3, <1>3
  <2> QED BY <2>1, <2>2
<1>7. before \o more = after
  BY <1>3, <1>5, <1>6, SeqEqual
<1> QED BY <1>7 DEF before, more, after

\* One after the other, as a name that the solver does not look into.
Joined(q, r) == q \o r

\* The messages are the items from the first one on.
ItemsFrom(messages, item, first) ==
  \A k \in 1 .. Len(messages) : messages[k] = item[first + k - 1]

\* Reading the beginning of a stream: the messages in it are the first items,
\* what is left of it and what comes after are the halves of the others.
LEMMA StreamRead ==
  ASSUME NEW S, NEW item \in [Nat -> S],
         NEW first \in Nat, NEW last \in Nat, first <= last,
         NEW bytes \in Seq(S), NEW rest \in Seq(S),
         Joined(bytes, rest) = HalvesOf(item, first, last)
  PROVE  /\ Len(bytes) \div 2 \in Nat
         /\ first + Len(bytes) \div 2 <= last
         /\ Joined(Remainder(bytes), rest) = HalvesOf(item, first + Len(bytes) \div 2, last)
         /\ ItemsFrom(Messages(bytes), item, first)
<1> DEFINE L == Len(bytes)
           R == Len(rest)
           h == Len(bytes) \div 2
           all == HalvesOf(item, first, last)
<1>1. L \in Nat /\ R \in Nat /\ h \in Nat /\ (L = 2 * h \/ L = 2 * h + 1)
  BY LenProperties, Halving
<1>2. /\ all \in Seq(S) /\ Len(all) = 2 * (last - first)
      /\ \A j \in 1 .. 2 * (last - first) : all[j] = item[first + (j - 1) \div 2]
  BY HalvesOfType, ZenonT(40)
<1>3. /\ Len(bytes \o rest) = L + R
      /\ \A j \in 1 .. (L + R) : (bytes \o rest)[j] =
           IF j <= L THEN bytes[j] ELSE rest[j - L]
  BY ConcatProperties
<1>4. bytes \o rest = all
  BY DEF Joined
<1>5. Messages(bytes) = [k \in 1 .. h |-> bytes[2 * k - 1]]
  BY DEF Messages
<1>6. /\ Remainder(bytes) \in Seq(S) /\ Len(Remainder(bytes)) = L - 2 * h
      /\ \A j \in 1 .. (L - 2 * h) : Remainder(bytes)[j] = bytes[2 * h + j]
  <2>1. Remainder(bytes) = Rest(bytes, 2 * h)
    BY DEF Remainder, Rest
  <2>2. 2 * h \in 0 .. Len(bytes)
    BY <1>1
  <2> HIDE DEF h
  <2> QED BY <2>1, <2>2, RestType
<1> HIDE DEF L, R, h, all
<1>7. L + R = 2 * (last - first) /\ first + h <= last
  BY <1>1, <1>2, <1>3, <1>4, SMTT(30)
<1>8. ASSUME NEW k \in 1 .. h PROVE Messages(bytes)[k] = item[first + k - 1]
  <2>1. 2 * k - 1 \in 1 .. L /\ 2 * k - 1 \in 1 .. (L + R)
        /\ ((2 * k - 1) - 1) \div 2 = k - 1
    BY <1>1
  <2>2. bytes[2 * k - 1] = all[2 * k - 1]
    BY <2>1, <1>1, <1>3, <1>4
  <2>3. all[2 * k - 1] = item[first + (k - 1)]
    BY <2>1, <1>2, <1>7
  <2>4. first + (k - 1) = first + k - 1
    BY <1>1
  <2> QED BY <2>2, <2>3, <2>4, <1>5
<1> DEFINE left == Remainder(bytes)
           others == HalvesOf(item, first + h, last)
<1>9. /\ left \o rest \in Seq(S) /\ Len(left \o rest) = (L - 2 * h) + R
      /\ \A j \in 1 .. ((L - 2 * h) + R) : (left \o rest)[j] =
           IF j <= L - 2 * h THEN left[j] ELSE rest[j - (L - 2 * h)]
  <2>1. left \in Seq(S) /\ Len(left) = L - 2 * h /\ Len(rest) = R
    BY <1>6 DEF R
  <2> HIDE DEF left
  <2>2. /\ left \o rest \in Seq(S) /\ Len(left \o rest) = Len(left) + Len(rest)
        /\ \A j \in 1 .. Len(left) + Len(rest) : (left \o rest)[j] =
             IF j <= Len(left) THEN left[j] ELSE rest[j - Len(left)]
    BY <2>1, ConcatProperties
  <2> QED BY <2>1, <2>2
<1>10. /\ others \in Seq(S) /\ Len(others) = 2 * (last - (first + h))
       /\ \A j \in 1 .. 2 * (last - (first + h)) :
            others[j] = item[(first + h) + (j - 1) \div 2]
  <2> DEFINE from == first + h
  <2>1. from \in Nat /\ from <= last
    BY <1>1, <1>7
  <2>3. others = HalvesOf(item, from, last)
    OBVIOUS
  <2> HIDE DEF from, others
  <2>4. HalvesOf(item, from, last) \in Seq(S)
    BY <2>1, HalvesOfType
  <2>5. Len(HalvesOf(item, from, last)) = 2 * (last - from)
    BY <2>1, HalvesOfType
  <2>2. \A j \in 1 .. 2 * (last - from) :
          HalvesOf(item, from, last)[j] = item[from + (j - 1) \div 2]
    BY DEF HalvesOf
  <2> QED BY <2>2, <2>3, <2>4, <2>5 DEF from
<1>11. (L - 2 * h) + R = 2 * (last - (first + h)) /\ (L - 2 * h) + R \in Nat
  BY <1>1, <1>7
<1> HIDE DEF left, others
<1>12. ASSUME NEW j \in 1 .. ((L - 2 * h) + R) PROVE (left \o rest)[j] = others[j]
  <2>1. 2 * h + j \in 1 .. (L + R)
    BY <1>1
  <2>2. (left \o rest)[j] = (bytes \o rest)[2 * h + j]
    <3>1. CASE j <= L - 2 * h
      <4>1. j \in 1 .. (L - 2 * h) /\ 2 * h + j <= L
        BY <3>1, <1>1
      <4>2. (left \o rest)[j] = bytes[2 * h + j]
        BY <3>1, <4>1, <1>6, <1>9 DEF left
      <4> QED BY <2>1, <4>1, <4>2, <1>3
    <3>2. CASE ~ (j <= L - 2 * h)
      <4>1. ~ (2 * h + j <= L) /\ (2 * h + j) - L = j - (L - 2 * h)
        BY <3>2, <1>1
      <4> QED BY <2>1, <3>2, <4>1, <1>3, <1>9
    <3> QED BY <3>1, <3>2
  <2>3. all[2 * h + j] = item[first + ((2 * h + j) - 1) \div 2]
    BY <2>1, <1>2, <1>7
  <2>4. first + ((2 * h + j) - 1) \div 2 = (first + h) + (j - 1) \div 2
    BY <1>1
  <2>5. others[j] = item[(first + h) + (j - 1) \div 2]
    BY <1>10, <1>11
  <2> QED BY <2>2, <2>3, <2>4, <2>5, <1>4
<1>13. left \o rest = others
  BY <1>9, <1>10, <1>11, <1>12, SeqEqual
<1>14. ItemsFrom(Messages(bytes), item, first)
  <2>1. Len(Messages(bytes)) = h
    BY MessagesType DEF h
  <2> QED BY <1>8, <2>1 DEF ItemsFrom
<1> QED BY <1>1, <1>7, <1>13, <1>14 DEF h, left, others, Joined

\* It does not matter where they are joined first.
LEMMA JoinedAssociative ==
  ASSUME NEW Bytes, NEW q \in Seq(Bytes), NEW r \in Seq(Bytes), NEW t \in Seq(Bytes)
  PROVE  Joined(Joined(q, r), t) = Joined(q, Joined(r, t))
  BY ConcatAssociative, SMT DEF Joined

\* What is joined of bytes are bytes.
LEMMA JoinedType ==
  ASSUME NEW Bytes, NEW q \in Seq(Bytes), NEW r \in Seq(Bytes)
  PROVE  Joined(q, r) \in Seq(Bytes)
  BY ConcatProperties DEF Joined

\* A stream of three parts, when something is read from its beginning.
LEMMA StreamCut ==
  ASSUME NEW Bytes, NEW kept \in Seq(Bytes), NEW way \in Seq(Bytes),
         NEW buffer \in Seq(Bytes), NEW n \in 0 .. Len(way)
  PROVE  /\ Joined(kept, First(way, n)) \in Seq(Bytes)
         /\ Rest(way, n) \in Seq(Bytes) /\ Joined(Rest(way, n), buffer) \in Seq(Bytes)
         /\ Joined(Joined(kept, First(way, n)), Joined(Rest(way, n), buffer))
              = Joined(kept, Joined(way, buffer))
<1> DEFINE a == First(way, n)
           b == Rest(way, n)
<1>1. a \in Seq(Bytes) /\ b \in Seq(Bytes)
  BY FirstType, RestType, LenProperties
<1>2. Joined(a, b) = way
  <2>1. Len(way) \in Nat /\ 1 \in 1 .. Len(way) + 1 /\ n \in (1 - 1) .. Len(way)
        /\ Len(way) \in n .. Len(way)
    BY LenProperties
  <2>2. SubSeq(way, 1, n) \o SubSeq(way, n + 1, Len(way)) = SubSeq(way, 1, Len(way))
    BY <2>1, ConcatAdjacentSubSeq
  <2> QED BY <2>2, SubSeqFull DEF First, Rest, Joined
<1> HIDE DEF a, b
<1>3. /\ Joined(b, buffer) \in Seq(Bytes) /\ Joined(kept, a) \in Seq(Bytes)
  BY <1>1, JoinedType
<1>4. Joined(Joined(kept, a), Joined(b, buffer)) = Joined(kept, Joined(a, Joined(b, buffer)))
  BY <1>1, <1>3, JoinedAssociative
<1>5. Joined(a, Joined(b, buffer)) = Joined(Joined(a, b), buffer)
  BY <1>1, JoinedAssociative
<1>6. Joined(Joined(kept, a), Joined(b, buffer)) = Joined(kept, Joined(way, buffer))
  BY <1>2, <1>4, <1>5
<1> QED BY <1>1, <1>3, <1>6 DEF a, b

\* When there is room for all of a buffer, it is sent.
LEMMA SentAll ==
  ASSUME NEW S, NEW wireBytes \in Seq(S), NEW buffer \in Seq(S),
         Len(wireBytes) + Len(buffer) <= SocketBuffer
  PROVE  Sent(wireBytes, buffer) = wireBytes \o buffer
<1>1. /\ Len(buffer) \in Int /\ SocketBuffer - Len(wireBytes) \in Int
      /\ Len(buffer) <= SocketBuffer - Len(wireBytes)
  BY LenProperties, OrderEntryAssumption
<1>2. Min({Len(buffer), SocketBuffer - Len(wireBytes)}) = Len(buffer)
  <2> DEFINE m == Len(buffer)
             n == SocketBuffer - Len(wireBytes)
  <2>1. m \in Int /\ n \in Int /\ m <= n
    BY <1>1
  <2> HIDE DEF m, n
  <2>2. Min({m, n}) <= m /\ Min({m, n}) <= n /\ (Min({m, n}) = m \/ Min({m, n}) = n)
    BY <2>1, MinOfTwo
  <2>3. Min({m, n}) = m
    BY <2>1, <2>2
  <2> QED BY <2>3 DEF m, n
<1> QED BY <1>2, SubSeqFull DEF Sent, First

-----------------------------------------------------------------------------
\* What a read makes of a stream in order.

\* The exchange takes all numbers that follow the one it expects.
LEMMA AllTaken ==
  ASSUME NEW s \in Sockets, NEW time, NEW start \in ReadStates,
         NEW numbers, Len(numbers) \in Nat,
         start.socket \in {None, s},
         ItemsFrom(numbers, Numbers, start.expected)
  PROVE  AfterRequests(s, time, start, numbers).expected = start.expected + Len(numbers)
<1> DEFINE n == Len(numbers)
           after == CHOOSE f : Stages(f, n, s, time, start, numbers)
           Good(k) == /\ after[k].expected = start.expected + k
                      /\ after[k].socket \in {None, s}
           Bad == {k \in 0 .. n : ~ Good(k)}
<1>1. AfterRequests(s, time, start, numbers) = after[n]
  BY DEF AfterRequests, Stages
<1>2. Stages(after, n, s, time, start, numbers)
  BY StagesExist
<1> HIDE DEF after
<1>3. /\ after[0] = start
      /\ \A k \in 1 .. n : after[k] = Received(s, time, after[k - 1], numbers[k])
  BY <1>2 DEF Stages
<1>e. start.expected \in Nat
  BY DEF ReadStates
<1>4. Good(0)
  BY <1>3, <1>e
<1>5. ASSUME NEW k \in 1 .. n, Good(k - 1) PROVE Good(k)
  <2>1. numbers[k] = start.expected + (k - 1)
    <3>1. numbers[k] = Numbers[start.expected + k - 1] /\ start.expected + k - 1 \in Nat
      BY <1>e DEF ItemsFrom
    <3> QED BY <1>e, <3>1 DEF Numbers
  <2>2. Taken(after[k - 1], s, numbers[k])
    BY <1>5, <2>1 DEF Taken, Bound
  <2>3. /\ after[k].expected = after[k - 1].expected + 1
        /\ after[k].socket = Bound(after[k - 1].socket, s)
    <3>1. Received(s, time, after[k - 1], numbers[k])
            = [socket |-> Bound(after[k - 1].socket, s), expected |-> after[k - 1].expected + 1,
               pending |-> Append(after[k - 1].pending,
                                  [time |-> time, socket |-> s, number |-> numbers[k]])]
      BY <2>2, Zenon DEF Received
    <3> QED BY <1>3, <3>1
  <2>4. after[k].expected = start.expected + k
    BY <1>e, <1>5, <2>3
  <2>5. after[k].socket \in {None, s}
    BY <1>5, <2>3 DEF Bound
  <2> QED BY <2>4, <2>5
<1>g. Good(n) => after[n].expected = start.expected + n
  OBVIOUS
<1> HIDE DEF Good, n
<1>6. ASSUME ~ Good(n) PROVE FALSE
  <2>1. Bad \in SUBSET Nat /\ n \in Bad
    BY <1>6 DEF n
  <2>2. PICK k \in Bad : \A m \in Bad : k <= m
    BY <2>1, LeastExists
  <2>3. k # 0 /\ k - 1 \in 0 .. n /\ k \in 1 .. n
    BY <1>4, <2>2 DEF n
  <2>4. k - 1 \notin Bad
    BY <2>2, <2>3
  <2> QED BY <1>5, <2>2, <2>3, <2>4
<1> QED BY <1>1, <1>6, <1>g DEF n

\* The numbers up to the next one.
LEMMA UpToNext ==
  ASSUME NEW n \in Nat
  PROVE  /\ UpTo(n) \in Seq(Nat) /\ Len(UpTo(n)) = n
         /\ Append(UpTo(n), n + 1) = UpTo(n + 1)
<1>1. \A m \in Nat : UpTo(m) \in Seq(Nat) /\ Len(UpTo(m)) = m
                     /\ \A k \in 1 .. m : UpTo(m)[k] = k
  BY DEF UpTo
<1>2. n + 1 \in Nat
  OBVIOUS
<1>3. /\ UpTo(n) \in Seq(Nat) /\ Len(UpTo(n)) = n
      /\ \A k \in 1 .. n : UpTo(n)[k] = k
  BY <1>1
<1>4. /\ UpTo(n + 1) \in Seq(Nat) /\ Len(UpTo(n + 1)) = n + 1
      /\ \A k \in 1 .. (n + 1) : UpTo(n + 1)[k] = k
  BY <1>1, <1>2
<1> DEFINE q == Append(UpTo(n), n + 1)
<1>5. /\ q \in Seq(Nat) /\ Len(q) = n + 1
      /\ \A k \in 1 .. n : q[k] = k
      /\ q[n + 1] = n + 1
  <2>1. /\ q \in Seq(Nat) /\ Len(q) = Len(UpTo(n)) + 1
        /\ \A k \in 1 .. Len(UpTo(n)) : q[k] = UpTo(n)[k]
        /\ q[Len(UpTo(n)) + 1] = n + 1
    BY <1>2, <1>3, AppendProperties
  <2> QED BY <2>1, <1>3
<1> HIDE DEF q
<1>6. \A k \in 1 .. (n + 1) : q[k] = UpTo(n + 1)[k]
  BY <1>4, <1>5
<1>7. q = UpTo(n + 1)
  BY <1>4, <1>5, <1>6, SeqEqual
<1> QED BY <1>3, <1>7 DEF q

\* The gateway passes on all answers that follow the ones it has.
LEMMA AllPassed ==
  ASSUME NEW c \in Clients, NEW first \in Nat \ {0}, NEW messages, Len(messages) \in Nat,
         ItemsFrom(messages, AnswersOf(c), first)
  PROVE  AfterAnswers(c, [expected |-> first, passedOn |-> UpTo(first - 1)], messages)
           = [expected |-> first + Len(messages),
              passedOn |-> UpTo(first + Len(messages) - 1)]
<1> DEFINE n == Len(messages)
           gateway(k) == [expected |-> first + k, passedOn |-> UpTo(first + k - 1)]
           Is(f) == f = [k \in 0 .. n |->
                          IF k = 0 THEN [expected |-> first, passedOn |-> UpTo(first - 1)]
                          ELSE Passed(c, f[k - 1], messages[k])]
           after == CHOOSE f : Is(f)
           all == [k \in 0 .. n |-> gateway(k)]
           Bad == {k \in 0 .. n : after[k] # gateway(k)}
<1>1. AfterAnswers(c, [expected |-> first, passedOn |-> UpTo(first - 1)], messages) = after[n]
  BY DEF AfterAnswers
<1>2. gateway(0) = [expected |-> first, passedOn |-> UpTo(first - 1)]
  OBVIOUS
<1>3. ASSUME NEW k \in 1 .. n PROVE Passed(c, gateway(k - 1), messages[k]) = gateway(k)
  <2> DEFINE m == first + k - 2
  <2>1. m \in Nat /\ m + 1 = first + k - 1 /\ first + (k - 1) = m + 1
        /\ first + (k - 1) - 1 = m /\ first + k = (m + 1) + 1
    OBVIOUS
  <2>2. messages[k] = [client |-> c, seq |-> m + 1, answer |-> m + 1]
    <3>1. messages[k] = AnswersOf(c)[m + 1]
      BY <2>1 DEF ItemsFrom
    <3> HIDE DEF m
    <3> QED BY <2>1, <3>1 DEF AnswersOf
  <2>3. gateway(k - 1) = [expected |-> m + 1, passedOn |-> UpTo(m)]
    BY <2>1
  <2>4. gateway(k) = [expected |-> (m + 1) + 1, passedOn |-> UpTo(m + 1)]
    BY <2>1
  <2> HIDE DEF m, gateway
  <2>5. Append(UpTo(m), m + 1) = UpTo(m + 1)
    BY <2>1, UpToNext
  <2>6. Passed(c, gateway(k - 1), messages[k])
          = [expected |-> (m + 1) + 1, passedOn |-> Append(UpTo(m), m + 1)]
    <3>1. /\ messages[k].client = c /\ messages[k].seq = m + 1 /\ messages[k].answer = m + 1
          /\ gateway(k - 1).expected = m + 1 /\ gateway(k - 1).passedOn = UpTo(m)
      BY <2>2, <2>3
    <3>2. ~ (messages[k].client # c \/ messages[k].seq # gateway(k - 1).expected)
      BY <3>1
    <3> QED BY <3>1, <3>2, Zenon DEF Passed
  <2> QED BY <2>4, <2>5, <2>6
<1>4. Is(all)
  <2>1. ASSUME NEW k \in 0 .. n
        PROVE  gateway(k) = IF k = 0 THEN [expected |-> first, passedOn |-> UpTo(first - 1)]
                            ELSE Passed(c, all[k - 1], messages[k])
    <3>1. CASE k = 0
      BY <3>1
    <3>2. CASE k # 0
      <4>1. k \in 1 .. n /\ k - 1 \in 0 .. n
        BY <3>2
      <4>2. all[k - 1] = gateway(k - 1)
        BY <4>1
      <4> QED BY <3>2, <4>1, <4>2, <1>3
    <3> QED BY <3>1, <3>2
  <2> HIDE DEF gateway
  <2> QED BY <2>1
<1>5. Is(after)
  <2> HIDE DEF Is, all
  <2> QED BY <1>4
<1> HIDE DEF after, gateway
<1>6. /\ after[0] = gateway(0)
      /\ \A k \in 1 .. n : after[k] = Passed(c, after[k - 1], messages[k])
  BY <1>2, <1>5
<1> HIDE DEF n, Is
<1>7. ASSUME after[n] # gateway(n) PROVE FALSE
  <2>1. Bad \in SUBSET Nat /\ n \in Bad
    BY <1>7 DEF n
  <2>2. PICK k \in Bad : \A m \in Bad : k <= m
    BY <2>1, LeastExists
  <2>3. k # 0 /\ k - 1 \in 0 .. n /\ k \in 1 .. n
    BY <1>6, <2>2 DEF n
  <2>4. k - 1 \notin Bad
    BY <2>2, <2>3
  <2> QED BY <1>3, <1>6, <2>2, <2>3, <2>4
<1> QED BY <1>1, <1>7 DEF n, gateway

\* What a gateway makes of the first n messages, message by message.
Passes(f, n, c, start, messages) ==
  f = [k \in 0 .. n |-> IF k = 0 THEN start ELSE Passed(c, f[k - 1], messages[k])]

LEMMA PassesExist ==
  ASSUME NEW c, NEW start, NEW messages, NEW n \in Nat
  PROVE  \E f : Passes(f, n, c, start, messages)
<1> DEFINE Exist(m) == \E f : Passes(f, m, c, start, messages)
           Bad == {m \in Nat : ~ Exist(m)}
<1>1. Exist(0)
  <2> DEFINE f == [k \in 0 .. 0 |-> start]
  <2>1. Passes(f, 0, c, start, messages)
    BY DEF Passes
  <2> QED BY <2>1
<1>2. ASSUME NEW m \in Nat, Exist(m) PROVE Exist(m + 1)
  <2>1. PICK f : Passes(f, m, c, start, messages)
    BY <1>2
  <2> DEFINE g == [k \in 0 .. (m + 1) |->
                     IF k = m + 1 THEN Passed(c, f[m], messages[m + 1]) ELSE f[k]]
             step(k) == IF k = 0 THEN start ELSE Passed(c, g[k - 1], messages[k])
  <2>2. \A k \in 0 .. m : f[k] = IF k = 0 THEN start
                                 ELSE Passed(c, f[k - 1], messages[k])
    BY <2>1 DEF Passes
  <2>3. ASSUME NEW k \in 0 .. (m + 1) PROVE g[k] = step(k)
    <3>1. CASE k = m + 1
      <4>1. k # 0 /\ k - 1 = m /\ m \in 0 .. (m + 1) /\ m # m + 1
        BY <3>1
      <4>2. g[k - 1] = f[m] /\ g[k] = Passed(c, f[m], messages[m + 1])
        BY <4>1, <3>1
      <4> QED BY <4>1, <4>2, <3>1
    <3>2. CASE k # m + 1
      <4>1. k \in 0 .. m /\ g[k] = f[k]
        BY <3>2
      <4>2. CASE k = 0
        BY <4>1, <4>2, <2>2
      <4>3. CASE k # 0
        <5>1. k - 1 \in 0 .. (m + 1) /\ k - 1 # m + 1
          BY <4>1, <4>3
        <5>2. g[k - 1] = f[k - 1]
          BY <5>1
        <5> QED BY <4>1, <4>3, <5>2, <2>2
      <4> QED BY <4>2, <4>3
    <3> QED BY <3>1, <3>2
  <2>4. g = [k \in 0 .. (m + 1) |-> g[k]]
    OBVIOUS
  <2> HIDE DEF g
  <2>5. Passes(g, m + 1, c, start, messages)
    BY <2>3, <2>4 DEF Passes
  <2> QED BY <2>5
<1> HIDE DEF Exist
<1>3. ASSUME ~ Exist(n) PROVE FALSE
  <2>1. PICK m \in Bad : \A k \in Bad : m <= k
    BY <1>3, LeastExists
  <2>2. m # 0 /\ m - 1 \in Nat
    BY <1>1, <2>1
  <2>3. m - 1 \notin Bad /\ (m - 1) + 1 = m
    BY <2>1, <2>2
  <2> QED BY <1>2, <2>1, <2>2, <2>3
<1> QED BY <1>3 DEF Exist

\* Whatever a gateway reads, it passes on answers from the one it expects on.
LEMMA AnyPassed ==
  ASSUME NEW c \in Clients, NEW first \in Nat \ {0}, NEW messages, Len(messages) \in Nat,
         \A k \in 1 .. Len(messages) : messages[k] \in ClientAnswer
  PROVE  \E e \in Nat :
           /\ first <= e
           /\ AfterAnswers(c, [expected |-> first, passedOn |-> UpTo(first - 1)], messages)
                = [expected |-> e, passedOn |-> UpTo(e - 1)]
<1> DEFINE n == Len(messages)
           start == [expected |-> first, passedOn |-> UpTo(first - 1)]
           after == CHOOSE f : Passes(f, n, c, start, messages)
           Good(k) == \E e \in Nat : /\ first <= e
                                     /\ after[k] = [expected |-> e, passedOn |-> UpTo(e - 1)]
           Bad == {k \in 0 .. n : ~ Good(k)}
<1>1. AfterAnswers(c, start, messages) = after[n]
  BY DEF AfterAnswers, Passes
<1>2. Passes(after, n, c, start, messages)
  <2> HIDE DEF start
  <2> QED BY PassesExist
<1> HIDE DEF after
<1>3. /\ after[0] = start
      /\ \A k \in 1 .. n : after[k] = Passed(c, after[k - 1], messages[k])
  BY <1>2 DEF Passes
<1>4. Good(0)
  BY <1>3
<1>5. ASSUME NEW k \in 1 .. n, Good(k - 1) PROVE Good(k)
  <2>1. PICK e \in Nat : /\ first <= e
                         /\ after[k - 1] = [expected |-> e, passedOn |-> UpTo(e - 1)]
    BY <1>5
  <2>2. messages[k] \in ClientAnswer /\ after[k] = Passed(c, after[k - 1], messages[k])
    BY <1>3
  <2> DEFINE ignored == messages[k].client # c \/ messages[k].seq # e
  <2>3. CASE ignored
    <3>1. after[k] = after[k - 1]
      BY <2>1, <2>2, <2>3 DEF Passed
    <3> QED BY <2>1, <3>1
  <2>4. CASE ~ ignored
    <3>1. messages[k].answer = e
      BY <2>2, <2>4 DEF ClientAnswer
    <3>2. after[k] = [expected |-> e + 1, passedOn |-> Append(UpTo(e - 1), e)]
      BY <2>1, <2>2, <2>4, <3>1 DEF Passed
    <3> DEFINE m == e - 1
    <3>3. m \in Nat /\ m + 1 = e /\ (e + 1) - 1 = e
      BY <2>1
    <3> HIDE DEF m
    <3>4. Append(UpTo(m), e) = UpTo(e)
      BY <3>3, UpToNext
    <3>5. after[k] = [expected |-> e + 1, passedOn |-> UpTo((e + 1) - 1)]
      BY <3>2, <3>3, <3>4 DEF m
    <3>6. e + 1 \in Nat /\ first <= e + 1
      BY <2>1
    <3> QED BY <3>5, <3>6
  <2> QED BY <2>3, <2>4
<1>g. Good(n) => \E e \in Nat : first <= e /\ after[n] = [expected |-> e, passedOn |-> UpTo(e - 1)]
  OBVIOUS
<1> HIDE DEF Good, n, start
<1>6. ASSUME ~ Good(n) PROVE FALSE
  <2>1. Bad \in SUBSET Nat /\ n \in Bad
    BY <1>6 DEF n
  <2>2. PICK k \in Bad : \A m \in Bad : k <= m
    BY <2>1, LeastExists
  <2>3. k # 0 /\ k - 1 \in 0 .. n /\ k \in 1 .. n
    BY <1>4, <2>2 DEF n
  <2>4. k - 1 \notin Bad
    BY <2>2, <2>3
  <2> QED BY <1>5, <2>2, <2>3, <2>4
<1> QED BY <1>1, <1>6, <1>g DEF n, start

\* A stream that grows, is read and is sent.
LEMMA StreamLength ==
  ASSUME NEW S, NEW a \in Seq(S), NEW b \in Seq(S), NEW d \in Seq(S)
  PROVE  /\ Stream(a, b, d) \in Seq(S)
         /\ Len(Stream(a, b, d)) = Len(a) + (Len(b) + Len(d))
  BY ConcatProperties, LenProperties DEF Stream

\* Where nothing is on the way there are no halves.
LEMMA StreamEmpty ==
  ASSUME NEW S, NEW item \in [Nat -> S], NEW first \in Nat
  PROVE  Stream(<< >>, << >>, << >>) = HalvesOf(item, first, first)
  BY NoHalves DEF Stream

\* How many halves there are says how long the three parts are.
LEMMA StreamHalves ==
  ASSUME NEW S, NEW item \in [Nat -> S],
         NEW first \in Nat, NEW last \in Nat, first <= last,
         NEW a \in Seq(S), NEW b \in Seq(S), NEW d \in Seq(S),
         Stream(a, b, d) = HalvesOf(item, first, last)
  PROVE  /\ 2 * (last - first) = Len(a) + (Len(b) + Len(d))
         /\ Len(a) \in Nat /\ Len(b) \in Nat /\ Len(d) \in Nat
<1>1. Len(HalvesOf(item, first, last)) = 2 * (last - first)
  BY HalvesOfType
<1>2. Len(Stream(a, b, d)) = Len(a) + (Len(b) + Len(d))
  BY StreamLength
<1> QED BY <1>1, <1>2, LenProperties

\* An item is put behind the others.
LEMMA StreamGrows ==
  ASSUME NEW S, NEW item \in [Nat -> S],
         NEW first \in Nat, NEW last \in Nat, first <= last,
         NEW a \in Seq(S), NEW b \in Seq(S), NEW d \in Seq(S),
         Stream(a, b, d) = HalvesOf(item, first, last), NEW x, x = Halves(item[last])
  PROVE  Stream(a, b, Joined(d, x)) = HalvesOf(item, first, last + 1)
<1>1. x \in Seq(S)
  BY DEF Halves
<1>2. Joined(HalvesOf(item, first, last), x) = HalvesOf(item, first, last + 1)
  BY HalvesAppended DEF Joined
<1>3. Joined(b, d) \in Seq(S)
  BY JoinedType
<1>4. Joined(Joined(a, Joined(b, d)), x) = Joined(a, Joined(Joined(b, d), x))
  BY <1>1, <1>3, JoinedAssociative
<1>5. Joined(Joined(b, d), x) = Joined(b, Joined(d, x))
  BY <1>1, JoinedAssociative
<1>6. Joined(a, Joined(b, d)) = HalvesOf(item, first, last)
  BY DEF Joined, Stream
<1>7. Joined(a, Joined(b, Joined(d, x))) = HalvesOf(item, first, last + 1)
  BY <1>2, <1>4, <1>5, <1>6
<1> QED BY <1>7 DEF Joined, Stream

\* What is sent is still on the way.
LEMMA StreamSent ==
  ASSUME NEW S, NEW a \in Seq(S), NEW b \in Seq(S), NEW d \in Seq(S),
         Len(b) + Len(d) <= SocketBuffer
  PROVE  Stream(a, Sent(b, d), << >>) = Stream(a, b, d)
<1>1. Joined(b, d) \in Seq(S)
  BY JoinedType
<1>2. Joined(Joined(b, d), << >>) = Joined(b, d)
  BY <1>1 DEF Joined
<1>3. Sent(b, d) = Joined(b, d)
  BY SentAll DEF Joined
<1> QED BY <1>2, <1>3 DEF Stream, Joined

\* What a read takes are the next items, and the others stay on the way.
LEMMA StreamTaken ==
  ASSUME NEW S, NEW item \in [Nat -> S],
         NEW first \in Nat, NEW last \in Nat, first <= last,
         NEW a \in Seq(S), NEW b \in Seq(S), NEW d \in Seq(S),
         Stream(a, b, d) = HalvesOf(item, first, last), NEW n \in 0 .. Len(b)
  PROVE  LET bytes == Joined(a, First(b, n))
             h == Len(Messages(bytes))
         IN /\ h \in Nat /\ first + h <= last
            /\ Stream(Remainder(bytes), Rest(b, n), d) = HalvesOf(item, first + h, last)
            /\ ItemsFrom(Messages(bytes), item, first)
            /\ bytes \in Seq(S)
<1> DEFINE bytes == Joined(a, First(b, n))
           h == Len(Messages(bytes))
           rest == Joined(Rest(b, n), d)
<1>1. bytes \in Seq(S) /\ rest \in Seq(S) /\ Joined(bytes, rest) = HalvesOf(item, first, last)
  <2>1. bytes \in Seq(S) /\ rest \in Seq(S)
    BY StreamCut
  <2>2. Joined(bytes, rest) = Joined(a, Joined(b, d))
    BY StreamCut
  <2>3. Joined(a, Joined(b, d)) = HalvesOf(item, first, last)
    BY DEF Joined, Stream
  <2> QED BY <2>1, <2>2, <2>3
<1>2. Stream(Remainder(bytes), Rest(b, n), d) = Joined(Remainder(bytes), rest)
  BY DEF Stream, Joined
<1> HIDE DEF bytes, rest
<1>3. h = Len(bytes) \div 2
  BY <1>1, MessagesType
<1>4. /\ Len(bytes) \div 2 \in Nat
      /\ first + Len(bytes) \div 2 <= last
      /\ Joined(Remainder(bytes), rest) = HalvesOf(item, first + Len(bytes) \div 2, last)
      /\ ItemsFrom(Messages(bytes), item, first)
  BY <1>1, StreamRead
<1>5. /\ h \in Nat /\ first + h <= last
      /\ Stream(Remainder(bytes), Rest(b, n), d) = HalvesOf(item, first + h, last)
      /\ ItemsFrom(Messages(bytes), item, first)
  BY <1>2, <1>3, <1>4
<1> QED BY <1>1, <1>5 DEF bytes

-----------------------------------------------------------------------------
\* The answers in the queue.

\* One position more.
LEMMA WaitingNext ==
  ASSUME NEW q, NEW c, NEW i \in Nat
  PROVE  /\ Waiting(q, c, i) \in Nat
         /\ Waiting(q, c, 0) = 0
         /\ Waiting(q, c, i + 1) =
              Waiting(q, c, i) + (IF q[i + 1].client = c THEN 1 ELSE 0)
<1> DEFINE T == {j \in 1 .. i : q[j].client = c}
           U == {j \in 1 .. (i + 1) : q[j].client = c}
<1>1. IsFiniteSet(1 .. i)
  BY FS_Interval
<1>2. IsFiniteSet(T) /\ Cardinality(T) \in Nat
  BY <1>1, FS_Subset, FS_CardinalityType
<1>3. i + 1 \notin T
  OBVIOUS
<1>4. ASSUME q[i + 1].client = c PROVE Waiting(q, c, i + 1) = Waiting(q, c, i) + 1
  <2>1. U = T \cup {i + 1}
    BY <1>4
  <2> HIDE DEF T, U
  <2>2. Cardinality(U) = Cardinality(T) + 1
    BY <1>2, <1>3, <2>1, FS_AddElement
  <2> QED BY <2>2 DEF Waiting, T, U
<1>5. ASSUME q[i + 1].client # c PROVE Waiting(q, c, i + 1) = Waiting(q, c, i)
  <2>1. U = T
    BY <1>5
  <2> QED BY <2>1 DEF Waiting
<1>6. Waiting(q, c, 0) = 0
  <2>1. {j \in 1 .. 0 : q[j].client = c} = {}
    OBVIOUS
  <2> QED BY <2>1, FS_EmptySet DEF Waiting
<1>7. Waiting(q, c, i) \in Nat
  BY <1>2 DEF Waiting
<1> QED BY <1>4, <1>5, <1>6, <1>7

\* Only the first positions count.
LEMMA WaitingSame ==
  ASSUME NEW q, NEW r, NEW c, NEW i \in Nat, \A j \in 1 .. i : q[j] = r[j]
  PROVE  Waiting(q, c, i) = Waiting(r, c, i)
<1>1. {j \in 1 .. i : q[j].client = c} = {j \in 1 .. i : r[j].client = c}
  OBVIOUS
<1> QED BY <1>1 DEF Waiting

\* Without the first one, all move up.
LEMMA WaitingTail ==
  ASSUME NEW q, NEW r, NEW c, NEW i \in Nat, \A j \in 1 .. i : r[j] = q[j + 1]
  PROVE  Waiting(q, c, i + 1) = Waiting(r, c, i) + (IF q[1].client = c THEN 1 ELSE 0)
<1> DEFINE Good(k) == Waiting(q, c, k + 1) = Waiting(r, c, k)
                                             + (IF q[1].client = c THEN 1 ELSE 0)
           Bad == {k \in 0 .. i : ~ Good(k)}
<1>1. Good(0)
  <2>1. Waiting(q, c, 0 + 1) = Waiting(q, c, 0) + (IF q[0 + 1].client = c THEN 1 ELSE 0)
    BY WaitingNext
  <2>2. Waiting(q, c, 0) = 0 /\ Waiting(r, c, 0) = 0
    BY WaitingNext
  <2> QED BY <2>1, <2>2
<1>2. ASSUME NEW k \in 1 .. i, Good(k - 1) PROVE Good(k)
  <2> DEFINE m == k - 1
  <2>1. m \in Nat /\ k = m + 1 /\ k \in Nat
    OBVIOUS
  <2> HIDE DEF m
  <2>2. Waiting(q, c, k + 1) = Waiting(q, c, k) + (IF q[k + 1].client = c THEN 1 ELSE 0)
    BY <2>1, WaitingNext
  <2>3. Waiting(r, c, m + 1) = Waiting(r, c, m) + (IF r[m + 1].client = c THEN 1 ELSE 0)
    BY <2>1, WaitingNext
  <2>4. Waiting(q, c, k) \in Nat /\ Waiting(r, c, m) \in Nat
    BY <2>1, WaitingNext
  <2>5. r[k] = q[k + 1]
    OBVIOUS
  <2>6. Waiting(q, c, k) = Waiting(r, c, m) + (IF q[1].client = c THEN 1 ELSE 0)
    BY <1>2, <2>1 DEF m
  <2> QED BY <2>1, <2>2, <2>3, <2>4, <2>5, <2>6
<1>g. Good(i) => Waiting(q, c, i + 1) = Waiting(r, c, i)
                                        + (IF q[1].client = c THEN 1 ELSE 0)
  OBVIOUS
<1> HIDE DEF Good
<1>3. ASSUME ~ Good(i) PROVE FALSE
  <2>1. Bad \in SUBSET Nat /\ i \in Bad
    BY <1>3
  <2>2. PICK k \in Bad : \A m \in Bad : k <= m
    BY <2>1, LeastExists
  <2>3. k # 0 /\ k - 1 \in 0 .. i /\ k \in 1 .. i
    BY <1>1, <2>2
  <2>4. k - 1 \notin Bad
    BY <2>2, <2>3
  <2> QED BY <1>2, <2>2, <2>3, <2>4
<1> QED BY <1>3, <1>g

-----------------------------------------------------------------------------
\* Every step keeps the streams.

\* The requests and the answers, item by item.
LEMMA ItemTypes ==
  /\ Numbers \in [Nat -> Number]
  /\ \A n \in Nat : Numbers[n] = n
  /\ \A c \in Clients : AnswersOf(c) \in [Nat -> ClientAnswer]
  /\ \A c \in Clients : \A n \in Nat :
       AnswersOf(c)[n] = [client |-> c, seq |-> n, answer |-> n]
  BY DEF Numbers, Number, AnswersOf, ClientAnswer

\* Nothing that the two streams of a client consist of has changed.
Untouched(c) ==
  /\ up'[c] => up[c]
  /\ connection'[c] = connection[c] /\ cidTcpSocketMap'[c] = cidTcpSocketMap[c]
  /\ cidNextExpSeqNum'[c] = cidNextExpSeqNum[c]
  /\ next_outgoing_seq_num_'[c] = next_outgoing_seq_num_[c]
  /\ next_exp_seq_num_'[c] = next_exp_seq_num_[c]
  /\ cidNextOutgoingSeqNum'[c] = cidNextOutgoingSeqNum[c]
  /\ outbound'[c] = outbound[c] /\ inbound'[c] = inbound[c]
  /\ Socket(c) \in Sockets =>
       /\ toExchange'[Socket(c)] = toExchange[Socket(c)]
       /\ inbound_data_'[Socket(c)] = inbound_data_[Socket(c)]
       /\ toClient'[Socket(c)] = toClient[Socket(c)]
       /\ outbound_data_'[Socket(c)] = outbound_data_[Socket(c)]

\* A client whose streams are untouched stays in step.
LEMMA InStepKept ==
  ASSUME NEW c \in Clients, Unused, InStep(c), Untouched(c)
  PROVE  InStep(c)'
<1> SUFFICES ASSUME up'[c], cidTcpSocketMap'[c] \in {None, Socket(c)'}
             PROVE  /\ cidNextExpSeqNum'[c] <= next_outgoing_seq_num_'[c]
                    /\ RequestStream(c)' =
                         HalvesOf(Numbers, cidNextExpSeqNum'[c], next_outgoing_seq_num_'[c])
                    /\ next_exp_seq_num_'[c] <= cidNextOutgoingSeqNum'[c]
                    /\ AnswerStream(c)' =
                         HalvesOf(AnswersOf(c), next_exp_seq_num_'[c], cidNextOutgoingSeqNum'[c])
  BY DEF InStep
<1>1. Socket(c)' = Socket(c)
  BY DEF Socket, Untouched
<1>2. up[c] /\ Socket(c) \in Sockets
  BY DEF Untouched, Unused
<1>3. RequestStream(c)' = RequestStream(c) /\ AnswerStream(c)' = AnswerStream(c)
  BY <1>1, <1>2 DEF RequestStream, AnswerStream, Untouched
<1> QED BY <1>1, <1>2, <1>3 DEF InStep, Untouched

\* What each part of the invariant is about.
LEMMA UnusedKept ==
  ASSUME Unused,
         UNCHANGED <<connection, toExchange, inbound_data_, cidTcpSocketMap, toClient,
                     outbound_data_, up, cidNextOutgoingSeqNum>>
  PROVE  Unused'
  BY DEF Unused, Socket

LEMMA GatewaysKept ==
  ASSUME Gateways,
         UNCHANGED <<connection, passedOn, next_exp_seq_num_, cidTcpSocketMap, inbound>>
  PROVE  Gateways'
  BY DEF Gateways, Socket

LEMMA QueuedKept ==
  ASSUME Queued,
         UNCHANGED <<outgoingResponses, answers, cidTcpSocketMap, cidNextOutgoingSeqNum>>
  PROVE  Queued'
  BY DEF Queued

LEMMA StreamsKept ==
  ASSUME NEW K \in SUBSET Clients, Unused, Streams(K),
         UNCHANGED <<up, connection, cidTcpSocketMap, cidNextExpSeqNum,
                     next_outgoing_seq_num_, next_exp_seq_num_, cidNextOutgoingSeqNum,
                     outbound, inbound, toExchange, inbound_data_, toClient, outbound_data_>>
  PROVE  Streams(K)'
<1>1. ASSUME NEW c \in K PROVE InStep(c)'
  <2>1. InStep(c) /\ Untouched(c)
    BY DEF Streams, Untouched
  <2> QED BY <2>1, InStepKept
<1> QED BY <1>1 DEF Streams

LEMMA WireKept ==
  ASSUME NEW K, WireInv(K),
         UNCHANGED <<connection, up, next_outgoing_seq_num_, next_exp_seq_num_, outbound,
                     inbound, passedOn, toExchange, toClient, inbound_data_, outbound_data_,
                     cidTcpSocketMap, cidNextExpSeqNum, cidNextOutgoingSeqNum,
                     outgoingResponses, answers>>
  PROVE  WireInv(K)'
<1>0. WireTypeOK /\ Unused /\ Gateways /\ Queued /\ Streams(K)
      /\ K \subseteq Clients
  BY DEF WireInv
<1>1. WireTypeOK'
  BY <1>0 DEF WireTypeOK
<1>2. Unused' /\ Gateways' /\ Queued' /\ Streams(K)'
  BY <1>0, UnusedKept, GatewaysKept, QueuedKept, StreamsKept
<1> QED BY <1>0, <1>1, <1>2 DEF WireInv

\* Nothing is on its way at the start.
LEMMA WireStart == EntryInit => WireInv(Clients)
<1> SUFFICES ASSUME EntryInit PROVE WireInv(Clients)
  OBVIOUS
<1>1. WireTypeOK
  <2>1. << >> \in Seq(ClientAnswer) /\ << >> \in Seq(Nat) /\ << >> \in Seq(Response)
    OBVIOUS
  <2> QED BY <2>1 DEF EntryInit, WireTypeOK
<1>2. Unused
  BY NoneAssumption DEF EntryInit, Unused, Sockets
<1>3. Gateways
  <2>1. UpTo(1 - 1) = << >>
    BY DEF UpTo
  <2> QED BY <2>1 DEF EntryInit, Gateways
<1>4. Queued
  <2>1. \A c \in Clients : Waiting(<< >>, c, 0) = 0
    BY WaitingNext
  <2> QED BY <2>1 DEF EntryInit, Queued
<1>5. Streams(Clients)
  BY DEF EntryInit, Streams, InStep
<1> QED BY <1>1, <1>2, <1>3, <1>4, <1>5 DEF WireInv

\* A client that ends leaves what it sent on the way.
LEMMA EndWire ==
  ASSUME NEW K, WireInv(K), NEW c \in Clients, End(c)
  PROVE  WireInv(K)'
<1>0. WireTypeOK /\ Unused /\ Gateways /\ Queued /\ Streams(K)
      /\ K \subseteq Clients
  BY DEF WireInv
<1>1. /\ up' = [up EXCEPT ![c] = FALSE]
      /\ UNCHANGED <<connection, next_outgoing_seq_num_, next_exp_seq_num_, outbound,
                     inbound, passedOn, toExchange, toClient, inbound_data_, outbound_data_,
                     cidTcpSocketMap, cidNextExpSeqNum, cidNextOutgoingSeqNum,
                     outgoingResponses, answers>>
  BY DEF End, wire, orderManagerVars, matchingVars
<1>2. WireTypeOK'
  BY <1>0, <1>1 DEF WireTypeOK
<1>u. \A d \in Clients : up'[d] => up[d]
  BY <1>0, <1>1, Zenon DEF WireTypeOK
<1>3. Unused'
  BY <1>0, <1>1, <1>u DEF Unused, Socket
<1>4. Streams(K)'
  <2>1. ASSUME NEW d \in K PROVE InStep(d)'
    <3>1. InStep(d) /\ Untouched(d)
      BY <1>0, <1>1, <1>u DEF Streams, Untouched
    <3> QED BY <3>1, <1>0, InStepKept
  <2> QED BY <2>1 DEF Streams
<1> QED BY <1>0, <1>1, <1>2, <1>3, <1>4, GatewaysKept, QueuedKept DEF WireInv

\* A reset is of a connection whose client is gone.
LEMMA ResetWire ==
  ASSUME NEW K, EntryTypeOK, WireInv(K), NEW s \in Sockets, Reset(s)
  PROVE  WireInv(K)'
<1>0. WireTypeOK /\ Unused /\ Gateways /\ Queued /\ Streams(K)
      /\ K \subseteq Clients
  BY DEF WireInv
<1>1. /\ ~ Open(s) /\ toExchange' = [toExchange EXCEPT ![s] = << >>]
      /\ UNCHANGED <<connection, up, next_outgoing_seq_num_, next_exp_seq_num_, outbound,
                     inbound, passedOn, toClient, inbound_data_, outbound_data_,
                     cidTcpSocketMap, cidNextExpSeqNum, cidNextOutgoingSeqNum,
                     outgoingResponses, answers>>
  BY DEF Reset, clientVars, orderManagerVars, matchingVars
<1>2. WireTypeOK'
  BY <1>0, <1>1 DEF WireTypeOK
<1>t. \A t \in Sockets : toExchange'[t] = toExchange[t] \/ toExchange'[t] = << >>
  BY <1>1 DEF EntryTypeOK
<1>3. Unused'
  BY <1>0, <1>1, <1>t DEF Unused, Socket
<1>4. Streams(K)'
  <2>1. ASSUME NEW d \in K PROVE InStep(d)'
    <3>1. CASE up[d]
      <4>1. Socket(d) # s
        BY <3>1, <1>1 DEF Open, Socket
      <4>2. InStep(d) /\ Untouched(d)
        BY <4>1, <1>0, <1>1 DEF Streams, Untouched, EntryTypeOK
      <4> QED BY <4>2, <1>0, InStepKept
    <3>2. CASE ~ up[d]
      BY <3>2, <1>1 DEF InStep
    <3> QED BY <3>1, <3>2
  <2> QED BY <2>1 DEF Streams
<1> QED BY <1>0, <1>1, <1>2, <1>3, <1>4, GatewaysKept, QueuedKept DEF WireInv

\* An answer more in the queue, the next one of its client.
LEMMA AnswerClientWire ==
  ASSUME NEW K, EntryBase, WireInv(K), NEW c \in Clients, AnswerClient(c)
  PROVE  WireInv(K)'
<1>0. WireTypeOK /\ Unused /\ Gateways /\ Queued /\ Streams(K)
      /\ K \subseteq Clients
  BY DEF WireInv
<1> DEFINE q == outgoingResponses
           response == [client |-> c, answer |-> answers[c] + 1]
           m == Len(q)
<1>1. /\ answers' = [answers EXCEPT ![c] = @ + 1]
      /\ q' = Append(q, [client |-> c, answer |-> answers'[c]])
      /\ UNCHANGED <<connection, up, next_outgoing_seq_num_, next_exp_seq_num_, outbound,
                     inbound, passedOn, toExchange, toClient, inbound_data_, outbound_data_,
                     cidTcpSocketMap, cidNextExpSeqNum, cidNextOutgoingSeqNum>>
      /\ \E i \in DOMAIN published : published[i].socket[1] = c
  BY DEF AnswerClient, clientVars, wire, orderManagerVars
<1>2. cidTcpSocketMap[c] # None
  BY <1>1 DEF EntryBase, Served
<1>3. /\ answers \in [Clients -> Nat] /\ answers'[c] = answers[c] + 1
      /\ q \in Seq(Response) /\ response \in Response /\ q' = Append(q, response)
      /\ cidNextOutgoingSeqNum \in [Clients -> Nat \ {0}]
  BY <1>0, <1>1 DEF WireTypeOK, Response
<1>4. /\ q' \in Seq(Response) /\ Len(q') = m + 1 /\ m \in Nat
      /\ \A j \in 1 .. m : q'[j] = q[j]
      /\ q'[m + 1] = response
      /\ DOMAIN q' = 1 .. (m + 1) /\ DOMAIN q = 1 .. m
      /\ \A j \in DOMAIN q : q[j] \in Response
  <2> HIDE DEF response
  <2> QED BY <1>3, AppendProperties, LenProperties, Elements
<1>5. WireTypeOK'
  BY <1>0, <1>1, <1>4 DEF WireTypeOK
<1>6. \A d \in Clients : \A i \in 0 .. m : Waiting(q', d, i) = Waiting(q, d, i)
  <2> SUFFICES ASSUME NEW d \in Clients, NEW i \in 0 .. m
               PROVE  Waiting(q', d, i) = Waiting(q, d, i)
    OBVIOUS
  <2>1. \A j \in 1 .. i : q'[j] = q[j]
    BY <1>4
  <2> HIDE DEF q
  <2> QED BY <2>1, WaitingSame
<1>7. \A d \in Clients : /\ Waiting(q', d, m + 1) = Waiting(q, d, m) + (IF d = c THEN 1 ELSE 0)
                         /\ Waiting(q, d, m) \in Nat
  <2> SUFFICES ASSUME NEW d \in Clients
               PROVE  /\ Waiting(q', d, m + 1) = Waiting(q, d, m) + (IF d = c THEN 1 ELSE 0)
                      /\ Waiting(q, d, m) \in Nat
    OBVIOUS
  <2> HIDE DEF q, m
  <2>5. m \in Nat
    BY <1>4
  <2>1. Waiting(q', d, m + 1) = Waiting(q', d, m) + (IF q'[m + 1].client = d THEN 1 ELSE 0)
    BY <2>5, WaitingNext
  <2>2. q'[m + 1].client = c
    BY <1>4
  <2>3. Waiting(q', d, m) = Waiting(q, d, m)
    BY <1>4, <1>6
  <2>4. Waiting(q, d, m) \in Nat
    BY <1>4, WaitingNext
  <2> QED BY <2>1, <2>2, <2>3, <2>4
<1>8. /\ \A i \in 1 .. m :
           LET d == q[i].client
           IN /\ cidTcpSocketMap[d] # None
              /\ q[i].answer = cidNextOutgoingSeqNum[d] - 1 + Waiting(q, d, i)
              /\ d \in Clients
      /\ \A d \in Clients : answers[d] = cidNextOutgoingSeqNum[d] - 1 + Waiting(q, d, m)
  BY <1>0, <1>4 DEF Queued, Response
<1> HIDE DEF q, m
<1>9. ASSUME NEW i \in 1 .. (m + 1)
      PROVE  LET d == q'[i].client
             IN /\ cidTcpSocketMap[d] # None
                /\ q'[i].answer = cidNextOutgoingSeqNum[d] - 1 + Waiting(q', d, i)
  <2>1. CASE i \in 1 .. m
    <3>1. q'[i] = q[i]
      BY <2>1, <1>4
    <3>2. /\ q[i].client \in Clients /\ cidTcpSocketMap[q[i].client] # None
          /\ q[i].answer = cidNextOutgoingSeqNum[q[i].client] - 1 + Waiting(q, q[i].client, i)
      BY <2>1, <1>8
    <3>3. Waiting(q', q[i].client, i) = Waiting(q, q[i].client, i)
      BY <2>1, <3>2, <1>6
    <3> QED BY <3>1, <3>2, <3>3
  <2>2. CASE i = m + 1
    <3>1. q'[i].client = c /\ q'[i].answer = answers[c] + 1
      BY <2>2, <1>4
    <3>2. Waiting(q', c, i) = Waiting(q, c, m) + 1 /\ Waiting(q, c, m) \in Nat
      BY <2>2, <1>7
    <3>3. answers[c] = cidNextOutgoingSeqNum[c] - 1 + Waiting(q, c, m)
      BY <1>8
    <3>4. cidNextOutgoingSeqNum[c] \in Nat /\ answers[c] \in Nat
      BY <1>3
    <3> QED BY <3>1, <3>2, <3>3, <3>4, <1>2
  <2> QED BY <2>1, <2>2, <1>4
<1>10. ASSUME NEW d \in Clients
       PROVE  answers'[d] = cidNextOutgoingSeqNum[d] - 1 + Waiting(q', d, m + 1)
  <2>1. answers'[d] = answers[d] + (IF d = c THEN 1 ELSE 0)
    BY <1>1, <1>3
  <2>2. answers[d] = cidNextOutgoingSeqNum[d] - 1 + Waiting(q, d, m)
    BY <1>8
  <2>3. cidNextOutgoingSeqNum[d] \in Nat /\ answers[d] \in Nat
    BY <1>3
  <2> QED BY <2>1, <2>2, <2>3, <1>7
<1>11. Queued'
  BY <1>1, <1>4, <1>9, <1>10 DEF Queued, q
<1> QED BY <1>0, <1>1, <1>5, <1>11, UnusedKept, GatewaysKept, StreamsKept DEF WireInv

\* A new connection, on which nothing is yet; a client that had one before is
\* bound to that one.
LEMMA ConnectWire ==
  ASSUME NEW K, EntryBase, WireInv(K), NEW c \in Clients, Connect(c)
  PROVE  WireInv(K \cup {c})'
<1>0. WireTypeOK /\ Unused /\ Gateways /\ Queued /\ Streams(K) /\ EntryTypeOK
      /\ K \subseteq Clients
  BY DEF WireInv, EntryBase
<1> DEFINE s == <<c, connection[c] + 1>>
<1>1. /\ up' = [up EXCEPT ![c] = TRUE]
      /\ connection' = [connection EXCEPT ![c] = @ + 1]
      /\ next_outgoing_seq_num_' = [next_outgoing_seq_num_ EXCEPT ![c] = 1]
      /\ next_exp_seq_num_' = [next_exp_seq_num_ EXCEPT ![c] = 1]
      /\ outbound' = [outbound EXCEPT ![c] = << >>]
      /\ inbound' = [inbound EXCEPT ![c] = << >>]
      /\ passedOn' = [passedOn EXCEPT ![c] = << >>]
      /\ UNCHANGED <<toExchange, toClient, inbound_data_, outbound_data_,
                     cidTcpSocketMap, cidNextExpSeqNum, cidNextOutgoingSeqNum,
                     outgoingResponses, answers>>
  BY DEF Connect, orderManagerVars, matchingVars
<1>2. s \in Sockets
  BY NewSocket DEF EntryBase
<1>3. /\ connection[c] \in Nat
      /\ \A d \in Clients : connection'[d] = IF d = c THEN connection[c] + 1 ELSE connection[d]
  BY <1>0, <1>1 DEF EntryTypeOK
<1>4. Socket(c)' = s
  BY <1>3 DEF Socket
<1>5. \A d \in Clients : d # c => /\ Socket(d)' = Socket(d) /\ (up'[d] => up[d])
                                  /\ next_outgoing_seq_num_'[d] = next_outgoing_seq_num_[d]
                                  /\ next_exp_seq_num_'[d] = next_exp_seq_num_[d]
                                  /\ outbound'[d] = outbound[d] /\ inbound'[d] = inbound[d]
                                  /\ passedOn'[d] = passedOn[d]
  <2> SUFFICES ASSUME NEW d \in Clients, d # c
               PROVE  /\ Socket(d)' = Socket(d) /\ (up'[d] => up[d])
                      /\ next_outgoing_seq_num_'[d] = next_outgoing_seq_num_[d]
                      /\ next_exp_seq_num_'[d] = next_exp_seq_num_[d]
                      /\ outbound'[d] = outbound[d] /\ inbound'[d] = inbound[d]
                      /\ passedOn'[d] = passedOn[d]
    OBVIOUS
  <2>1. up'[d] => up[d]
    BY <1>0, <1>1, Zenon DEF WireTypeOK
  <2> QED BY <2>1, <1>0, <1>1, <1>3 DEF Socket, WireTypeOK, EntryTypeOK
<1>6. /\ next_outgoing_seq_num_'[c] = 1 /\ next_exp_seq_num_'[c] = 1
      /\ outbound'[c] = << >> /\ inbound'[c] = << >> /\ passedOn'[c] = << >>
  BY <1>0, <1>1 DEF WireTypeOK, EntryTypeOK
<1>7. WireTypeOK'
  <2>1. << >> \in Seq(ClientAnswer) /\ << >> \in Seq(Nat) /\ 1 \in Nat \ {0}
    OBVIOUS
  <2>2. up' \in [Clients -> BOOLEAN]
    BY <1>0, <1>1, Zenon DEF WireTypeOK
  <2> QED BY <2>1, <2>2, <1>0, <1>1 DEF WireTypeOK
<1>m. cidTcpSocketMap[c] # None => cidTcpSocketMap[c][2] <= connection[c]
  BY <1>0 DEF Unused
<1>n. cidTcpSocketMap[c] # s
  <2> SUFFICES ASSUME cidTcpSocketMap[c] = s PROVE FALSE
    OBVIOUS
  <2>1. s[2] <= connection[c]
    BY <1>m, <1>2, NoneAssumption
  <2> QED BY <2>1, <1>3
<1>8. Unused'
  <2>1. ASSUME NEW t \in Sockets, connection'[t[1]] < t[2]
        PROVE  toExchange[t] = << >> /\ inbound_data_[t] = << >>
    <3>1. t[1] \in Clients /\ t[2] \in Nat /\ connection[t[1]] \in Nat
      BY <1>0 DEF Sockets, EntryTypeOK
    <3>2. connection[t[1]] < t[2]
      BY <2>1, <3>1, <1>3
    <3> QED BY <3>2, <1>0 DEF Unused
  <2>2. ASSUME NEW d \in Clients
        PROVE  /\ up'[d] => Socket(d)' \in Sockets
               /\ cidTcpSocketMap[d] # None => cidTcpSocketMap[d][2] <= connection'[d]
    <3>1. CASE d = c
      <4>1. cidTcpSocketMap[c] # None => cidTcpSocketMap[c][2] <= connection[c] + 1
        <5>1. cidTcpSocketMap[c] # None => cidTcpSocketMap[c][2] \in Nat
          BY <1>0, SMTT(30) DEF EntryTypeOK, Sockets
        <5> QED BY <5>1, <1>m, <1>3
      <4> QED BY <4>1, <3>1, <1>2, <1>3, <1>4
    <3>2. CASE d # c
      BY <3>2, <1>0, <1>3, <1>5 DEF Unused
    <3> QED BY <3>1, <3>2
  <2> QED BY <2>1, <2>2, <1>0, <1>1 DEF Unused
<1>9. Gateways'
  <2>1. ASSUME NEW d \in Clients
        PROVE  /\ passedOn'[d] = UpTo(next_exp_seq_num_'[d] - 1)
               /\ cidTcpSocketMap[d] = None \/ cidTcpSocketMap[d] # Socket(d)'
                    => inbound'[d] = << >> /\ next_exp_seq_num_'[d] = 1
    <3>1. CASE d = c
      <4>1. UpTo(1 - 1) = << >>
        BY DEF UpTo
      <4> QED BY <4>1, <3>1, <1>6
    <3>2. CASE d # c
      BY <3>2, <1>0, <1>5 DEF Gateways
    <3> QED BY <3>1, <3>2
  <2> QED BY <2>1, <1>1 DEF Gateways
<1>10. Streams(K \cup {c})'
  <2>1. InStep(c)'
    <3> SUFFICES ASSUME cidTcpSocketMap[c] = None
                 PROVE  /\ cidNextExpSeqNum[c] <= next_outgoing_seq_num_'[c]
                        /\ RequestStream(c)' =
                             HalvesOf(Numbers, cidNextExpSeqNum[c], next_outgoing_seq_num_'[c])
                        /\ next_exp_seq_num_'[c] <= cidNextOutgoingSeqNum[c]
                        /\ AnswerStream(c)' =
                             HalvesOf(AnswersOf(c), next_exp_seq_num_'[c], cidNextOutgoingSeqNum[c])
      BY <1>1, <1>4, <1>n DEF InStep
    <3>1. cidNextExpSeqNum[c] = 1 /\ cidNextOutgoingSeqNum[c] = 1
      BY <1>0 DEF Unused, EntryBase, Served
    <3>2. toExchange[s] = << >> /\ inbound_data_[s] = << >>
      <4>1. connection[s[1]] < s[2]
        BY <1>3
      <4> HIDE DEF s
      <4> QED BY <4>1, <1>0, <1>2 DEF Unused
    <3>3. toClient[s] = << >> /\ outbound_data_[s] = << >>
      <4>1. cidTcpSocketMap[s[1]] # s
        BY <1>n
      <4> HIDE DEF s
      <4> QED BY <4>1, <1>0, <1>2 DEF Unused
    <3>4. RequestStream(c)' = Stream(<< >>, << >>, << >>)
      BY <1>1, <1>4, <1>6, <3>2 DEF RequestStream
    <3>5. AnswerStream(c)' = Stream(<< >>, << >>, << >>)
      BY <1>1, <1>4, <1>6, <3>3 DEF AnswerStream
    <3>6. Stream(<< >>, << >>, << >>) = HalvesOf(Numbers, 1, 1)
      BY ItemTypes, StreamEmpty
    <3>7. Stream(<< >>, << >>, << >>) = HalvesOf(AnswersOf(c), 1, 1)
      <4>1. AnswersOf(c) \in [Nat -> ClientAnswer]
        BY ItemTypes
      <4> QED BY <4>1, StreamEmpty
    <3> QED BY <3>1, <3>4, <3>5, <3>6, <3>7, <1>6
  <2>2. ASSUME NEW d \in K, d # c PROVE InStep(d)'
    <3>1. InStep(d)
      BY <1>0 DEF Streams
    <3>2. Untouched(d)
      BY <2>2, <1>1, <1>3, <1>5 DEF Untouched
    <3> QED BY <3>1, <3>2, <1>0, InStepKept
  <2> QED BY <2>1, <2>2 DEF Streams
<1>11. Queued'
  BY <1>0, <1>1, QueuedKept
<1> QED BY <1>0, <1>7, <1>8, <1>9, <1>10, <1>11 DEF WireInv

\* A request more, behind the others.
LEMMA GatewaySendWire ==
  ASSUME NEW K, EntryBase, WireInv(K), NEW c \in Clients, GatewaySend(c)
  PROVE  WireInv(K)'
<1>0. WireTypeOK /\ Unused /\ Gateways /\ Queued /\ Streams(K) /\ EntryTypeOK
      /\ K \subseteq Clients
  BY DEF WireInv, EntryBase
<1> DEFINE s == Socket(c)
           k == next_outgoing_seq_num_[c]
<1>1. /\ outbound' = [outbound EXCEPT ![c] = @ \o Halves(k)]
      /\ next_outgoing_seq_num_' = [next_outgoing_seq_num_ EXCEPT ![c] = @ + 1]
      /\ UNCHANGED <<connection, up, next_exp_seq_num_, inbound, passedOn, toExchange,
                     toClient, inbound_data_, outbound_data_, cidTcpSocketMap,
                     cidNextExpSeqNum, cidNextOutgoingSeqNum, outgoingResponses, answers>>
  BY DEF GatewaySend, wire, orderManagerVars, matchingVars
<1>2. /\ outbound'[c] = outbound[c] \o Halves(k) /\ next_outgoing_seq_num_'[c] = k + 1
      /\ k \in Nat /\ outbound[c] \in Seq(Nat)
  BY <1>0, <1>1 DEF EntryTypeOK
<1>3. WireTypeOK'
  BY <1>0, <1>1 DEF WireTypeOK
<1>4. ASSUME c \in K PROVE InStep(c)'
  <2> SUFFICES ASSUME up[c], cidTcpSocketMap[c] \in {None, s}
               PROVE  /\ cidNextExpSeqNum[c] <= k + 1
                      /\ RequestStream(c)' = HalvesOf(Numbers, cidNextExpSeqNum[c], k + 1)
                      /\ next_exp_seq_num_[c] <= cidNextOutgoingSeqNum[c]
                      /\ AnswerStream(c)' =
                           HalvesOf(AnswersOf(c), next_exp_seq_num_[c], cidNextOutgoingSeqNum[c])
    BY <1>1, <1>2 DEF InStep, Socket
  <2> DEFINE a == inbound_data_[s]
             b == toExchange[s]
             d == outbound[c]
             first == cidNextExpSeqNum[c]
  <2>1. s \in Sockets
    BY <1>0 DEF Unused
  <2>2. /\ first <= k /\ Stream(a, b, d) = HalvesOf(Numbers, first, k)
        /\ next_exp_seq_num_[c] <= cidNextOutgoingSeqNum[c]
        /\ AnswerStream(c) =
             HalvesOf(AnswersOf(c), next_exp_seq_num_[c], cidNextOutgoingSeqNum[c])
    BY <1>0, <1>4 DEF Streams, InStep, RequestStream
  <2>3. a \in Seq(Number) /\ b \in Seq(Number) /\ d \in Seq(Number) /\ first \in Nat
    BY <1>0, <2>1 DEF EntryTypeOK, Number
  <2>4. RequestStream(c)' = Stream(a, b, Joined(d, Halves(k)))
    BY <1>1, <1>2 DEF RequestStream, Socket, Joined
  <2>5. AnswerStream(c)' = AnswerStream(c)
    BY <1>1 DEF AnswerStream, Socket
  <2> HIDE DEF a, b, d, first, k
  <2>6. Numbers \in [Nat -> Number] /\ Numbers[k] = k
    BY <1>2, ItemTypes
  <2> DEFINE x == Halves(k)
  <2>x. x = Halves(Numbers[k])
    BY <2>6
  <2> HIDE DEF x
  <2>y. k \in Nat /\ first \in Nat /\ first <= k
    BY <1>2, <2>2, <2>3
  <2>z. Stream(a, b, d) = HalvesOf(Numbers, first, k)
    BY <2>2
  <2>7. Stream(a, b, Joined(d, x)) = HalvesOf(Numbers, first, k + 1)
    BY <2>3, <2>6, <2>x, <2>y, <2>z, StreamGrows
  <2>8. first <= k + 1
    BY <1>2, <2>2, <2>3
  <2> QED BY <2>2, <2>4, <2>5, <2>7, <2>8 DEF first, x
<1>5. ASSUME NEW d \in K, d # c PROVE InStep(d)'
  <2>1. InStep(d) /\ Untouched(d)
    BY <1>0, <1>1, <1>5 DEF Streams, Untouched, EntryTypeOK
  <2> QED BY <2>1, <1>0, InStepKept
<1>6. Streams(K)'
  BY <1>4, <1>5 DEF Streams
<1>7. Unused' /\ Gateways' /\ Queued'
  BY <1>0, <1>1, UnusedKept, GatewaysKept, QueuedKept
<1> QED BY <1>0, <1>3, <1>6, <1>7 DEF WireInv

\* The first answer in the queue goes behind the others of its client.
LEMMA ForwardWire ==
  ASSUME NEW K, EntryBase, WireInv(K), ForwardResponse
  PROVE  WireInv(K)'
<1>0. WireTypeOK /\ Unused /\ Gateways /\ Queued /\ Streams(K) /\ EntryTypeOK
      /\ K \subseteq Clients /\ Served
  BY DEF WireInv, EntryBase
<1> PICK c : c = Head(outgoingResponses).client
  OBVIOUS
<1> DEFINE q == outgoingResponses
           s == cidTcpSocketMap[c]
           k == cidNextOutgoingSeqNum[c]
           message == [client |-> c, seq |-> k, answer |-> Head(q).answer]
           more == Halves(message)
           m == Len(q)
<1>1. /\ q # << >> /\ s # None
      /\ outbound_data_' = [outbound_data_ EXCEPT ![s] = @ \o more]
      /\ cidNextOutgoingSeqNum' = [cidNextOutgoingSeqNum EXCEPT ![c] = @ + 1]
      /\ q' = Tail(q)
      /\ UNCHANGED <<connection, up, next_outgoing_seq_num_, next_exp_seq_num_, outbound,
                     inbound, passedOn, toExchange, toClient, inbound_data_,
                     cidTcpSocketMap, cidNextExpSeqNum, answers>>
  BY DEF ForwardResponse, clientVars, wire
<1>2. /\ q \in Seq(Response) /\ m \in Nat \ {0} /\ m - 1 \in Nat
      /\ DOMAIN q = 1 .. m /\ \A i \in 1 .. m : q[i] \in Response
      /\ Head(q) = q[1] /\ 1 \in 1 .. m
      /\ q' \in Seq(Response) /\ Len(q') = m - 1 /\ DOMAIN q' = 1 .. (m - 1)
      /\ \A i \in 1 .. (m - 1) : q'[i] = q[i + 1] /\ i + 1 \in 1 .. m
  <2>1. q \in Seq(Response)
    BY <1>0 DEF WireTypeOK
  <2>2. m \in Nat /\ DOMAIN q = 1 .. m /\ \A i \in 1 .. m : q[i] \in Response
    BY <2>1, LenProperties, Elements
  <2>3. m # 0
    BY <2>1, <1>1, EmptySeq
  <2>4. Head(q) = q[1]
    BY <2>1, <1>1
  <2>5. /\ Tail(q) \in Seq(Response) /\ Len(Tail(q)) = m - 1
        /\ \A i \in 1 .. (m - 1) : Tail(q)[i] = q[i + 1]
    BY <2>1, <1>1, HeadTailProperties
  <2>6. DOMAIN q' = 1 .. (m - 1)
    BY <2>5, <1>1, LenProperties
  <2>7. m - 1 \in Nat /\ 1 \in 1 .. m /\ \A i \in 1 .. (m - 1) : i + 1 \in 1 .. m
    BY <2>2, <2>3
  <2> QED BY <2>1, <2>2, <2>3, <2>4, <2>5, <2>6, <2>7, <1>1
<1>3. c \in Clients /\ s \in Sockets /\ s[1] = c /\ k \in Nat \ {0}
  <2>1. c \in Clients
    BY <1>2 DEF Response
  <2> QED BY <2>1, <1>0, <1>1 DEF Served, EntryTypeOK, WireTypeOK
<1>w. \A d \in Clients : \A i \in Nat : Waiting(q, d, i) \in Nat
  <2> HIDE DEF q
  <2> QED BY WaitingNext
<1>4. Head(q).answer = k
  <2>1. Head(q).answer = k - 1 + Waiting(q, c, 1)
    BY <1>0, <1>2 DEF Queued
  <2>2. Waiting(q, c, 1) = 1
    <3>1. q[1].client = c
      BY <1>2
    <3> HIDE DEF q
    <3>2. Waiting(q, c, 0 + 1) = Waiting(q, c, 0) + (IF q[0 + 1].client = c THEN 1 ELSE 0)
      BY WaitingNext
    <3>3. Waiting(q, c, 0) = 0
      BY WaitingNext
    <3> QED BY <3>1, <3>2, <3>3
  <2> QED BY <2>1, <2>2, <1>3
<1>5. message = AnswersOf(c)[k] /\ AnswersOf(c) \in [Nat -> ClientAnswer]
      /\ message \in ClientAnswer
  <2>1. message = [client |-> c, seq |-> k, answer |-> k]
    BY <1>4
  <2>2. k \in Nat
    BY <1>3
  <2> HIDE DEF message, k
  <2>3. /\ AnswersOf(c) \in [Nat -> ClientAnswer]
        /\ AnswersOf(c)[k] = [client |-> c, seq |-> k, answer |-> k]
    BY <1>3, <2>2, ItemTypes
  <2> QED BY <2>1, <2>2, <2>3
<1>6. more \in Seq(ClientAnswer)
  BY <1>5 DEF Halves
<1> HIDE DEF message, more
<1>7. /\ outbound_data_'[s] = outbound_data_[s] \o more
      /\ outbound_data_[s] \in Seq(ClientAnswer)
      /\ \A t \in Sockets : t # s => outbound_data_'[t] = outbound_data_[t]
      /\ cidNextOutgoingSeqNum'[c] = k + 1
      /\ \A d \in Clients : d # c => cidNextOutgoingSeqNum'[d] = cidNextOutgoingSeqNum[d]
  BY <1>0, <1>1, <1>3 DEF WireTypeOK
<1>8. WireTypeOK'
  <2>1. outbound_data_[s] \o more \in Seq(ClientAnswer)
    BY <1>6, <1>7, ConcatProperties
  <2>2. outbound_data_' \in [Sockets -> Seq(ClientAnswer)]
    BY <2>1, <1>0, <1>1 DEF WireTypeOK
  <2>3. cidNextOutgoingSeqNum' \in [Clients -> Nat \ {0}]
    BY <1>0, <1>1, <1>3 DEF WireTypeOK
  <2> QED BY <2>2, <2>3, <1>0, <1>1, <1>2 DEF WireTypeOK
<1> HIDE DEF k
<1>9. Unused'
  <2>1. ASSUME NEW t \in Sockets, cidTcpSocketMap[t[1]] # t
        PROVE  outbound_data_'[t] = << >>
    <3>1. t # s
      BY <2>1, <1>3
    <3> QED BY <3>1, <2>1, <1>0, <1>7 DEF Unused
  <2>2. ASSUME NEW d \in Clients, cidTcpSocketMap[d] = None
        PROVE  cidNextOutgoingSeqNum'[d] = 1
    BY <2>2, <1>0, <1>1, <1>7 DEF Unused
  <2> HIDE DEF q, s
  <2> QED BY <2>1, <2>2, <1>0, <1>1 DEF Unused, Socket
<1>10. Gateways'
  BY <1>0, <1>1, GatewaysKept
<1>11. Streams(K)'
  <2>1. ASSUME c \in K PROVE InStep(c)'
    <3> SUFFICES ASSUME up[c], s = Socket(c)
                 PROVE  /\ cidNextExpSeqNum[c] <= next_outgoing_seq_num_[c]
                        /\ RequestStream(c)' =
                             HalvesOf(Numbers, cidNextExpSeqNum[c], next_outgoing_seq_num_[c])
                        /\ next_exp_seq_num_[c] <= k + 1
                        /\ AnswerStream(c)' =
                             HalvesOf(AnswersOf(c), next_exp_seq_num_[c], k + 1)
      BY <1>1, <1>7 DEF InStep, Socket
    <3> DEFINE a == inbound[c]
               b == toClient[s]
               d == outbound_data_[s]
               first == next_exp_seq_num_[c]
               item == AnswersOf(c)
    <3>1. /\ first <= k /\ Stream(a, b, d) = HalvesOf(item, first, k)
          /\ cidNextExpSeqNum[c] <= next_outgoing_seq_num_[c]
          /\ RequestStream(c) =
               HalvesOf(Numbers, cidNextExpSeqNum[c], next_outgoing_seq_num_[c])
      BY <1>0, <1>3, <2>1 DEF Streams, InStep, AnswerStream, k
    <3>2. /\ a \in Seq(ClientAnswer) /\ b \in Seq(ClientAnswer) /\ d \in Seq(ClientAnswer)
          /\ first \in Nat
      BY <1>0, <1>3 DEF WireTypeOK
    <3>3. RequestStream(c)' = RequestStream(c)
      BY <1>1, SMTT(30) DEF RequestStream, Socket
    <3>4. AnswerStream(c)' = Stream(a, b, Joined(d, more))
      BY <1>1, <1>7 DEF AnswerStream, Socket, Joined
    <3>5. more = Halves(item[k])
      BY <1>5 DEF more
    <3>6. item \in [Nat -> ClientAnswer] /\ k \in Nat
      BY <1>3, <1>5 DEF k
    <3> HIDE DEF a, b, d, first, item
    <3>7. Stream(a, b, Joined(d, more)) = HalvesOf(item, first, k + 1)
      <4>1. Stream(a, b, d) = HalvesOf(item, first, k) /\ first <= k
        BY <3>1
      <4> QED BY ONLY <4>1, <3>2, <3>5, <3>6, StreamGrows
    <3>8. first <= k + 1
      BY <3>1, <3>2, <3>6
    <3> QED BY <3>1, <3>3, <3>4, <3>7, <3>8, SMTT(30) DEF first, item
  <2>2. ASSUME NEW d \in K, d # c PROVE InStep(d)'
    <3>1. Socket(d) # s
      BY <2>2, <1>3 DEF Socket
    <3>2. InStep(d) /\ Untouched(d)
      BY <2>2, <3>1, <1>0, <1>1, <1>7 DEF Streams, Untouched
    <3> QED BY <3>2, <1>0, InStepKept
  <2> QED BY <2>1, <2>2 DEF Streams
<1>12. /\ \A i \in 1 .. m :
            /\ q[i].client \in Clients /\ cidTcpSocketMap[q[i].client] # None
            /\ q[i].answer = cidNextOutgoingSeqNum[q[i].client] - 1
                             + Waiting(q, q[i].client, i)
       /\ \A d \in Clients : /\ answers[d] = cidNextOutgoingSeqNum[d] - 1 + Waiting(q, d, m)
                             /\ answers[d] \in Nat /\ cidNextOutgoingSeqNum[d] \in Nat
  BY <1>0, <1>2 DEF Queued, Response, WireTypeOK
<1>13. ASSUME NEW d \in Clients, NEW i \in 0 .. (m - 1)
       PROVE  cidNextOutgoingSeqNum'[d] - 1 + Waiting(q', d, i)
                = cidNextOutgoingSeqNum[d] - 1 + Waiting(q, d, i + 1)
  <2>1. i \in Nat /\ \A j \in 1 .. i : q'[j] = q[j + 1]
    BY <1>2
  <2>2. cidNextOutgoingSeqNum'[d] =
          cidNextOutgoingSeqNum[d] + (IF q[1].client = d THEN 1 ELSE 0)
    BY <1>2, <1>3, <1>7, <1>12 DEF k
  <2> HIDE DEF q
  <2>3. Waiting(q, d, i + 1) = Waiting(q', d, i) + (IF q[1].client = d THEN 1 ELSE 0)
    BY <2>1, WaitingTail
  <2>4. Waiting(q', d, i) \in Nat /\ cidNextOutgoingSeqNum[d] \in Nat
    BY <2>1, <1>12, WaitingNext
  <2> QED BY <2>2, <2>3, <2>4
<1> HIDE DEF q, m
<1>14. Queued'
  <2>1. ASSUME NEW i \in 1 .. (m - 1)
        PROVE  LET d == q'[i].client
               IN /\ cidTcpSocketMap[d] # None
                  /\ q'[i].answer = cidNextOutgoingSeqNum'[d] - 1 + Waiting(q', d, i)
    <3>0. i \in 0 .. (m - 1)
      OBVIOUS
    <3>1. q'[i] = q[i + 1] /\ i + 1 \in 1 .. m
      BY <1>2
    <3>2. /\ q[i + 1].client \in Clients /\ cidTcpSocketMap[q[i + 1].client] # None
          /\ q[i + 1].answer = cidNextOutgoingSeqNum[q[i + 1].client] - 1
                               + Waiting(q, q[i + 1].client, i + 1)
      BY <3>1, <1>12
    <3> QED BY <3>0, <3>1, <3>2, <1>13
  <2>2. ASSUME NEW d \in Clients
        PROVE  answers[d] = cidNextOutgoingSeqNum'[d] - 1 + Waiting(q', d, m - 1)
    <3>1. m - 1 \in 0 .. (m - 1) /\ (m - 1) + 1 = m
      BY <1>2
    <3>2. cidNextOutgoingSeqNum'[d] - 1 + Waiting(q', d, m - 1)
            = cidNextOutgoingSeqNum[d] - 1 + Waiting(q, d, (m - 1) + 1)
      BY <3>1, <1>13
    <3> QED BY <3>1, <3>2, <1>12
  <2> QED BY <2>1, <2>2, <1>1, <1>2 DEF Queued, q
<1> QED BY <1>0, <1>8, <1>9, <1>10, <1>11, <1>14 DEF WireInv

\* A gateway's read, which takes what is bound for it and sends what it has.
LEMMA GatewayReadWire ==
  ASSUME NEW K, EntryBase, WireInv(K), NotCut(K), NEW c \in Clients, up[c], GatewayStep(c)
  PROVE  WireInv(K)'
<1>0. WireTypeOK /\ Unused /\ Gateways /\ Queued /\ Streams(K) /\ EntryTypeOK
      /\ K \subseteq Clients
  BY DEF WireInv, EntryBase
<1> DEFINE s == Socket(c)
           a == inbound[c]
           b == toClient[s]
           d == outbound_data_[s]
           first == next_exp_seq_num_[c]
           item == AnswersOf(c)
<1>1. PICK n \in 0 .. Len(b) : GatewaySendAndRecv(c, n)
  BY DEF GatewayStep
<1> DEFINE bytes == Joined(a, First(b, n))
           h == Len(Messages(bytes))
           gateway == AfterAnswers(c, [expected |-> first, passedOn |-> passedOn[c]],
                                   Messages(bytes))
<1>2. /\ toClient' = [toClient EXCEPT ![s] = Rest(@, n)]
      /\ inbound' = [inbound EXCEPT ![c] = Remainder(bytes)]
      /\ next_exp_seq_num_' = [next_exp_seq_num_ EXCEPT ![c] = gateway.expected]
      /\ passedOn' = [passedOn EXCEPT ![c] = gateway.passedOn]
      /\ toExchange' = [toExchange EXCEPT ![s] = Sent(@, outbound[c])]
      /\ outbound' = [outbound EXCEPT ![c] = << >>]
      /\ UNCHANGED <<connection, up, next_outgoing_seq_num_, inbound_data_, outbound_data_,
                     cidTcpSocketMap, cidNextExpSeqNum, cidNextOutgoingSeqNum,
                     outgoingResponses, answers>>
  BY <1>1 DEF GatewaySendAndRecv, orderManagerVars, matchingVars, Joined
<1>3. s \in Sockets /\ s[1] = c /\ s[2] = connection[c]
  BY <1>0 DEF Unused, Socket
<1>4. /\ a \in Seq(ClientAnswer) /\ b \in Seq(ClientAnswer) /\ d \in Seq(ClientAnswer)
      /\ first \in Nat \ {0} /\ passedOn[c] = UpTo(first - 1)
      /\ toExchange[s] \in Seq(Nat) /\ outbound[c] \in Seq(Nat)
      /\ item \in [Nat -> ClientAnswer]
  <2>1. item \in [Nat -> ClientAnswer]
    BY ItemTypes
  <2> HIDE DEF item
  <2> QED BY <2>1, <1>0, <1>3 DEF WireTypeOK, EntryTypeOK, Gateways
<1> DEFINE bound == cidTcpSocketMap[c] = s
           left == Remainder(bytes)
           rest == Rest(b, n)
<1> HIDE DEF a, b, d, item, first, bound
<1>7. /\ left \in Seq(ClientAnswer) /\ rest \in Seq(ClientAnswer)
      /\ bytes \in Seq(ClientAnswer)
  <2>1. bytes \in Seq(ClientAnswer) /\ rest \in Seq(ClientAnswer)
    BY ONLY <1>4, n \in 0 .. Len(b), StreamCut
  <2> HIDE DEF bytes
  <2> QED BY <2>1, RemainderType
\* What the gateway expects then.  If its client is one whose sends were not cut
\* short, the rest of the answers is behind.
<1>8. \E e \in Nat :
        /\ first <= e
        /\ gateway = [expected |-> e, passedOn |-> UpTo(e - 1)]
        /\ ~ bound => left = << >> /\ rest = << >> /\ e = first
        /\ bound /\ c \in K =>
             /\ e <= cidNextOutgoingSeqNum[c]
             /\ Stream(left, rest, d) = HalvesOf(item, e, cidNextOutgoingSeqNum[c])
  <2>a. CASE bound /\ c \notin K
    <3>1. gateway = AfterAnswers(c, [expected |-> first, passedOn |-> UpTo(first - 1)],
                                 Messages(bytes))
      BY <1>4
    <3> DEFINE messages == Messages(bytes)
    <3>2. /\ Len(messages) \in Nat
          /\ \A k \in 1 .. Len(messages) : messages[k] \in ClientAnswer
      <4> HIDE DEF bytes
      <4>1. Len(messages) = Len(bytes) \div 2
        BY <1>7, MessagesType
      <4> DEFINE m == Len(bytes) \div 2
      <4>2. Len(bytes) \in Nat /\ m \in Nat /\ 2 * m <= Len(bytes)
        BY <1>7, LenProperties, Halving
      <4>3. ASSUME NEW k \in 1 .. m PROVE messages[k] \in ClientAnswer
        <5>1. messages[k] = bytes[2 * k - 1]
          BY <4>3 DEF Messages
        <5> HIDE DEF m
        <5>2. 2 * k - 1 \in 1 .. Len(bytes)
          BY <4>2
        <5>3. bytes[2 * k - 1] \in ClientAnswer
          BY <1>7, <5>2
        <5> QED BY <5>1, <5>3
      <4> QED BY <4>1, <4>2, <4>3
    <3> HIDE DEF messages
    <3>3. PICK e \in Nat :
            /\ first <= e
            /\ AfterAnswers(c, [expected |-> first, passedOn |-> UpTo(first - 1)], messages)
                 = [expected |-> e, passedOn |-> UpTo(e - 1)]
      BY ONLY <1>4, <3>2, c \in Clients, AnyPassed
    <3> QED BY <2>a, <3>1, <3>3 DEF messages
  <2>b. CASE ~ bound \/ c \in K
    <3> DEFINE last == IF bound THEN cidNextOutgoingSeqNum[c] ELSE first
    <3>5. last \in Nat /\ first <= last /\ Stream(a, b, d) = HalvesOf(item, first, last)
          /\ (~ bound => d = << >>)
      <4>1. CASE bound
        BY <4>1, <1>0, <2>b DEF Streams, InStep, AnswerStream, WireTypeOK, a, b, d, item,
                                first, bound
      <4>2. CASE ~ bound
        <5>1. a = << >>
          BY <4>2, <1>0 DEF Gateways, a, bound
        <5>2. b = << >> /\ d = << >>
          BY <4>2, <1>0, <1>3 DEF Unused, b, d, bound
        <5>3. last = first /\ first \in Nat
          BY <4>2, <1>4
        <5>4. item \in [Nat -> ClientAnswer]
          BY <1>4
        <5>5. Stream(<< >>, << >>, << >>) = HalvesOf(item, first, first)
          BY <5>3, <5>4, StreamEmpty
        <5> QED BY <5>1, <5>2, <5>3, <5>5
      <4> QED BY <4>1, <4>2
    <3>k. bound => last = cidNextOutgoingSeqNum[c]
      OBVIOUS
    <3>l. ~ bound => last = first
      OBVIOUS
    <3> HIDE DEF last
    <3>6. /\ h \in Nat /\ first + h <= last
          /\ Stream(left, rest, d) = HalvesOf(item, first + h, last)
          /\ ItemsFrom(Messages(bytes), item, first)
          /\ bytes \in Seq(ClientAnswer)
      <4>1. /\ first \in Nat /\ n \in 0 .. Len(b)
            /\ a \in Seq(ClientAnswer) /\ b \in Seq(ClientAnswer) /\ d \in Seq(ClientAnswer)
            /\ item \in [Nat -> ClientAnswer]
        BY <1>4
      <4>2. last \in Nat /\ first <= last /\ Stream(a, b, d) = HalvesOf(item, first, last)
        BY <3>5
      <4>3. /\ Len(Messages(bytes)) \in Nat /\ first + Len(Messages(bytes)) <= last
            /\ Stream(Remainder(bytes), Rest(b, n), d)
                 = HalvesOf(item, first + Len(Messages(bytes)), last)
            /\ ItemsFrom(Messages(bytes), item, first)
        BY ONLY <4>1, <4>2, StreamTaken, SMTT(30)
      <4>4. bytes \in Seq(ClientAnswer)
        BY ONLY <4>1, StreamCut
      <4> QED BY <4>3, <4>4
    <3>8. gateway = [expected |-> first + h, passedOn |-> UpTo(first + h - 1)]
      <4> HIDE DEF bytes
      <4>1. gateway = AfterAnswers(c, [expected |-> first, passedOn |-> UpTo(first - 1)],
                                   Messages(bytes))
        BY <1>4
      <4>2. ItemsFrom(Messages(bytes), AnswersOf(c), first)
        BY <3>6 DEF item
      <4> QED BY <4>1, <4>2, <1>4, <3>6, AllPassed
    <3> HIDE DEF bytes, h, gateway, left, rest
    <3>9. ~ bound => left = << >> /\ rest = << >> /\ h = 0
      <4> SUFFICES ASSUME ~ bound PROVE left = << >> /\ rest = << >> /\ h = 0
        OBVIOUS
      <4>1. h = 0 /\ first + h = first
        BY <3>l, <1>4, <3>6
      <4>2. Stream(left, rest, d) = << >>
        BY <4>1, <3>l, <3>6, <1>4, NoHalves
      <4>3. Len(Stream(left, rest, d)) = Len(left) + (Len(rest) + Len(d))
        BY <1>4, <1>7, StreamLength
      <4>4. Len(left) \in Nat /\ Len(rest) \in Nat /\ Len(d) \in Nat
        BY <1>4, <1>7, LenProperties
      <4>5. Len(left) = 0 /\ Len(rest) = 0
        BY <4>2, <4>3, <4>4
      <4> QED BY <4>1, <4>5, <1>7, EmptySeq
    <3>10. first + h \in Nat /\ first <= first + h /\ (h = 0 => first + h = first)
      BY <1>4, <3>6
    <3>11. gateway = [expected |-> first + h, passedOn |-> UpTo((first + h) - 1)]
      <4>1. (first + h) - 1 = first + h - 1
        BY <1>4, <3>6
      <4> QED BY <4>1, <3>8, Zenon
    <3> QED BY <3>k, <3>6, <3>9, <3>10, <3>11
  <2> QED BY <2>a, <2>b
<1> PICK e \in Nat :
      /\ first <= e
      /\ gateway = [expected |-> e, passedOn |-> UpTo(e - 1)]
      /\ ~ bound => left = << >> /\ rest = << >> /\ e = first
      /\ bound /\ c \in K =>
           /\ e <= cidNextOutgoingSeqNum[c]
           /\ Stream(left, rest, d) = HalvesOf(item, e, cidNextOutgoingSeqNum[c])
  BY <1>8
<1> HIDE DEF bytes, h, gateway, left, rest
<1>10. /\ toClient'[s] = rest /\ inbound'[c] = left
       /\ next_exp_seq_num_'[c] = e
       /\ passedOn'[c] = UpTo(e - 1)
       /\ toExchange'[s] = Sent(toExchange[s], outbound[c]) /\ outbound'[c] = << >>
  <2>1. gateway.expected = e /\ gateway.passedOn = UpTo(e - 1)
    OBVIOUS
  <2> QED BY <2>1, <1>0, <1>2, <1>3 DEF WireTypeOK, EntryTypeOK, rest, left, b
<1>11. /\ \A t \in Sockets : t # s => toClient'[t] = toClient[t] /\ toExchange'[t] = toExchange[t]
       /\ \A y \in Clients : y # c =>
            /\ inbound'[y] = inbound[y] /\ outbound'[y] = outbound[y]
            /\ next_exp_seq_num_'[y] = next_exp_seq_num_[y] /\ passedOn'[y] = passedOn[y]
  BY <1>0, <1>2, <1>3 DEF WireTypeOK, EntryTypeOK
<1>12. WireTypeOK'
  <2>1. e \in Nat \ {0} /\ e - 1 \in Nat
    BY <1>4
  <2>2. UpTo(e - 1) \in Seq(Nat)
    BY <2>1, UpToNext
  <2>3. gateway.expected = e /\ gateway.passedOn = UpTo(e - 1)
    OBVIOUS
  <2>4. toClient' \in [Sockets -> Seq(ClientAnswer)]
    BY <1>0, <1>2, <1>7 DEF WireTypeOK, rest, b
  <2>5. inbound' \in [Clients -> Seq(ClientAnswer)]
    BY <1>0, <1>2, <1>7 DEF WireTypeOK, left
  <2>6. /\ next_exp_seq_num_' \in [Clients -> Nat \ {0}]
        /\ passedOn' \in [Clients -> Seq(Nat)]
    BY <1>0, <1>2, <2>1, <2>2, <2>3 DEF WireTypeOK
  <2> QED BY <2>4, <2>5, <2>6, <1>0, <1>2 DEF WireTypeOK
<1>13. Unused'
  <2>1. ASSUME NEW t \in Sockets, connection[t[1]] < t[2]
        PROVE  toExchange'[t] = << >> /\ inbound_data_[t] = << >>
    <3>1. t # s
      <4>1. connection[c] \in Nat
        BY <1>0 DEF EntryTypeOK
      <4> QED BY <4>1, <2>1, <1>3
    <3> QED BY <3>1, <2>1, <1>0, <1>11 DEF Unused
  <2>2. ASSUME NEW t \in Sockets, cidTcpSocketMap[t[1]] # t
        PROVE  toClient'[t] = << >> /\ outbound_data_[t] = << >>
    <3>1. toClient[t] = << >> /\ outbound_data_[t] = << >>
      BY <2>2, <1>0 DEF Unused
    <3>2. CASE t = s
      BY <3>1, <3>2, <2>2, <1>3, <1>10 DEF bound
    <3> QED BY <3>1, <3>2, <1>11
  <2> HIDE DEF s
  <2>3. \A y \in Clients : Socket(y)' = Socket(y)
    BY <1>2 DEF Socket
  <2> QED BY <2>1, <2>2, <2>3, <1>0, <1>2 DEF Unused
<1>14. Gateways'
  <2>1. ASSUME NEW y \in Clients
        PROVE  /\ passedOn'[y] = UpTo(next_exp_seq_num_'[y] - 1)
               /\ cidTcpSocketMap[y] = None \/ cidTcpSocketMap[y] # Socket(y)
                    => inbound'[y] = << >> /\ next_exp_seq_num_'[y] = 1
    <3>1. /\ passedOn[y] = UpTo(next_exp_seq_num_[y] - 1)
          /\ cidTcpSocketMap[y] = None \/ cidTcpSocketMap[y] # Socket(y)
               => inbound[y] = << >> /\ next_exp_seq_num_[y] = 1
      BY <1>0 DEF Gateways
    <3>2. CASE y = c
      <4>1. cidTcpSocketMap[c] = None \/ cidTcpSocketMap[c] # Socket(c) => ~ bound
        BY <1>3, NoneAssumption DEF bound
      <4>3. passedOn'[c] = UpTo(next_exp_seq_num_'[c] - 1)
        BY <1>10, Zenon
      <4>4. ASSUME cidTcpSocketMap[c] = None \/ cidTcpSocketMap[c] # Socket(c)
            PROVE  inbound'[c] = << >> /\ next_exp_seq_num_'[c] = 1
        <5>1. first = 1 /\ e = first /\ left = << >>
          BY <4>1, <4>4, <3>1, <3>2 DEF first
        <5> QED BY <5>1, <1>10
      <4> QED BY <4>3, <4>4, <3>2
    <3>3. CASE y # c
      BY <3>1, <3>3, <1>11
    <3> QED BY <3>2, <3>3
  <2> QED BY <2>1, <1>2 DEF Gateways, Socket
<1>15. Streams(K)'
  <2>1. ASSUME c \in K PROVE InStep(c)'
    <3> SUFFICES ASSUME cidTcpSocketMap[c] \in {None, s}
                 PROVE  /\ cidNextExpSeqNum[c] <= next_outgoing_seq_num_[c]
                        /\ RequestStream(c)' =
                             HalvesOf(Numbers, cidNextExpSeqNum[c], next_outgoing_seq_num_[c])
                        /\ e <= cidNextOutgoingSeqNum[c]
                        /\ AnswerStream(c)' = HalvesOf(item, e, cidNextOutgoingSeqNum[c])
      BY <1>2, <1>10 DEF InStep, Socket, item
    <3>1. /\ cidNextExpSeqNum[c] <= next_outgoing_seq_num_[c]
          /\ RequestStream(c) =
               HalvesOf(Numbers, cidNextExpSeqNum[c], next_outgoing_seq_num_[c])
          /\ first <= cidNextOutgoingSeqNum[c]
          /\ AnswerStream(c) = HalvesOf(item, first, cidNextOutgoingSeqNum[c])
      BY <1>0, <2>1 DEF Streams, InStep, item, first
    <3>2. RequestStream(c)' = RequestStream(c)
      <4> DEFINE read == inbound_data_[s]
                 way == toExchange[s]
                 buffer == outbound[c]
      <4>1. RequestStream(c)' = Stream(read, Sent(way, buffer), << >>)
        BY <1>2, <1>10 DEF RequestStream, Socket
      <4>2. RequestStream(c) = Stream(read, way, buffer)
        BY DEF RequestStream
      <4>3. /\ read \in Seq(Number) /\ way \in Seq(Number) /\ buffer \in Seq(Number)
            /\ Len(way) + Len(buffer) <= SocketBuffer
        <5>1. /\ read \in Seq(Number) /\ way \in Seq(Number) /\ buffer \in Seq(Number)
          BY <1>0, <1>3 DEF EntryTypeOK, Number
        <5>2. ~ CutShort(s) /\ outbound'[s[1]] = << >> /\ Open(s) /\ outbound[s[1]] = buffer
          BY <2>1, <1>3, <1>10 DEF NotCut, Open
        <5>3. ~ (Len(way) + Len(buffer) > SocketBuffer)
          BY <5>2 DEF CutShort
        <5> HIDE DEF read, way, buffer
        <5>4. Len(way) + Len(buffer) \in Nat
          BY <5>1, LenProperties
        <5> QED BY <5>1, <5>3, <5>4, OrderEntryAssumption
      <4> HIDE DEF read, way, buffer
      <4>4. Stream(read, Sent(way, buffer), << >>) = Stream(read, way, buffer)
        BY ONLY <4>3, StreamSent
      <4> QED BY <4>1, <4>2, <4>4
    <3>3. AnswerStream(c)' = Stream(left, rest, d)
      BY <1>2, <1>10 DEF AnswerStream, Socket, d
    <3>4. CASE bound
      BY <2>1, <3>1, <3>2, <3>3, <3>4
    <3>5. CASE ~ bound
      \* The client has no socket yet, nor has the exchange an answer for it.
      <4>1. cidTcpSocketMap[c] = None
        BY <3>5 DEF bound
      <4>2. cidNextOutgoingSeqNum[c] = 1 /\ first = 1
        BY <4>1, <1>0 DEF Unused, Gateways, first
      <4>3. e = first /\ left = << >> /\ rest = << >>
        BY <3>5
      <4>4. d = << >>
        BY <4>1, <1>0, <1>3, NoneAssumption DEF Unused, d
      <4>5. Stream(<< >>, << >>, << >>) = HalvesOf(item, 1, 1)
        BY <1>4, StreamEmpty
      <4> QED BY <4>2, <4>3, <4>4, <4>5, <3>1, <3>2, <3>3
    <3> QED BY <3>4, <3>5
  <2>2. ASSUME NEW y \in K, y # c PROVE InStep(y)'
    <3>1. Socket(y) # s
      BY <2>2 DEF Socket
    <3>2. InStep(y) /\ Untouched(y)
      BY <2>2, <3>1, <1>0, <1>2, <1>11 DEF Streams, Untouched
    <3> QED BY <3>2, <1>0, InStepKept
  <2> QED BY <2>1, <2>2 DEF Streams
<1>16. Queued'
  BY <1>0, <1>2, QueuedKept
<1> QED BY <1>0, <1>12, <1>13, <1>14, <1>15, <1>16 DEF WireInv

\* A read of the exchange, which takes what is bound for it from the socket of
\* the client, or from the first one if it has none, and sends what it has.
LEMMA VisitWire ==
  ASSUME NEW K, EntryBase, WireInv(K), NotCut(K),
         NEW n \in Nat, NEW time \in Times, Visit(n, time)
  PROVE  WireInv(K)'
<1>0. WireTypeOK /\ Unused /\ Gateways /\ Queued /\ Streams(K) /\ EntryTypeOK
      /\ K \subseteq Clients
  BY DEF WireInv, EntryBase
<1> PICK s : s = Visited
  OBVIOUS
<1> DEFINE c == s[1]
           a == inbound_data_[s]
           b == toExchange[s]
           bytes == ReadBytes(s, n)
           start == ReadStart(s)
           state == ReadState(s, n, time)
<1>1. /\ toExchange' = [toExchange EXCEPT ![s] = Rest(@, n)]
      /\ inbound_data_' = [inbound_data_ EXCEPT ![s] = Remainder(bytes)]
      /\ cidTcpSocketMap' = [cidTcpSocketMap EXCEPT ![c] = state.socket]
      /\ cidNextExpSeqNum' = [cidNextExpSeqNum EXCEPT ![c] = state.expected]
      /\ toClient' = [toClient EXCEPT ![s] = IF Open(s) THEN Sent(@, outbound_data_[s]) ELSE @]
      /\ outbound_data_' = [outbound_data_ EXCEPT ![s] = << >>]
      /\ UNCHANGED <<connection, up, next_outgoing_seq_num_, next_exp_seq_num_, outbound,
                     inbound, passedOn, cidNextOutgoingSeqNum, outgoingResponses, answers>>
  BY DEF Visit, SendAndRecv, clientVars, matchingVars, Visited, ReadBytes, ReadStart, ReadState
<1>2. /\ visiting \in 1 .. Len(recv_sockets_) /\ s \in Sockets /\ c \in Clients
      /\ a \in Seq(Nat) /\ b \in Seq(Nat) /\ n \in 0 .. Len(b)
      /\ start \in ReadStates /\ state \in ReadStates /\ Follows(start, state, s, time)
      /\ Len(Messages(bytes)) \in Nat
  BY <1>0, VisitReads
<1>3. /\ start.socket = cidTcpSocketMap[c] /\ start.expected = cidNextExpSeqNum[c]
      /\ state = AfterRequests(s, time, start, Messages(bytes))
      /\ bytes = Joined(a, First(b, n))
  BY DEF ReadStart, ReadState, ReadBytes, Joined
<1>4. s # None /\ s[2] \in Nat /\ connection[c] \in Nat /\ s[2] <= connection[c]
  <2>1. /\ recv_sockets_ \in Seq(Sockets) /\ backlog \in Seq(Sockets)
    BY <1>0 DEF EntryTypeOK
  <2>2. visiting \in 1 .. Len(Accepted) /\ Accepted[visiting] = s
    BY <2>1, <1>2, ConcatProperties, LenProperties DEF Accepted, Visited
  <2>3. s[2] <= connection[c]
    BY <2>2 DEF EntryBase, Connections
  <2>4. s # None
    BY <1>2, NoneAssumption
  <2>5. s[2] \in Nat
    BY <1>2 DEF Sockets
  <2>6. connection[c] \in Nat
    BY <1>0, <1>2 DEF EntryTypeOK
  <2> QED BY <2>3, <2>4, <2>5, <2>6
<1>c. c = s[1]
  OBVIOUS
<1> HIDE DEF c, a, b, bytes, start, state
<1>5. /\ \/ cidTcpSocketMap'[c] = cidTcpSocketMap[c]
         \/ cidTcpSocketMap[c] = None /\ cidTcpSocketMap'[c] = s
      /\ cidTcpSocketMap'[c] # s => cidNextExpSeqNum'[c] = cidNextExpSeqNum[c]
      /\ cidNextExpSeqNum'[c] = state.expected
  <2>1. state.socket = start.socket \/ (start.socket = None /\ state.socket = s)
    BY <1>2 DEF Follows
  <2>2. start.expected <= state.expected /\ (start.expected < state.expected => state.socket = s)
    BY <1>2 DEF Follows
  <2>3. start.expected \in Nat /\ state.expected \in Nat
    BY <1>2 DEF ReadStates
  <2>4. cidTcpSocketMap'[c] = state.socket /\ cidNextExpSeqNum'[c] = state.expected
    BY <1>0, <1>1, <1>2 DEF EntryTypeOK
  <2> QED BY <2>1, <2>2, <2>3, <2>4, <1>3
<1>6. /\ toExchange'[s] = Rest(b, n) /\ inbound_data_'[s] = Remainder(bytes)
      /\ toClient'[s] = (IF Open(s) THEN Sent(toClient[s], outbound_data_[s]) ELSE toClient[s])
      /\ outbound_data_'[s] = << >>
  BY <1>0, <1>1, <1>2 DEF EntryTypeOK, WireTypeOK, b
<1>7. /\ \A t \in Sockets : t # s =>
           /\ toExchange'[t] = toExchange[t] /\ inbound_data_'[t] = inbound_data_[t]
           /\ toClient'[t] = toClient[t] /\ outbound_data_'[t] = outbound_data_[t]
      /\ \A e \in Clients : e # c =>
           /\ cidTcpSocketMap'[e] = cidTcpSocketMap[e]
           /\ cidNextExpSeqNum'[e] = cidNextExpSeqNum[e]
  BY <1>0, <1>1, <1>2 DEF EntryTypeOK, WireTypeOK
<1>8. toClient[s] \in Seq(ClientAnswer) /\ outbound_data_[s] \in Seq(ClientAnswer)
  BY <1>0, <1>2 DEF WireTypeOK
<1>9. WireTypeOK'
  <2>1. Sent(toClient[s], outbound_data_[s]) \in Seq(ClientAnswer) /\ << >> \in Seq(ClientAnswer)
    BY <1>8, SentType
  <2>2. toClient'[s] \in Seq(ClientAnswer)
    BY <2>1, <1>6, <1>8
  <2>3. toClient' \in [Sockets -> Seq(ClientAnswer)]
    <3>1. toClient' = [toClient EXCEPT ![s] = toClient'[s]]
      BY <1>0, <1>1, <1>2, <1>6 DEF WireTypeOK
    <3> QED BY <3>1, <2>2, <1>0 DEF WireTypeOK
  <2>4. outbound_data_' \in [Sockets -> Seq(ClientAnswer)]
    BY <2>1, <1>0, <1>1 DEF WireTypeOK
  <2> QED BY <2>3, <2>4, <1>0, <1>1 DEF WireTypeOK
\* The socket of another client, or another one of this client, is not touched.
<1>10. Unused'
  <2>1. ASSUME NEW t \in Sockets, connection[t[1]] < t[2]
        PROVE  toExchange'[t] = << >> /\ inbound_data_'[t] = << >>
    <3>1. t # s
      BY <2>1, <1>4, <1>c
    <3> QED BY <3>1, <2>1, <1>0, <1>7 DEF Unused
  <2>2. ASSUME NEW t \in Sockets, cidTcpSocketMap'[t[1]] # t
        PROVE  toClient'[t] = << >> /\ outbound_data_'[t] = << >>
    <3>1. t[1] \in Clients /\ t # None
      BY NoneAssumption DEF Sockets
    <3>2. cidTcpSocketMap[t[1]] # t
      BY <3>1, <2>2, <1>5, <1>7
    <3>3. toClient[t] = << >> /\ outbound_data_[t] = << >>
      BY <3>2, <1>0 DEF Unused
    <3>4. CASE t = s
      <4>1. Sent(<< >>, << >>) = << >>
        <5>1. << >> \in Seq(ClientAnswer) /\ Len(<< >>) + Len(<< >>) <= SocketBuffer
          BY OrderEntryAssumption
        <5>2. Sent(<< >>, << >>) = << >> \o << >>
          BY ONLY <5>1, SentAll
        <5> QED BY <5>2
      <4> QED BY <4>1, <3>3, <3>4, <1>6
    <3> QED BY <3>3, <3>4, <1>7
  <2>3. ASSUME NEW e \in Clients
        PROVE  /\ up[e] => Socket(e) \in Sockets
               /\ cidTcpSocketMap'[e] = None => cidNextOutgoingSeqNum[e] = 1
               /\ cidTcpSocketMap'[e] # None => cidTcpSocketMap'[e][2] <= connection[e]
    <3>1. /\ up[e] => Socket(e) \in Sockets
          /\ cidTcpSocketMap[e] = None => cidNextOutgoingSeqNum[e] = 1
          /\ cidTcpSocketMap[e] # None => cidTcpSocketMap[e][2] <= connection[e]
      BY <1>0 DEF Unused
    <3>2. cidTcpSocketMap'[e] = cidTcpSocketMap[e]
          \/ (e = c /\ cidTcpSocketMap[e] = None /\ cidTcpSocketMap'[e] = s)
      BY <1>5, <1>7
    <3> QED BY <3>1, <3>2, <1>4
  <2>4. \A e \in Clients : Socket(e)' = Socket(e)
    BY <1>1 DEF Socket
  <2> QED BY <2>1, <2>2, <2>3, <2>4, <1>1 DEF Unused
<1>11. Gateways'
  <2>1. ASSUME NEW e \in Clients, cidTcpSocketMap'[e] = None \/ cidTcpSocketMap'[e] # Socket(e)
        PROVE  cidTcpSocketMap[e] = None \/ cidTcpSocketMap[e] # Socket(e)
    BY <2>1, <1>5, <1>7
  <2> QED BY <2>1, <1>0, <1>1 DEF Gateways, Socket
<1>12. Queued'
  <2>1. \A e \in Clients : cidTcpSocketMap[e] # None => cidTcpSocketMap'[e] # None
    BY <1>5, <1>7
  <2>2. \A i \in DOMAIN outgoingResponses : outgoingResponses[i].client \in Clients
    <3>1. outgoingResponses \in Seq(Response)
      BY <1>0 DEF WireTypeOK
    <3>2. \A i \in DOMAIN outgoingResponses : outgoingResponses[i] \in Response
      BY <3>1, Elements
    <3> QED BY <3>2 DEF Response
  <2> QED BY <2>1, <2>2, <1>0, <1>1 DEF Queued
<1>13. Streams(K)'
  <2>1. ASSUME NEW e \in K, e # c PROVE InStep(e)'
    <3>1. Socket(e) # s
      BY <2>1, <1>c DEF Socket
    <3>2. InStep(e) /\ Untouched(e)
      BY <2>1, <3>1, <1>0, <1>1, <1>7 DEF Streams, Untouched
    <3> QED BY <3>2, <1>0, InStepKept
  <2>n. CASE c \notin K
    BY <2>n, <2>1 DEF Streams
  <2>2. CASE c \in K /\ ~ up[c]
    <3>1. ~ up'[c]
      BY <2>2, <1>1
    <3>2. InStep(c)'
      BY <3>1 DEF InStep
    <3> QED BY <3>2, <2>1 DEF Streams
  <2>3. CASE c \in K /\ up[c] /\ Socket(c) # s
    <3>1. CASE cidTcpSocketMap'[c] = s
      <4>1. ~ (cidTcpSocketMap'[c] \in {None, Socket(c)'})
        BY <3>1, <2>3, <1>1, <1>4 DEF Socket
      <4>2. InStep(c)'
        BY <4>1 DEF InStep
      <4> QED BY <4>2, <2>1 DEF Streams
    <3>2. CASE cidTcpSocketMap'[c] # s
      <4>1. InStep(c) /\ Untouched(c)
        BY <3>2, <2>3, <1>0, <1>1, <1>2, <1>5, <1>7 DEF Streams, Untouched
      <4>2. InStep(c)'
        BY <4>1, <1>0, <1>2, InStepKept
      <4> QED BY <4>2, <2>1 DEF Streams
    <3> QED BY <3>1, <3>2
  <2>4. CASE c \in K /\ up[c] /\ Socket(c) = s
    <3> DEFINE d == outbound[c]
               first == cidNextExpSeqNum[c]
               last == next_outgoing_seq_num_[c]
               h == Len(Messages(bytes))
    <3> SUFFICES ASSUME cidTcpSocketMap'[c] \in {None, s}
                 PROVE  /\ cidNextExpSeqNum'[c] <= last
                        /\ RequestStream(c)' = HalvesOf(Numbers, cidNextExpSeqNum'[c], last)
                        /\ next_exp_seq_num_[c] <= cidNextOutgoingSeqNum[c]
                        /\ AnswerStream(c)' =
                             HalvesOf(AnswersOf(c), next_exp_seq_num_[c], cidNextOutgoingSeqNum[c])
      <4>1. Socket(c)' = s
        BY <2>4, <1>1 DEF Socket
      <4>2. InStep(c)' <=>
              (up[c] /\ cidTcpSocketMap'[c] \in {None, s} =>
                 /\ cidNextExpSeqNum'[c] <= last
                 /\ RequestStream(c)' = HalvesOf(Numbers, cidNextExpSeqNum'[c], last)
                 /\ next_exp_seq_num_[c] <= cidNextOutgoingSeqNum[c]
                 /\ AnswerStream(c)' =
                      HalvesOf(AnswersOf(c), next_exp_seq_num_[c], cidNextOutgoingSeqNum[c]))
        BY <4>1, <1>1 DEF InStep
      <4> QED BY <4>2, <2>1 DEF Streams
    <3>1. cidTcpSocketMap[c] \in {None, s}
      BY <1>5
    <3>2. /\ first <= last /\ Stream(a, b, d) = HalvesOf(Numbers, first, last)
          /\ next_exp_seq_num_[c] <= cidNextOutgoingSeqNum[c]
          /\ AnswerStream(c) =
               HalvesOf(AnswersOf(c), next_exp_seq_num_[c], cidNextOutgoingSeqNum[c])
      BY <3>1, <2>4, <1>0, <1>2 DEF Streams, InStep, RequestStream, a, b
    <3>3. /\ a \in Seq(Number) /\ b \in Seq(Number) /\ d \in Seq(Number) /\ n \in 0 .. Len(b)
          /\ first \in Nat /\ last \in Nat
      BY <1>0, <1>2 DEF EntryTypeOK, Number
    <3>n. Numbers \in [Nat -> Number]
      BY ItemTypes
    <3> HIDE DEF d, first, last
    <3>4. /\ h \in Nat /\ first + h <= last
          /\ Stream(Remainder(bytes), Rest(b, n), d) = HalvesOf(Numbers, first + h, last)
          /\ ItemsFrom(Messages(bytes), Numbers, first)
      <4>1. first <= last /\ Stream(a, b, d) = HalvesOf(Numbers, first, last)
        BY <3>2
      <4>2. bytes = Joined(a, First(b, n))
        BY <1>3
      <4> DEFINE taken == Joined(a, First(b, n))
      <4>3. /\ Len(Messages(taken)) \in Nat /\ first + Len(Messages(taken)) <= last
            /\ Stream(Remainder(taken), Rest(b, n), d)
                 = HalvesOf(Numbers, first + Len(Messages(taken)), last)
            /\ ItemsFrom(Messages(taken), Numbers, first)
        BY ONLY <4>1, <3>3, <3>n, StreamTaken, SMTT(30)
      <4> QED BY <4>2, <4>3
    <3>5. state.expected = first + h
      <4>1. /\ start.socket \in {None, s} /\ ItemsFrom(Messages(bytes), Numbers, start.expected)
            /\ state = AfterRequests(s, time, start, Messages(bytes))
            /\ start.expected = first
        BY <3>1, <3>4, <1>3 DEF first
      <4> HIDE DEF h
      <4>2. AfterRequests(s, time, start, Messages(bytes)).expected
              = start.expected + Len(Messages(bytes))
        <5>1. /\ s \in Sockets /\ start \in ReadStates /\ Len(Messages(bytes)) \in Nat
              /\ start.socket \in {None, s}
              /\ ItemsFrom(Messages(bytes), Numbers, start.expected)
          BY <4>1, <1>2
        <5> QED BY ONLY <5>1, AllTaken
      <4> QED BY <4>1, <4>2 DEF h
    <3>6. RequestStream(c)' = Stream(Remainder(bytes), Rest(b, n), d)
      BY <2>4, <1>1, <1>6 DEF RequestStream, Socket, d
    <3>7. AnswerStream(c)' = AnswerStream(c)
      <4> DEFINE read == inbound[c]
                 way == toClient[s]
                 buffer == outbound_data_[s]
      <4>1. Open(s)
        BY <2>4, <1>c DEF Open, Socket
      <4>2. AnswerStream(c)' = Stream(read, Sent(way, buffer), << >>)
        BY <4>1, <2>4, <1>1, <1>6 DEF AnswerStream, Socket
      <4>3. AnswerStream(c) = Stream(read, way, buffer)
        BY <2>4 DEF AnswerStream
      <4>4. /\ read \in Seq(ClientAnswer) /\ way \in Seq(ClientAnswer)
            /\ buffer \in Seq(ClientAnswer) /\ Len(way) + Len(buffer) <= SocketBuffer
        <5>1. /\ read \in Seq(ClientAnswer) /\ way \in Seq(ClientAnswer)
              /\ buffer \in Seq(ClientAnswer)
          BY <1>0, <1>2 DEF WireTypeOK
        <5>2. ~ CutShort(s) /\ s \in Sockets /\ outbound_data_'[s] = << >>
          BY <2>4, <1>2, <1>6 DEF NotCut
        <5>3. ~ (Len(way) + Len(buffer) > SocketBuffer)
          BY <4>1, <5>2 DEF CutShort
        <5> HIDE DEF read, way, buffer
        <5>4. Len(way) + Len(buffer) \in Nat
          BY <5>1, LenProperties
        <5> QED BY <5>1, <5>3, <5>4, OrderEntryAssumption
      <4> HIDE DEF read, way, buffer
      <4>5. Stream(read, Sent(way, buffer), << >>) = Stream(read, way, buffer)
        BY ONLY <4>4, StreamSent
      <4> QED BY <4>2, <4>3, <4>5
    <3> HIDE DEF h
    <3> QED BY <3>2, <3>4, <3>5, <3>6, <3>7, <1>5
  <2> QED BY <2>n, <2>2, <2>3, <2>4
<1> QED BY <1>0, <1>9, <1>10, <1>11, <1>12, <1>13 DEF WireInv

\* What holds for some clients holds for fewer.
LEMMA WireOfFewer ==
  ASSUME NEW K, NEW L, L \subseteq K
  PROVE  /\ WireInv(K) => WireInv(L)
         /\ WireInv(K)' => WireInv(L)'
<1>1. WireInv(K) => WireInv(L)
  BY DEF WireInv, Streams
<1>2. WireInv(K)' => WireInv(L)'
  BY DEF WireInv, Streams
<1> QED BY <1>1, <1>2

\* Every step keeps them: one case for each action.
LEMMA WireStep ==
  ASSUME NEW K, EntryBase, WireInv(K), NotCut(K),
         [EntryNext]_entryVars
  PROVE  WireInv(K)'
<1>0. EntryTypeOK
  BY DEF EntryBase
<1>1. ASSUME NEW c \in Clients, Connect(c) PROVE WireInv(K)'
  <2>1. WireInv(K \cup {c})'
    BY <1>1, ConnectWire
  <2> QED BY <2>1, WireOfFewer
<1>2. ASSUME NEW c \in Clients, End(c) PROVE WireInv(K)'
  BY <1>2, EndWire
<1>3. ASSUME NEW c \in Clients, GatewaySend(c) PROVE WireInv(K)'
  BY <1>3, GatewaySendWire
<1>4. ASSUME NEW c \in Clients, up[c], GatewayStep(c) PROVE WireInv(K)'
  BY <1>4, GatewayReadWire
<1>5. ASSUME NEW c \in Clients, AnswerClient(c) PROVE WireInv(K)'
  BY <1>5, AnswerClientWire
<1>6. ASSUME NEW s \in Sockets, Reset(s) PROVE WireInv(K)'
  BY <1>0, <1>6, ResetWire
<1>7. ASSUME NEW n \in 0 .. 2 * MaxRequests, NEW time \in Times, Visit(n, time)
      PROVE  WireInv(K)'
  <2>1. n \in Nat
    BY OrderEntryAssumption
  <2> QED BY <2>1, <1>7, VisitWire
<1>8. CASE ForwardResponse
  BY <1>8, ForwardWire
<1>9. CASE Poll \/ SequenceAndPublish \/ NextRound \/ UNCHANGED entryVars
  <2>1. UNCHANGED <<connection, up, next_outgoing_seq_num_, next_exp_seq_num_, outbound,
                    inbound, passedOn, toExchange, toClient, inbound_data_, outbound_data_,
                    cidTcpSocketMap, cidNextExpSeqNum, cidNextOutgoingSeqNum,
                    outgoingResponses, answers>>
    BY <1>9 DEF Poll, SequenceAndPublish, NextRound, entryVars, clientVars, wire,
                orderManagerVars, matchingVars
  <2> QED BY <2>1, WireKept
<1> QED BY <1>1, <1>2, <1>3, <1>4, <1>5, <1>6, <1>7, <1>8, <1>9 DEF EntryNext

\* The halves on the way are as many as the streams say.
LEMMA WireImplies ==
  ASSUME NEW K, EntryBase, WireInv(K)
  PROVE  AnswersInOrder /\ \A c \in K : Linked(c) => AllOnTheWay(c)
<1>0. WireTypeOK /\ Unused /\ Gateways /\ Queued /\ Streams(K) /\ EntryTypeOK
      /\ K \subseteq Clients
  BY DEF WireInv, EntryBase
<1>1. ASSUME NEW c \in Clients
      PROVE  /\ next_exp_seq_num_[c] \in Nat \ {0} /\ next_exp_seq_num_[c] - 1 \in Nat
             /\ passedOn[c] = UpTo(next_exp_seq_num_[c] - 1)
             /\ Len(passedOn[c]) = next_exp_seq_num_[c] - 1
  <2>1. /\ next_exp_seq_num_[c] \in Nat \ {0}
        /\ passedOn[c] = UpTo(next_exp_seq_num_[c] - 1)
    BY <1>0 DEF WireTypeOK, Gateways
  <2>2. next_exp_seq_num_[c] - 1 \in Nat
    BY <2>1
  <2> QED BY <2>1, <2>2, UpToNext
<1>2. ASSUME NEW c \in Clients
      PROVE  passedOn[c] = [n \in 1 .. Len(passedOn[c]) |-> n]
  BY <1>1 DEF UpTo
<1>3. ASSUME NEW c \in Clients, cidTcpSocketMap[c] # Socket(c)
      PROVE  passedOn[c] = << >>
  <2>1. next_exp_seq_num_[c] = 1
    BY <1>0, <1>3 DEF Gateways
  <2>2. UpTo(1 - 1) = << >>
    BY DEF UpTo
  <2> QED BY <2>1, <2>2, <1>1
<1>4. ASSUME NEW c \in K, up[c], cidTcpSocketMap[c] = Socket(c)
      PROVE  /\ 2 * (next_outgoing_seq_num_[c] - cidNextExpSeqNum[c]) = BytesToExchange(c)
             /\ 2 * (answers[c] - Len(passedOn[c])) = BytesToClient(c) + 2 * AnswersWaiting(c)
  <2> DEFINE s == Socket(c)
             q == outgoingResponses
             W == Waiting(q, c, Len(q))
  <2>c. c \in Clients
    BY <1>0
  <2>1. /\ cidNextExpSeqNum[c] <= next_outgoing_seq_num_[c]
        /\ Stream(inbound_data_[s], toExchange[s], outbound[c]) =
             HalvesOf(Numbers, cidNextExpSeqNum[c], next_outgoing_seq_num_[c])
        /\ next_exp_seq_num_[c] <= cidNextOutgoingSeqNum[c]
        /\ Stream(inbound[c], toClient[s], outbound_data_[s]) =
             HalvesOf(AnswersOf(c), next_exp_seq_num_[c], cidNextOutgoingSeqNum[c])
    BY <1>0, <1>4 DEF Streams, InStep, RequestStream, AnswerStream
  <2>2. s \in Sockets
    BY <2>c, <1>0, <1>4 DEF Unused
  <2>3. /\ inbound_data_[s] \in Seq(Number) /\ toExchange[s] \in Seq(Number)
        /\ outbound[c] \in Seq(Number) /\ Numbers \in [Nat -> Number]
        /\ cidNextExpSeqNum[c] \in Nat /\ next_outgoing_seq_num_[c] \in Nat
    BY <2>c, <1>0, <2>2, ItemTypes DEF EntryTypeOK, Number
  <2>4. /\ 2 * (next_outgoing_seq_num_[c] - cidNextExpSeqNum[c])
             = Len(inbound_data_[s]) + (Len(toExchange[s]) + Len(outbound[c]))
        /\ Len(inbound_data_[s]) \in Nat /\ Len(toExchange[s]) \in Nat
        /\ Len(outbound[c]) \in Nat
    BY ONLY <2>1, <2>3, StreamHalves
  <2>5. /\ 2 * (cidNextOutgoingSeqNum[c] - next_exp_seq_num_[c])
             = Len(inbound[c]) + (Len(toClient[s]) + Len(outbound_data_[s]))
        /\ Len(inbound[c]) \in Nat /\ Len(toClient[s]) \in Nat
        /\ Len(outbound_data_[s]) \in Nat
    <3>1. /\ inbound[c] \in Seq(ClientAnswer) /\ toClient[s] \in Seq(ClientAnswer)
          /\ outbound_data_[s] \in Seq(ClientAnswer)
          /\ AnswersOf(c) \in [Nat -> ClientAnswer]
          /\ next_exp_seq_num_[c] \in Nat /\ cidNextOutgoingSeqNum[c] \in Nat
      BY <2>c, <1>0, <2>2, ItemTypes DEF WireTypeOK
    <3> QED BY ONLY <2>1, <3>1, StreamHalves
  <2>6. AnswersWaiting(c) = W /\ W \in Nat
    <3>1. q \in Seq(Response) /\ Len(q) \in Nat /\ DOMAIN q = 1 .. Len(q)
      BY <1>0, LenProperties DEF WireTypeOK
    <3>2. AnswersWaiting(c) = W
      BY <3>1 DEF AnswersWaiting, Waiting
    <3> HIDE DEF q
    <3>3. W \in Nat
      BY <2>c, <3>1, WaitingNext
    <3> QED BY <3>2, <3>3
  <2>7. /\ answers[c] = cidNextOutgoingSeqNum[c] - 1 + W
        /\ answers[c] \in Nat /\ cidNextOutgoingSeqNum[c] \in Nat
    BY <2>c, <1>0 DEF Queued, WireTypeOK
  <2> HIDE DEF W
  <2>8. 2 * (answers[c] - Len(passedOn[c]))
          = 2 * (cidNextOutgoingSeqNum[c] - next_exp_seq_num_[c]) + 2 * W
    <3> DEFINE given == Len(passedOn[c])
               expected == next_exp_seq_num_[c]
               next == cidNextOutgoingSeqNum[c]
               all == answers[c]
    <3>1. expected \in Nat /\ given = expected - 1
      BY <2>c, <1>1
    <3>2. next \in Nat /\ all \in Nat /\ W \in Nat /\ all = next - 1 + W
      BY <2>6, <2>7
    <3> HIDE DEF given, expected, next, all
    <3>3. 2 * (all - given) = 2 * (next - expected) + 2 * W
      BY <3>1, <3>2
    <3> QED BY <3>3 DEF given, expected, next, all
  <2>9. BytesToExchange(c) = Len(inbound_data_[s]) + (Len(toExchange[s]) + Len(outbound[c]))
    <3> DEFINE x == Len(inbound_data_[s])
               y == Len(toExchange[s])
               z == Len(outbound[c])
    <3>1. BytesToExchange(c) = z + y + x
      BY DEF BytesToExchange
    <3>2. x \in Nat /\ y \in Nat /\ z \in Nat
      BY <2>4
    <3> HIDE DEF x, y, z
    <3>3. BytesToExchange(c) = x + (y + z)
      BY <3>1, <3>2
    <3> QED BY <3>3 DEF x, y, z
  <2>10. BytesToClient(c) = Len(inbound[c]) + (Len(toClient[s]) + Len(outbound_data_[s]))
    <3> DEFINE x == Len(inbound[c])
               y == Len(toClient[s])
               z == Len(outbound_data_[s])
    <3>1. BytesToClient(c) = z + y + x
      BY DEF BytesToClient
    <3>2. x \in Nat /\ y \in Nat /\ z \in Nat
      BY <2>5
    <3> HIDE DEF x, y, z
    <3>3. BytesToClient(c) = x + (y + z)
      BY <3>1, <3>2
    <3> QED BY <3>3 DEF x, y, z
  <2> QED BY <2>4, <2>5, <2>6, <2>8, <2>9, <2>10
<1>5. \A i \in DOMAIN outgoingResponses : cidTcpSocketMap[outgoingResponses[i].client] # None
  BY <1>0 DEF Queued
<1>6. \A c \in K : Linked(c) => AllOnTheWay(c)
  BY <1>4 DEF Linked, AllOnTheWay
<1> QED BY <1>2, <1>3, <1>5, <1>6 DEF AnswersInOrder

\* The clients whose sends were not cut short.
Whole == {c \in Clients : Socket(c) \notin short}

\* A step that makes a connection makes it to one client, and any other step
\* leaves the connections.
LEMMA Connecting ==
  ASSUME [EntryNext]_entryVars
  PROVE  connection' = connection \/ \E c \in Clients : Connect(c)
<1>1. CASE \/ \E c \in Clients : \/ End(c) \/ GatewaySend(c) \/ GatewayStep(c)
                               \/ AnswerClient(c)
           \/ \E s \in Sockets : Reset(s)
           \/ Poll \/ SequenceAndPublish \/ ForwardResponse \/ NextRound
           \/ UNCHANGED entryVars
  BY <1>1 DEF End, GatewaySend, GatewayStep, GatewaySendAndRecv, AnswerClient, Reset, Poll,
              SequenceAndPublish, ForwardResponse, NextRound, entryVars, clientVars
<1>2. ASSUME NEW n \in 0 .. 2 * MaxRequests, NEW time \in Times, Visit(n, time)
      PROVE  connection' = connection
  BY <1>2 DEF Visit, clientVars
<1> QED BY <1>1, <1>2 DEF EntryNext

LEMMA SendsStep ==
  ASSUME EntryBase, WireInv(Whole), SendsNext
  PROVE  EntryBase' /\ WireInv(Whole)'
<1> PICK K : K = {c \in Clients : Socket(c) \notin short'}
  OBVIOUS
<1>1. [EntryNext]_entryVars /\ short' = short \cup {s \in Sockets : CutShort(s)}
  BY DEF SendsNext
<1>2. EntryBase'
  BY <1>1, BaseStep
<1>3. WireInv(K)
  <2>1. K \subseteq Whole
    BY <1>1 DEF Whole
  <2> QED BY <2>1, WireOfFewer
<1>4. NotCut(K)
  <2> SUFFICES ASSUME NEW c \in K PROVE ~ CutShort(Socket(c))
    BY DEF NotCut
  <2>1. CASE up[c]
    <3>1. Socket(c) \in Sockets
      BY <2>1, <1>3 DEF WireInv, Unused
    <3> QED BY <3>1, <1>1
  <2>2. CASE ~ up[c]
    BY <2>2 DEF CutShort, Open, Socket
  <2> QED BY <2>1, <2>2
<1>5. CASE connection' = connection
  <2>1. WireInv(K)'
    BY <1>1, <1>3, <1>4, WireStep
  <2>2. Whole' = K
    BY <1>5 DEF Whole, Socket
  <2> QED BY <1>2, <2>1, <2>2
\* A new connection has not been cut short, whatever was with the last one.
<1>6. ASSUME NEW c \in Clients, Connect(c) PROVE WireInv(Whole)'
  <2> PICK L : L = Whole'
    OBVIOUS
  <2>1. WireInv(K \cup {c})'
    BY <1>3, <1>6, ConnectWire
  <2>2. \A d \in Clients : d # c => Socket(d)' = Socket(d)
    BY <1>6 DEF Connect, Socket, EntryBase, EntryTypeOK
  <2>3. L \subseteq K \cup {c}
    BY <2>2 DEF Whole
  <2>4. WireInv(L)'
    BY <2>1, <2>3, WireOfFewer
  <2> QED BY <2>4
<1> QED BY <1>1, <1>2, <1>5, <1>6, Connecting

\* On a connection on which no ::send was cut short no byte is lost between
\* the buffers (tcp_socket.cc), whatever happens on others; and no answer is
\* passed on after a gap, none to a later connection, and none finds its
\* client without a socket (order_manager.h 56), whatever is lost.
THEOREM OnlySendLoses == SendsSpec => []LostOnlyBySend
<1>1. MCInit => EntryBase /\ WireInv(Whole)
  <2>1. EntryInit => EntryBase /\ WireInv(Clients)
    BY BaseStart, WireStart
  <2>2. WireInv(Clients) => WireInv(Whole)
    <3>1. Whole \subseteq Clients
      BY DEF Whole
    <3> QED BY <3>1, WireOfFewer
  <2> QED BY <2>1, <2>2 DEF MCInit
<1>2. EntryBase /\ WireInv(Whole) /\ [SendsNext]_<<entryVars, short>>
        => EntryBase' /\ WireInv(Whole)'
  <2>1. CASE SendsNext
    BY <2>1, SendsStep
  <2>2. ASSUME EntryBase, WireInv(Whole), UNCHANGED <<entryVars, short>>
        PROVE  EntryBase' /\ WireInv(Whole)'
    <3> PICK K : K = Whole
      OBVIOUS
    <3>1. UNCHANGED <<connection, up, next_outgoing_seq_num_, next_exp_seq_num_, outbound,
                      inbound, passedOn, toExchange, toClient, inbound_data_, outbound_data_,
                      cidTcpSocketMap, cidNextExpSeqNum, cidNextOutgoingSeqNum,
                      outgoingResponses, answers>>
      BY <2>2 DEF entryVars, clientVars, wire, orderManagerVars, matchingVars
    <3>2. WireInv(K)'
      BY <2>2, <3>1, WireKept
    <3>3. Whole' = K
      BY <2>2, <3>1 DEF Whole, Socket
    <3>4. EntryBase'
      BY <2>2, BaseStep
    <3> QED BY <3>2, <3>3, <3>4
  <2> QED BY <2>1, <2>2
<1>3. EntryBase /\ WireInv(Whole) => LostOnlyBySend
  <2> SUFFICES ASSUME EntryBase, WireInv(Whole) PROVE LostOnlyBySend
    OBVIOUS
  <2>1. AnswersInOrder /\ \A c \in Whole : Linked(c) => AllOnTheWay(c)
    BY WireImplies
  <2> QED BY <2>1 DEF LostOnlyBySend, Whole
<1> QED BY <1>1, <1>2, <1>3, PTL DEF SendsSpec

\* No byte of a connection the exchange serves is lost between the buffers
\* (tcp_socket.cc) as long as the kernel takes what it is given.
THEOREM NothingIsLost ==
  EntrySpec /\ []KernelTakesAll => []NothingLost
<1>1. EntryInit => EntryBase /\ WireInv(Clients)
  BY BaseStart, WireStart
<1>2. EntryBase /\ WireInv(Clients) /\ KernelTakesAll /\ [EntryNext]_entryVars
        => EntryBase' /\ WireInv(Clients)'
  <2> SUFFICES ASSUME EntryBase, WireInv(Clients), KernelTakesAll, [EntryNext]_entryVars
               PROVE  EntryBase' /\ WireInv(Clients)'
    OBVIOUS
  <2>1. NotCut(Clients)
    <3> SUFFICES ASSUME NEW c \in Clients, CutShort(Socket(c)) PROVE FALSE
      BY DEF NotCut
    <3>1. up[c] /\ Socket(c)[1] = c
      BY DEF CutShort, Open, Socket
    <3>2. Socket(c) \in Sockets
      BY <3>1 DEF WireInv, Unused
    <3> DEFINE p == Len(toExchange[Socket(c)])
               q == Len(outbound[c])
               r == Len(toClient[Socket(c)])
               t == Len(outbound_data_[Socket(c)])
    <3>3. p + q <= SocketBuffer /\ r + t <= SocketBuffer
      BY <3>1, <3>2 DEF KernelTakesAll, CutShort
    <3>4. p + q > SocketBuffer \/ r + t > SocketBuffer
      BY <3>1 DEF CutShort
    <3>5. p \in Nat /\ q \in Nat /\ r \in Nat /\ t \in Nat
      <4>1. /\ toExchange[Socket(c)] \in Seq(Nat) /\ outbound[c] \in Seq(Nat)
            /\ toClient[Socket(c)] \in Seq(ClientAnswer)
            /\ outbound_data_[Socket(c)] \in Seq(ClientAnswer)
        BY <3>2 DEF EntryBase, EntryTypeOK, WireInv, WireTypeOK
      <4> QED BY ONLY <4>1, LenProperties
    <3> HIDE DEF p, q, r, t
    <3> QED BY <3>3, <3>4, <3>5, OrderEntryAssumption
  <2> QED BY <2>1, BaseStep, WireStep
<1>3. EntryBase /\ WireInv(Clients) => NothingLost
  BY WireImplies DEF NothingLost
<1> QED BY <1>1, <1>2, <1>3, PTL DEF EntrySpec
=============================================================================
