---------------------------- MODULE MCOrderEntry ----------------------------
(***************************************************************************)
(* OrderEntry for TLC: the connections on which a ::send was cut short are *)
(* remembered, the traffic is bounded in all, and a behaviour is followed  *)
(* up to a stream that is out of step.  What a read makes of such a stream *)
(* is undefined: a number out of the middle of a message is the index of   *)
(* cidTcpSocketMap.  Clients are only compared, so they may be permuted.   *)
(***************************************************************************)
EXTENDS OrderEntry, TLC

CONSTANT MaxMessages  \* bound of the model: requests and answers in all

VARIABLE short        \* history: the connections on which a ::send was cut short

ClientSymmetry == Permutations(Clients)

InStepOf(bytes) == \A i \in 1 .. Len(bytes) \div 2 : bytes[2 * i - 1] = bytes[2 * i]
StreamsInStep ==
  /\ \A s \in Sockets : InStepOf(inbound_data_[s] \o toExchange[s])
  /\ \A c \in Clients : up[c] => InStepOf(inbound[c] \o toClient[Socket(c)])

\* A step that sends on connection s more than the kernel has room for, on
\* either side of it.
CutShort(s) ==
  /\ Open(s)
  /\ \/ outbound'[s[1]] = << >> /\ Len(toExchange[s]) + Len(outbound[s[1]]) > SocketBuffer
     \/ outbound_data_'[s] = << >> /\ Len(toClient[s]) + Len(outbound_data_[s]) > SocketBuffer

MCInit == EntryInit /\ short = {}
SendsNext ==
  /\ StreamsInStep
  /\ EntryNext
  /\ short' = short \cup {s \in Sockets : CutShort(s)}
SendsSpec == MCInit /\ [][SendsNext]_<<entryVars, short>>

MCNext ==
  /\ SendsNext
  /\ MapThenSumSet(LAMBDA c : next_outgoing_seq_num_'[c] - 1 + answers'[c], Clients)
       <= MaxMessages
MCSpec == MCInit /\ [][MCNext]_<<entryVars, short>>

-----------------------------------------------------------------------------
\* A message is lost on a connection only by a ::send that was cut short on
\* this connection (tcp_socket.cc 65-74), and not by what happens to others,
\* by the way the reads cut the streams, or by a connection that ends and
\* comes back; and whatever is lost, no answer is passed on after a gap, and
\* none to a later connection.
LostOnlyBySend ==
  /\ AnswersInOrder
  /\ \A c \in Clients : Linked(c) /\ Socket(c) \notin short => AllOnTheWay(c)
=============================================================================
