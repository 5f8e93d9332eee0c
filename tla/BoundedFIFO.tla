---------------------------- MODULE BoundedFIFO ----------------------------
(***************************************************************************)
(* What every LFQueue of the system promises its one producer and its one  *)
(* consumer: a first-in first-out queue of at most Bound items, in which   *)
(* nothing is lost, duplicated, reordered or altered.                      *)
(***************************************************************************)
EXTENDS Naturals, Sequences

CONSTANTS Values,   \* what the producer may put in
          Bound     \* how many items fit

VARIABLE queue      \* the items put in and not yet released, oldest first

Init == queue = << >>

\* The producer makes one more item visible.
Put(v) == /\ Len(queue) < Bound
          /\ queue' = Append(queue, v)

\* The consumer releases the oldest item, which it has read.
Take == /\ queue # << >>
        /\ queue' = Tail(queue)

Next == (\E v \in Values : Put(v)) \/ Take

Spec == Init /\ [][Next]_queue
=============================================================================
