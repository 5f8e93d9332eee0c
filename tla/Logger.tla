------------------------------- MODULE Logger -------------------------------
(***************************************************************************)
(* The log of a component (logging.h): threads push elements into a        *)
(* lock-free queue made for one producer (ringBuffer.h), a thread of the   *)
(* logger takes them to the file, and the destructor waits until the queue *)
(* is empty.  A random trading client pushes from two threads: its trade   *)
(* engine and, by sendClientRequest (trade_engine.cpp 73-81), the main     *)
(* thread.                                                                 *)
(***************************************************************************)
EXTENDS Naturals, Sequences

CONSTANTS Threads,     \* that write to this log
          Capacity,    \* of the queue, LOG_QUEUE_SIZE
          MaxElements, \* bound of the model: what each thread logs
          MaxFlushed   \* bound of the model: reads past the end go on and on

VARIABLES
  queue_,            \* the slots; an element's type and value are two fields
  next_write_index, next_read_index,
  step,              \* of each thread's pushValue
  slot, index,       \* what it has read of next_write_index
  pushed,            \* how many elements each thread has pushed
  flusher,           \* where the logger's thread is
  running_,
  destructor,        \* where the destructor is
  file_              \* the elements written

vars == <<queue_, next_write_index, next_read_index, step, slot, index, pushed,
          flusher, running_, destructor, file_>>
producerVars == <<step, slot, index, pushed>>

Elements == Threads \X (1 .. MaxElements)
Blank == [type |-> << >>, value |-> << >>]
Filled(e) == [type |-> e, value |-> e]

Init == /\ queue_ = [i \in 0 .. Capacity - 1 |-> Blank]
        /\ next_write_index = 0 /\ next_read_index = 0
        /\ step = [t \in Threads |-> "idle"]
        /\ slot = [t \in Threads |-> 0] /\ index = [t \in Threads |-> 0]
        /\ pushed = [t \in Threads |-> 0]
        /\ flusher = "loop" /\ running_ = TRUE
        /\ destructor = "alive"
        /\ file_ = << >>

size == next_write_index - next_read_index
HasRoom == (next_write_index + 1) % Capacity # next_read_index % Capacity

-----------------------------------------------------------------------------
\* pushValue, on any of the threads.
Goes(t, from, to) == /\ step[t] = from
                     /\ step' = [step EXCEPT ![t] = to]
                     /\ UNCHANGED <<next_read_index, flusher, running_, destructor, file_>>
Element(t) == <<t, pushed[t] + 1>>

GetNextToWriteTo(t) ==
  /\ pushed[t] < MaxElements /\ HasRoom
  /\ Goes(t, "idle", "type")
  /\ slot' = [slot EXCEPT ![t] = next_write_index % Capacity]
  /\ UNCHANGED <<queue_, next_write_index, index, pushed>>
WriteType(t) ==
  /\ Goes(t, "type", "value")
  /\ queue_' = [queue_ EXCEPT ![slot[t]].type = Element(t)]
  /\ UNCHANGED <<next_write_index, slot, index, pushed>>
WriteValue(t) ==
  /\ Goes(t, "value", "load")
  /\ queue_' = [queue_ EXCEPT ![slot[t]].value = Element(t)]
  /\ UNCHANGED <<next_write_index, slot, index, pushed>>

\* UpdateWriteIndex is a load and a store.
LoadWriteIndex(t) ==
  /\ Goes(t, "load", "store")
  /\ index' = [index EXCEPT ![t] = next_write_index]
  /\ UNCHANGED <<queue_, next_write_index, slot, pushed>>
StoreWriteIndex(t) ==
  /\ Goes(t, "store", "idle")
  /\ next_write_index' = index[t] + 1
  /\ pushed' = [pushed EXCEPT ![t] = @ + 1]
  /\ UNCHANGED <<queue_, slot, index>>

Push(t) == \/ GetNextToWriteTo(t) \/ WriteType(t) \/ WriteValue(t)
           \/ LoadWriteIndex(t) \/ StoreWriteIndex(t)

-----------------------------------------------------------------------------
\* flushQueue
Flusher(from, to) == /\ flusher = from /\ flusher' = to
                     /\ UNCHANGED <<queue_, next_write_index, producerVars,
                                    running_, destructor>>
Loop == /\ Flusher("loop", IF running_ THEN "drain" ELSE "ended")
        /\ UNCHANGED <<next_read_index, file_>>
Flush == /\ next_read_index # next_write_index
         /\ Len(file_) < MaxFlushed
         /\ Flusher("drain", "drain")
         /\ file_' = Append(file_, queue_[next_read_index % Capacity])
         /\ next_read_index' = next_read_index + 1
Flushed == /\ next_read_index = next_write_index
           /\ Flusher("drain", "loop")
           /\ UNCHANGED <<next_read_index, file_>>

-----------------------------------------------------------------------------
\* ~Logger: the threads that log are over by then.
Destructor(from, to) == /\ destructor = from /\ destructor' = to
                        /\ UNCHANGED <<queue_, next_write_index, next_read_index,
                                       producerVars, flusher, file_>>
QueueEmptied ==
  /\ \A t \in Threads : pushed[t] = MaxElements
  /\ size = 0
  /\ Destructor("alive", "join")
  /\ running_' = FALSE
Close ==
  /\ flusher = "ended"
  /\ Destructor("join", "closed")
  /\ UNCHANGED running_

Next == \/ \E t \in Threads : Push(t)
        \/ Loop \/ Flush \/ Flushed
        \/ QueueEmptied \/ Close

Spec == Init /\ [][Next]_vars

-----------------------------------------------------------------------------
\* "The background thread finishes all that is to be written before the
\* object is destroyed" (logging.h 110): a closed log holds every element
\* that was pushed, whole and once, those of a thread in their order.
ClosedComplete ==
  destructor = "closed" =>
    /\ Len(file_) = Len(SelectSeq(file_, LAMBDA e : \E x \in Elements : e = Filled(x)))
    /\ \A t \in Threads :
         SelectSeq(file_, LAMBDA e : e.type # << >> /\ e.type[1] = t)
           = [i \in 1 .. MaxElements |-> Filled(<<t, i>>)]
=============================================================================
