------------------------------ MODULE MCTrading ------------------------------
(***************************************************************************)
(* Three parts of the trading client's process for TLC: its threads        *)
(* (TradingMain), the position of one symbol (PositionKeeper) and the pool *)
(* its orders come from (MemPool).  In these models they share no state,   *)
(* so that a behaviour of all three is one of each, and nothing is said of *)
(* two of them together: one of them is chosen in the initial state and    *)
(* goes through all of its behaviours, the other two stay where they are.  *)
(***************************************************************************)
EXTENDS TradingMain, PositionKeeper, MemPool

VARIABLE part  \* the one that moves

\* What the threads and the pool choose initially is chosen once when they are
\* not the part that moves.
MCInit ==
  /\ part \in {"threads", "keeper", "pool"}
  /\ Init /\ KeeperInit /\ PoolInit
  /\ part # "threads" => algo_type = "STRATEGY"
  /\ part # "pool" => owned = [i \in PoolSlots |-> CHOOSE o \in Objects : TRUE]

ThreadsMove == /\ part = "threads" /\ Next
               /\ UNCHANGED <<part, keeperVars, poolVars>>
KeeperMoves == /\ part = "keeper" /\ KeeperNext
               /\ UNCHANGED <<part, vars, poolVars>>
PoolMoves == /\ part = "pool" /\ PoolNext
             /\ UNCHANGED <<part, vars, keeperVars>>

MCNext == ThreadsMove \/ KeeperMoves \/ PoolMoves

\* The fairness of TradingMain's FairSpec.
MCSpec == /\ MCInit /\ [][MCNext]_<<part, vars, keeperVars, poolVars>>
          /\ WF_vars(part = "threads" /\ EngineThread)
          /\ WF_vars(part = "threads" /\ GatewayThread)
          /\ WF_vars(part = "threads" /\ ConsumerThread)
          /\ WF_vars(part = "threads" /\ Stopping)
=============================================================================
