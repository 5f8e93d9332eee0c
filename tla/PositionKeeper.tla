--------------------------- MODULE PositionKeeper ---------------------------
(***************************************************************************)
(* The trading client's position in one symbol and what it has made of it  *)
(* (PositionInfo in position_keeper.h): moved by every fill, valued again  *)
(* at every change of the best prices.  risk_manager.h stops the strategy  *)
(* by total_pnl_.                                                          *)
(*   The doubles of the code are exact here: money is counted in parts of  *)
(* 1/Unit, so small that the averages leave no remainder.  How small that  *)
(* is for any number of fills is FineUnit of TradingProofs.                *)
(***************************************************************************)
EXTENDS Integers

CONSTANTS Prices, Quantities,
          Unit,         \* parts of money
          MaxPosition,  \* bound of the model: the largest position held
          MaxFills      \* bound of the model: how many fills

ASSUME KeeperAssumption ==
  /\ Prices \subseteq Nat /\ Prices # {} /\ Quantities \subseteq Nat \ {0}
  /\ Unit \in Nat \ {0} /\ Unit % 2 = 0
  /\ MaxPosition \in Nat /\ MaxFills \in Nat

VARIABLES
  position_, real_pnl_, unreal_pnl_, total_pnl_,
  open_vwap_,  \* of each side: price times quantity of what is open
  fills,       \* history: how many fills there were
  cash,        \* history: what the fills have brought in
  mark         \* history: the price the position was valued at last

keeperVars == <<position_, real_pnl_, unreal_pnl_, total_pnl_, open_vwap_, fills, cash, mark>>

Sides == {"BUY", "SELL"}
Opposite(side) == IF side = "BUY" THEN "SELL" ELSE "BUY"
SideValue(side) == IF side = "BUY" THEN 1 ELSE -1
Abs(n) == IF n < 0 THEN 0 - n ELSE n
Least(m, n) == IF m < n THEN m ELSE n

NothingOpen == [side \in Sides |-> 0]

KeeperInit ==
  /\ position_ = 0
  /\ real_pnl_ = 0 /\ unreal_pnl_ = 0 /\ total_pnl_ = 0
  /\ open_vwap_ = NothingOpen
  /\ fills = 0 /\ cash = 0 /\ mark = 0

-----------------------------------------------------------------------------
Opens(side) == position_ * SideValue(side) >= 0
Average(side) == open_vwap_[side] \div Abs(position_)

\* Mutant: what is left of the old side stays when the position changes sides.
OpenUnflipped(side, price, executed, after) ==
  IF Opens(side)
    THEN [open_vwap_ EXCEPT ![side] = @ + price * executed]
  ELSE IF position_ * after < 0
    THEN [open_vwap_ EXCEPT ![side] = price * Abs(after)]
  ELSE [open_vwap_ EXCEPT ![Opposite(side)] = Average(Opposite(side)) * Abs(after)]

\* What is open after a fill that leaves position "after".
Open(side, price, executed, after) ==
  IF after = 0 THEN NothingOpen
  ELSE IF Opens(side)
    THEN [open_vwap_ EXCEPT ![side] = @ + price * executed]
  ELSE IF position_ * after < 0
    THEN [NothingOpen EXCEPT ![side] = price * Abs(after)]
  ELSE [open_vwap_ EXCEPT ![Opposite(side)] = Average(Opposite(side)) * Abs(after)]

\* Mutant: more is realised than was open.
RealisedOfAll(side, price, executed) ==
  IF Opens(side) THEN 0
  ELSE executed * (Average(Opposite(side)) - price) * SideValue(side)

\* What a fill that closes an open position, or part of it, has made.
Realised(side, price, executed) ==
  IF Opens(side) THEN 0
  ELSE Least(executed, Abs(position_)) * (Average(Opposite(side)) - price) * SideValue(side)

\* (price - average) * quantity, or the other way round.
Unrealised(position, open, price) ==
  IF position > 0 THEN price * position - open["BUY"]
                  ELSE open["SELL"] - price * Abs(position)

\* addFill
AddFill(side, price, executed) ==
  LET after == position_ + executed * SideValue(side)
  IN /\ fills < MaxFills /\ Abs(after) <= MaxPosition
     /\ position_' = after
     /\ open_vwap_' = Open(side, price, executed, after)
     /\ real_pnl_' = real_pnl_ + Realised(side, price, executed)
     /\ unreal_pnl_' = Unrealised(after, open_vwap_', price)
     /\ total_pnl_' = unreal_pnl_' + real_pnl_'
     /\ fills' = fills + 1
     /\ cash' = cash - price * executed * SideValue(side)
     /\ mark' = price

\* updateBBO, with orders on both sides of the book; with none on one of them
\* nothing is valued.
UpdateBBO(bid, ask) ==
  LET mid == (bid + ask) \div 2
  IN /\ position_ # 0
     /\ unreal_pnl_' = Unrealised(position_, open_vwap_, mid)
     /\ total_pnl_' = unreal_pnl_' + real_pnl_
     /\ mark' = mid
     /\ UNCHANGED <<position_, real_pnl_, open_vwap_, fills, cash>>

KeeperNext ==
  \/ \E side \in Sides, price \in Prices, executed \in Quantities :
       AddFill(side, price * Unit, executed)
  \/ \E bid, ask \in Prices :
       bid < ask /\ UpdateBBO(bid * Unit, ask * Unit)

KeeperSpec == KeeperInit /\ [][KeeperNext]_keeperVars

-----------------------------------------------------------------------------
\* The profit the risk check looks at is what the fills have brought in and
\* what the position is worth at the price it was valued at last, however it
\* was opened, reduced, closed and turned round (position_keeper.h 50-77).
ProfitExact == total_pnl_ = cash + position_ * mark

\* What is open has been bought, or sold, at an average of the prices there
\* were; nothing is left of a side that is not held, which would come back
\* into the average when that side is opened again.
OpenAtAnAverage ==
  \A side \in Sides :
    LET held == IF position_ * SideValue(side) > 0 THEN Abs(position_) ELSE 0
    IN \E low, high \in Prices : /\ held * low * Unit <= open_vwap_[side]
                                 /\ open_vwap_[side] <= held * high * Unit
=============================================================================
