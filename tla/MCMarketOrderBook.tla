------------------------- MODULE MCMarketOrderBook -------------------------
(***************************************************************************)
(* MarketOrderBook for TLC: the ids of orders are only compared, so they   *)
(* may be permuted.                                                        *)
(***************************************************************************)
EXTENDS MarketOrderBook, TLC

IdSymmetry == Permutations(OrderIds)
=============================================================================
