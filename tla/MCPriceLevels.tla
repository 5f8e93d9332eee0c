--------------------------- MODULE MCPriceLevels ---------------------------
(***************************************************************************)
(* PriceLevels for TLC: the nodes of the pool are interchangeable.         *)
(***************************************************************************)
EXTENDS PriceLevels, TLC
NodeSymmetry == Permutations(Nodes)
=============================================================================
