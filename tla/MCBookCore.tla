----------------------------- MODULE MCBookCore -----------------------------
(***************************************************************************)
(* BookCore for TLC: clients are interchangeable, and so are the numbers   *)
(* they give their orders.                                                 *)
(***************************************************************************)
EXTENDS BookCore, TLC
ClientSymmetry == Permutations(Clients) \cup Permutations(ClientOrderIds)
=============================================================================
