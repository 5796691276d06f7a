----------------------------- MODULE MCMarket -----------------------------
(***************************************************************************)
(* Market on a small instance: one seller, one buyer, and two offers that  *)
(* can get in each other's way.                                            *)
(***************************************************************************)
EXTENDS Market, TLC

CONSTANT w1

MCSeller == [o \in Offers |-> w1]

Symmetry == Permutations(Keys) \cup Permutations(Offers)
============================================================================
