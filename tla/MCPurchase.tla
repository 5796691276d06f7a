----------------------------- MODULE MCPurchase -----------------------------
(***************************************************************************)
(* Purchase with one offer, of shares that may be locked until the last    *)
(* second, to a buyer whose admission may end at it.                       *)
(***************************************************************************)
EXTENDS Purchase, TLC

CONSTANT seller

MCSeller == [o \in Offers |-> seller]
MCSchedules == {[start |-> 0, cliff |-> 0, end |-> 1]}

Symmetry == Permutations(Keys)
=============================================================================
