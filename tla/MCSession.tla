----------------------------- MODULE MCSession ------------------------------
(***************************************************************************)
(* Session with two accounts in one browser, one of them perhaps in a role. *)
(***************************************************************************)
EXTENDS Session, TLC

Symmetry == Permutations(Calls) \cup Permutations(Wallets)
=============================================================================
