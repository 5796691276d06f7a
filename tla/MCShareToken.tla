---------------------------- MODULE MCShareToken ---------------------------
(***************************************************************************)
(* ShareToken on a small instance.                                         *)
(***************************************************************************)
EXTENDS ShareToken, TLC

\* A schedule that begins before the grant is made, has a cliff and pays out
\* in unequal steps (1 of 3 shares at second 1 of 3, the rest at the end), and
\* one whose cliff lies after its end, which create_grant refuses.
MCSchedules == {[start |-> 0, cliff |-> 1, end |-> 2],
                [start |-> 1, cliff |-> 3, end |-> 2]}

Symmetry == Permutations(Wallets) \cup Permutations(Keys)
============================================================================
