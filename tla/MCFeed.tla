------------------------------- MODULE MCFeed -------------------------------
(***************************************************************************)
(* Feed with records of one kind at a time: kinds share the poller and the *)
(* stream, whose steps do not look at them, and nothing else.              *)
(***************************************************************************)
EXTENDS Feed

Of(kind, n) == [k \in Kinds |-> IF k = kind THEN n ELSE 0]

MCHistories == {Of("attempt", 2), Of("status", 2), Of("offer", 2), Of("policy", 3)}

\* Two versions in one slot, the last in a later one.
MCPolicySlot == <<1, 1, 2>>
=============================================================================
