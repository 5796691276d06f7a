----------------------------- MODULE MCVesting -----------------------------
(***************************************************************************)
(* A clock running over one grant, for every total up to MaxTotal and      *)
(* every schedule inside -Past..MaxTime: what Vesting computes at each     *)
(* second, against a definition that does not divide.                      *)
(***************************************************************************)
EXTENDS Vesting, FiniteSetsExt

CONSTANTS MaxTotal, Past, MaxTime

ASSUME MCVestingAssumption ==
    /\ MaxTotal \in Nat
    /\ Past \in Nat
    /\ MaxTime \in Nat

VARIABLES total, schedule, now

vars == <<total, schedule, now>>

Times == -Past .. MaxTime

Init ==
    /\ total \in 0 .. MaxTotal
    /\ schedule \in [start : Times, cliff : Times, end : Times]
    /\ now = -Past

Tick ==
    /\ now < MaxTime
    /\ now' = now + 1
    /\ UNCHANGED <<total, schedule>>

Next == Tick

Spec == Init /\ [][Next]_vars

\* The reference: the most shares already paid for; none before the cliff.
ReferenceVested ==
    IF now < schedule.cliff THEN 0 ELSE Max(Earned(total, schedule, now))

\* vested() of a valid schedule is the whole shares earned so far, never a
\* fraction too many (vesting.rs:5-7, "rounded down so the hook never unlocks
\* a fraction of a unit").
VestedIsFloor ==
    ValidSchedule(schedule) => Vested(total, schedule, now) = ReferenceVested

\* Time alone never locks a share again: the curve has no step down at the
\* cliff or at the end, where vested() changes formula.
NeverRelocks ==
    [][Locked(total, schedule, now') <= Locked(total, schedule, now)]_vars
============================================================================
