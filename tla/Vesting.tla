------------------------------ MODULE Vesting ------------------------------
(***************************************************************************)
(* The vesting schedule of a grant: programs/caprail/src/vesting.rs and    *)
(* the hook's use of it (programs/caprail-hook/src/execute.rs, check 3).   *)
(*                                                                         *)
(* Times are integers (an i64 of seconds in the code, and every span and   *)
(* product is computed there in 128 bits, so no width is lost); share      *)
(* counts are naturals (u64).                                              *)
(***************************************************************************)
EXTENDS Integers

\* A schedule as create_grant receives it, before any check.
Schedule == [start : Int, cliff : Int, end : Int]

\* vested() answers None for anything else: a cliff outside start..end, or a
\* schedule without a duration.
ValidSchedule(s) ==
    /\ s.start <= s.cliff
    /\ s.cliff <= s.end
    /\ s.start # s.end

(***************************************************************************)
(* Slips in vested() the runs must notice: the quotient rounded up, the    *)
(* end forgotten, the curve falling from the start.                        *)
(***************************************************************************)
VestedRoundedUp(total, s, now) ==
    IF now < s.cliff THEN 0
    ELSE IF now >= s.end THEN total
    ELSE (total * (now - s.start) + (s.end - s.start) - 1)
             \div (s.end - s.start)

VestedWithoutEnd(total, s, now) ==
    IF now < s.cliff \/ s.end <= s.start
    THEN 0
    ELSE (total * (now - s.start)) \div (s.end - s.start)

VestedFalling(total, s, now) ==
    IF now < s.cliff THEN 0
    ELSE IF now >= s.end THEN total
    ELSE (total * (s.end - now)) \div (s.end - s.start)

\* The Some(..) answers of vested(): nothing before the cliff, everything from
\* the end, in between linear from the start and rounded down.
Vested(total, s, now) ==
    IF now < s.cliff THEN 0
    ELSE IF now >= s.end THEN total
    ELSE (total * (now - s.start)) \div (s.end - s.start)

\* What a floored curve is measured against, without a division: the share
\* counts v whose cost in time, v * duration, the elapsed time has paid for.
Earned(total, s, now) ==
    {v \in 0 .. total :
        v * (s.end - s.start) <= total * (now - s.start)}

\* What the hook keeps on the holder's account: total - vested(now), and the
\* whole total under a schedule that is not one (unwrap_or(0)).
Locked(total, s, now) ==
    total - (IF ValidSchedule(s) THEN Vested(total, s, now) ELSE 0)
============================================================================
