-------------------------- MODULE ShareTokenProofs -------------------------
(***************************************************************************)
(* The share token's theorems, for any investors, supply, schedules and    *)
(* length of run; and before them the vesting curve's, for every total,    *)
(* every schedule and every time.                                          *)
(***************************************************************************)
EXTENDS ShareToken, Sums

-----------------------------------------------------------------------------
(* The vesting curve. *)

\* What integer division by a positive number means; the two facts about it
\* that the curve rests on follow from it.
LEMMA DivFloor ==
    ASSUME NEW n \in Nat, NEW d \in Nat \ {0}
    PROVE  /\ n \div d \in Nat
           /\ d * (n \div d) <= n
           /\ n < d * (n \div d) + d
  BY SMT

\* A quotient grows with what is divided.
LEMMA DivMonotone ==
    ASSUME NEW m \in Nat, NEW n \in Nat, NEW d \in Nat \ {0}, m <= n
    PROVE  m \div d <= n \div d
<1> DEFINE a == m \div d
           b == n \div d
<1>1. a \in Nat /\ b \in Nat /\ d * a <= m /\ n < d * b + d
  BY DivFloor
<1> HIDE DEF a, b
<1>2. SUFFICES ASSUME b + 1 <= a PROVE FALSE
  BY <1>1, SMT DEF a, b
<1>3. d * (b + 1) <= d * a
  BY <1>1, <1>2, SMT
<1>4. QED
  BY <1>1, <1>3, SMT

\* A product grows with its second factor.
LEMMA ProductMonotone ==
    ASSUME NEW k \in Nat, NEW x \in Nat, NEW y \in Nat, x <= y
    PROVE  k * x \in Nat /\ k * x <= k * y
  BY SMT

\* Dividing a multiple gives the factor back.
LEMMA DivExact ==
    ASSUME NEW k \in Nat, NEW d \in Nat \ {0}
    PROVE  (k * d) \div d = k
<1> DEFINE q == (k * d) \div d
<1>1. k * d \in Nat
  BY SMT
<1>2. q \in Nat /\ d * q <= k * d /\ k * d < d * q + d
  BY <1>1, DivFloor
<1> HIDE DEF q
<1>3. ~ (q + 1 <= k)
  <2>1. SUFFICES ASSUME q + 1 <= k PROVE FALSE
    OBVIOUS
  <2>2. d * (q + 1) <= d * k
    BY <1>2, <2>1, SMT
  <2>3. QED
    BY <1>2, <2>2, SMT
<1>4. ~ (k + 1 <= q)
  <2>1. SUFFICES ASSUME k + 1 <= q PROVE FALSE
    OBVIOUS
  <2>2. d * (k + 1) <= d * q
    BY <1>2, <2>1, SMT
  <2>3. QED
    BY <1>2, <2>2, SMT
<1>5. QED
  BY <1>2, <1>3, <1>4, SMT DEF q

-----------------------------------------------------------------------------
\* Between the cliff and the end the curve is a floored quotient of naturals.
LEMMA CurveTyped ==
    ASSUME NEW total \in Nat, NEW s \in Schedule, NEW t \in Int,
           ValidSchedule(s), ~ (t < s.cliff)
    PROVE  /\ s.end - s.start \in Nat \ {0}
           /\ t - s.start \in Nat
           /\ total * (t - s.start) \in Nat
<1>1. s.start \in Int /\ s.cliff \in Int /\ s.end \in Int
  BY DEF Schedule
<1>2. s.end - s.start \in Nat \ {0} /\ t - s.start \in Nat
  BY <1>1 DEF ValidSchedule
<1>3. QED
  BY <1>2, ProductMonotone

\* What vested() returns is a share count of the grant: never negative, never
\* more than was granted, so the hook's subtraction cannot underflow.
THEOREM VestedWithinTotal ==
    ASSUME NEW total \in Nat, NEW s \in Schedule, NEW t \in Int,
           ValidSchedule(s)
    PROVE  Vested(total, s, t) \in 0 .. total
<1>1. CASE t < s.cliff \/ t >= s.end
  BY <1>1 DEF Vested
<1>2. CASE ~ (t < s.cliff) /\ ~ (t >= s.end)
  <2> DEFINE elapsed == t - s.start
             duration == s.end - s.start
  <2>1. /\ duration \in Nat \ {0} /\ elapsed \in Nat
        /\ total * elapsed \in Nat
    BY <1>2, CurveTyped
  <2>2. elapsed <= duration
    BY <1>2 DEF Schedule
  <2>3. Vested(total, s, t) = (total * elapsed) \div duration
    BY <1>2 DEF Vested
  <2> HIDE DEF elapsed, duration
  <2>4. total * duration \in Nat /\ total * elapsed <= total * duration
    BY <2>1, <2>2, ProductMonotone
  <2>5. (total * elapsed) \div duration <= (total * duration) \div duration
    BY <2>1, <2>4, DivMonotone
  <2>6. (total * duration) \div duration = total
    BY <2>1, DivExact
  <2>7. (total * elapsed) \div duration \in Nat
    BY <2>1, DivFloor
  <2>8. QED
    BY <2>3, <2>5, <2>6, <2>7
<1>3. QED
  BY <1>1, <1>2

\* Once vested, a share stays vested: vested() never falls as the clock runs,
\* across the cliff and the end included.
THEOREM VestedNeverFalls ==
    ASSUME NEW total \in Nat, NEW s \in Schedule,
           NEW t \in Int, NEW u \in Int,
           ValidSchedule(s), t <= u
    PROVE  Vested(total, s, t) <= Vested(total, s, u)
<1>1. /\ Vested(total, s, t) \in 0 .. total
      /\ Vested(total, s, u) \in 0 .. total
  BY VestedWithinTotal
<1>2. CASE t < s.cliff
  BY <1>1, <1>2 DEF Vested
<1>3. CASE u >= s.end
  <2>1. ~ (u < s.cliff)
    BY <1>3 DEF Schedule, ValidSchedule
  <2>2. Vested(total, s, u) = total
    BY <1>3, <2>1 DEF Vested
  <2>3. QED
    BY <1>1, <2>2
<1>4. CASE ~ (t < s.cliff) /\ ~ (u >= s.end)
  <2>1. ~ (u < s.cliff) /\ ~ (t >= s.end)
    BY <1>4 DEF Schedule
  <2> DEFINE x == t - s.start
             y == u - s.start
             duration == s.end - s.start
  <2>2. /\ duration \in Nat \ {0} /\ x \in Nat /\ y \in Nat
        /\ total * x \in Nat /\ total * y \in Nat
    BY <1>4, <2>1, CurveTyped
  <2>3. x <= y
    BY DEF Schedule
  <2>4. /\ Vested(total, s, t) = (total * x) \div duration
        /\ Vested(total, s, u) = (total * y) \div duration
    BY <1>4, <2>1 DEF Vested
  <2> HIDE DEF x, y, duration
  <2>5. total * x <= total * y
    BY <2>2, <2>3, ProductMonotone
  <2>6. QED
    BY <2>2, <2>4, <2>5, DivMonotone
<1>5. QED
  BY <1>2, <1>3, <1>4

\* A share is vested exactly when the time for it has run: past the cliff the
\* curve is the most shares already paid for, at the end as in between.
LEMMA VestedIsEarned ==
    ASSUME NEW total \in Nat, NEW s \in Schedule, NEW t \in Int,
           ValidSchedule(s), ~ (t < s.cliff)
    PROVE  /\ Vested(total, s, t) \in Earned(total, s, t)
           /\ \A v \in Earned(total, s, t) : v <= Vested(total, s, t)
<1> DEFINE elapsed == t - s.start
           duration == s.end - s.start
           q == Vested(total, s, t)
<1>1. duration \in Nat \ {0} /\ elapsed \in Nat /\ total * elapsed \in Nat
  BY CurveTyped
<1>2. q \in 0 .. total
  BY VestedWithinTotal
<1>3. Earned(total, s, t) =
          {v \in 0 .. total : v * duration <= total * elapsed}
  BY DEF Earned
<1>4. CASE t >= s.end
  <2>1. q = total
    BY <1>4 DEF Vested
  <2>2. duration <= elapsed
    BY <1>4 DEF Schedule
  <2> HIDE DEF elapsed, duration, q
  <2>3. total * duration <= total * elapsed
    BY <1>1, <2>2, ProductMonotone
  <2>4. \A v \in 0 .. total : v <= total
    OBVIOUS
  <2>5. q \in Earned(total, s, t)
    BY <1>2, <1>3, <2>1, <2>3
  <2>6. QED
    BY <1>3, <2>1, <2>4, <2>5 DEF q
<1>5. CASE ~ (t >= s.end)
  <2>1. q = (total * elapsed) \div duration
    BY <1>5 DEF Vested
  <2> HIDE DEF elapsed, duration, q
  <2>2. /\ duration * q <= total * elapsed
        /\ total * elapsed < duration * q + duration
    BY <1>1, <2>1, DivFloor
  <2>3. q * duration = duration * q
    BY <1>1, <1>2, SMT
  <2>4. q \in Earned(total, s, t)
    BY <1>2, <1>3, <2>2, <2>3
  <2>5. ASSUME NEW v \in Earned(total, s, t) PROVE v <= q
    <3>1. v \in Nat /\ v * duration <= total * elapsed
      BY <1>3
    <3>2. SUFFICES ASSUME q + 1 <= v PROVE FALSE
      BY <1>2, <3>1
    <3>3. duration * (q + 1) <= duration * v
      BY <1>1, <1>2, <3>1, <3>2, ProductMonotone
    <3>4. /\ duration * (q + 1) = duration * q + duration
          /\ duration * v = v * duration
      BY <1>1, <1>2, <3>1, SMT
    <3>5. /\ duration * q \in Int /\ duration * v \in Int
          /\ duration \in Int /\ total * elapsed \in Int
      BY <1>1, <1>2, <3>1, SMT
    <3> DEFINE dq == duration * q
               paid == total * elapsed
    <3>6. /\ dq + duration <= paid /\ paid < dq + duration
          /\ dq \in Int /\ duration \in Int /\ paid \in Int
      BY <2>2, <3>1, <3>3, <3>4, <3>5
    <3> HIDE DEF dq, paid
    <3>7. QED
      BY <3>6
  <2>6. QED
    BY <2>4, <2>5 DEF q
<1>6. QED
  BY <1>4, <1>5

\* What vested() returns of a valid schedule is the whole shares earned so far,
\* for any total, schedule and time: the reference the runs compare it with.
THEOREM VestedIsTheFloor ==
    ASSUME NEW total \in Nat, NEW s \in Schedule, NEW t \in Int,
           ValidSchedule(s)
    PROVE  Vested(total, s, t) =
               IF t < s.cliff THEN 0 ELSE Max(Earned(total, s, t))
<1>1. CASE t < s.cliff
  BY <1>1 DEF Vested
<1>2. CASE ~ (t < s.cliff)
  <2> DEFINE E == Earned(total, s, t)
             q == Vested(total, s, t)
  <2>1. q \in E /\ \A v \in E : v <= q
    BY <1>2, VestedIsEarned
  <2>2. E \subseteq Int /\ E # {} /\ total \in Int
        /\ \A v \in E : v <= total
    BY <2>1 DEF Earned
  <2> HIDE DEF E, q
  <2>3. Max(E) \in E /\ \A v \in E : v <= Max(E)
    BY <2>2, IntMaximum
  <2> DEFINE most == Max(E)
  <2>4. /\ q \in Int /\ most \in Int
        /\ q <= most /\ most <= q
    BY <2>1, <2>2, <2>3
  <2> HIDE DEF most
  <2>5. q = most
    BY <2>4
  <2>6. QED
    BY <1>2, <2>5 DEF q, E, most
<1>3. QED
  BY <1>1, <1>2

\* What the hook keeps is part of the grant, for a schedule of any shape.
THEOREM LockedWithinTotal ==
    ASSUME NEW total \in Nat, NEW s \in Schedule, NEW t \in Int
    PROVE  Locked(total, s, t) \in 0 .. total
<1>1. CASE ValidSchedule(s)
  BY <1>1, VestedWithinTotal DEF Locked
<1>2. CASE ~ ValidSchedule(s)
  BY <1>2 DEF Locked
<1>3. QED
  BY <1>1, <1>2

\* The lock only loosens with time, for a schedule of any shape.
THEOREM LockedNeverRises ==
    ASSUME NEW total \in Nat, NEW s \in Schedule,
           NEW t \in Int, NEW u \in Int, t <= u
    PROVE  Locked(total, s, u) <= Locked(total, s, t)
<1>1. CASE ValidSchedule(s)
  <2>1. /\ Vested(total, s, t) \in 0 .. total
        /\ Vested(total, s, u) \in 0 .. total
        /\ Vested(total, s, t) <= Vested(total, s, u)
    BY <1>1, VestedWithinTotal, VestedNeverFalls
  <2>2. QED
    BY <1>1, <2>1 DEF Locked
<1>2. CASE ~ ValidSchedule(s)
  BY <1>2 DEF Locked
<1>3. QED
  BY <1>1, <1>2

-----------------------------------------------------------------------------
(* The clock over one grant, which the curve's run checks. *)

CONSTANTS MaxTotal, Past
VARIABLES grantTotal, grantSchedule

Clock == INSTANCE MCVesting WITH total <- grantTotal, schedule <- grantSchedule

\* The grant is one the chain can hold, and the clock an integer.
ClockInv ==
    grantTotal \in Nat /\ grantSchedule \in Schedule /\ now \in Int

\* It stays so as the clock runs.
LEMMA ClockRuns ==
    ASSUME MaxTotal \in Nat, Past \in Nat, MaxTime \in Nat
    PROVE  Clock!Spec => []ClockInv
<1>1. Clock!Init => ClockInv
  BY DEF Clock!Init, Clock!Times, ClockInv, Schedule
<1>2. ClockInv /\ [Clock!Next]_(Clock!vars) => ClockInv'
  BY DEF ClockInv, Clock!Next, Clock!Tick, Clock!vars
<1>3. QED
  BY <1>1, <1>2, PTL DEF Clock!Spec

\* At every second of the clock what a valid schedule has vested is the whole
\* shares earned so far, for every bound on totals, schedules and the clock
\* (vesting.rs:5-7).
THEOREM ClockVestsTheFloor ==
    ASSUME MaxTotal \in Nat, Past \in Nat, MaxTime \in Nat
    PROVE  Clock!Spec => []Clock!VestedIsFloor
<1>1. ClockInv => Clock!VestedIsFloor
  <2> SUFFICES ASSUME ClockInv, Clock!ValidSchedule(grantSchedule)
               PROVE  Clock!Vested(grantTotal, grantSchedule, now) = Clock!ReferenceVested
    BY DEF Clock!VestedIsFloor
  <2>1. ValidSchedule(grantSchedule)
    BY DEF ValidSchedule, Clock!ValidSchedule
  <2>2. Vested(grantTotal, grantSchedule, now) =
            IF now < grantSchedule.cliff THEN 0
            ELSE Max(Earned(grantTotal, grantSchedule, now))
    BY <2>1, VestedIsTheFloor DEF ClockInv
  <2>3. /\ Clock!Vested(grantTotal, grantSchedule, now)
             = Vested(grantTotal, grantSchedule, now)
        /\ Clock!Earned(grantTotal, grantSchedule, now)
             = Earned(grantTotal, grantSchedule, now)
    BY DEF Vested, Clock!Vested, Earned, Clock!Earned
  <2>4. Clock!Max(Earned(grantTotal, grantSchedule, now))
            = Max(Earned(grantTotal, grantSchedule, now))
    BY DEF Max, Clock!Max
  <2>5. QED
    BY <2>2, <2>3, <2>4 DEF Clock!ReferenceVested
<1>2. QED
  BY <1>1, ClockRuns, PTL

\* A tick of the clock never locks a share again, at the cliff or at the end,
\* for every bound on totals, schedules and the clock (vesting.rs:5-7).
THEOREM ClockNeverRelocks ==
    ASSUME MaxTotal \in Nat, Past \in Nat, MaxTime \in Nat
    PROVE  Clock!Spec => Clock!NeverRelocks
<1>1. ClockInv /\ [Clock!Next]_(Clock!vars)
         => [Clock!Locked(grantTotal, grantSchedule, now')
               <= Clock!Locked(grantTotal, grantSchedule, now)]_(Clock!vars)
  <2> SUFFICES ASSUME ClockInv, Clock!Tick
               PROVE  Clock!Locked(grantTotal, grantSchedule, now')
                        <= Clock!Locked(grantTotal, grantSchedule, now)
    BY DEF Clock!Next
  <2>1. now' \in Int /\ now <= now'
    BY DEF ClockInv, Clock!Tick
  <2>2. Locked(grantTotal, grantSchedule, now') <= Locked(grantTotal, grantSchedule, now)
    BY <2>1, LockedNeverRises DEF ClockInv
  <2>3. \A t : Clock!Locked(grantTotal, grantSchedule, t)
                  = Locked(grantTotal, grantSchedule, t)
    BY DEF Locked, Clock!Locked, Vested, Clock!Vested, ValidSchedule,
           Clock!ValidSchedule
  <2>4. QED
    BY <2>2, <2>3
<1>2. QED
  BY <1>1, ClockRuns, PTL DEF Clock!Spec, Clock!NeverRelocks

-----------------------------------------------------------------------------
(* The token. *)

USE ShareTokenAssumption DEF Accounts

\* A transfer keeps every account a natural number of shares, and touches the
\* two accounts it names.
LEMMA MoveTyped ==
    ASSUME balance \in [Accounts -> Nat],
           NEW src \in Accounts, NEW dst \in Accounts, NEW n \in Shares,
           MoveShares(src, dst, n)
    PROVE  /\ balance' \in [Accounts -> Nat]
           /\ balance'[src] = balance[src] - n
           /\ balance'[dst] = balance[dst] + n
           /\ \A a \in Accounts \ {src, dst} : balance'[a] = balance[a]
           /\ n \in 1 .. balance[src]
  BY DEF MoveShares, Shares

\* The initial state has its types.
LEMMA InitTyped == Init => TypeOK
  BY DEF Init, TypeOK, Record, NoRecord

\* Every step keeps the types.
LEMMA StepTyped == TypeOK /\ [Next]_shareVars => TypeOK'
<1> SUFFICES ASSUME TypeOK, [Next]_shareVars PROVE TypeOK'
  OBVIOUS
<1> USE DEF TypeOK
<1>1. CASE UNCHANGED shareVars
  BY <1>1 DEF shareVars
<1>2. CASE Next
  <2>1. CASE Tick
    BY <2>1 DEF Tick, registryVars
  <2>2. ASSUME NEW signer \in Keys, NEW admin \in Keys \cup {NoKey},
               NEW officer \in Keys \cup {NoKey},
               SetRoles(signer, admin, officer)
        PROVE  TypeOK'
    BY <2>2 DEF SetRoles, ValidRoles
  <2>3. ASSUME NEW signer \in Keys, NEW accreditation \in BOOLEAN,
               NEW rofr \in BOOLEAN,
               SetPolicy(signer, accreditation, rofr)
        PROVE  TypeOK'
    BY <2>3 DEF SetPolicy
  <2>4. ASSUME NEW signer \in Keys, NEW w \in Wallets, NEW st \in Statuses,
               NEW e \in Expiries,
               SetInvestorStatus(signer, w, st, e)
        PROVE  TypeOK'
    BY <2>4 DEF SetInvestorStatus, Record
  <2>5. ASSUME NEW signer \in Keys, NEW w \in Wallets, NEW n \in Shares,
               Distribute(signer, w, n)
        PROVE  TypeOK'
    <3>1. balance' \in [Accounts -> Nat]
      BY <2>5, MoveTyped DEF Distribute, Transfer
    <3>2. QED
      BY <2>5, <3>1 DEF Distribute, registryVars
  <2>6. ASSUME NEW signer \in Keys, NEW w \in Wallets, NEW n \in Shares,
               NEW s \in Schedules,
               CreateGrant(signer, w, n, s)
        PROVE  TypeOK'
    <3>1. balance' \in [Accounts -> Nat]
      BY <2>6, MoveTyped DEF CreateGrant, Transfer
    <3>2. grant' \in [Wallets -> GrantRecord \cup {NoGrant}]
      BY <2>6 DEF CreateGrant, GrantRecord
    <3>3. QED
      BY <2>6, <3>1, <3>2 DEF CreateGrant, registryVars
  <2>7. ASSUME NEW w \in Wallets, NEW dst \in Accounts, NEW n \in Shares,
               HolderTransfer(w, dst, n)
        PROVE  TypeOK'
    <3>1. balance' \in [Accounts -> Nat]
      BY <2>7, MoveTyped DEF HolderTransfer, Transfer
    <3>2. QED
      BY <2>7, <3>1 DEF HolderTransfer, registryVars
  <2>8. ASSUME NEW w \in Wallets, NEW n \in Shares, HolderBurn(w, n)
        PROVE  TypeOK'
    BY <2>8 DEF HolderBurn, registryVars, Shares
  <2>9. QED
    BY <1>2, <2>1, <2>2, <2>3, <2>4, <2>5, <2>6, <2>7, <2>8 DEF Next
<1>3. QED
  BY <1>1, <1>2

\* Every reachable state is one the program's accounts can hold: no balance is
\* negative, and no grant has a schedule that was not asked for.
THEOREM TypeCorrect == Spec => []TypeOK
<1>1. QED
  BY InitTyped, StepTyped, PTL DEF Spec

-----------------------------------------------------------------------------
(* The supply. *)

AccountsFinite == IsFiniteSet(Accounts)

\* After create_token the treasury holds the whole supply.
LEMMA InitAccounted ==
    ASSUME AccountsFinite, Init
    PROVE  SupplyAccounted
<1>1. /\ balance \in [Accounts -> Int] /\ burned \in [Wallets -> Int]
      /\ balance[Treasury] = Supply /\ \A a \in Accounts \ {Treasury} : balance[a] = 0
      /\ \A w \in Wallets : burned[w] = 0
  BY DEF Init
<1>2. IsFiniteSet(Accounts \ {Treasury}) /\ IsFiniteSet(Wallets)
  BY FS_RemoveElement, FS_Subset DEF AccountsFinite
<1>3. SumFunctionOnSet(balance, Accounts \ {Treasury}) = 0
  BY <1>1, <1>2, SumZero
<1>4. SumFunctionOnSet(balance, Accounts) = Supply
  BY <1>1, <1>3, SumTakes DEF AccountsFinite
<1>5. SumFunctionOnSet(burned, Wallets) = 0
  BY <1>1, <1>2, SumZero
<1>6. DOMAIN balance = Accounts /\ DOMAIN burned = Wallets
  BY <1>1
<1>7. QED
  BY <1>4, <1>5, <1>6 DEF SupplyAccounted, SumFunction

\* What a transfer takes from one account it adds to the other.
LEMMA MoveKeepsSum ==
    ASSUME AccountsFinite, TypeOK,
           NEW src \in Accounts, NEW dst \in Accounts, NEW n \in Shares,
           MoveShares(src, dst, n)
    PROVE  SumFunction(balance') = SumFunction(balance)
<1> DEFINE debited == [balance EXCEPT ![src] = @ - n]
<1>1. balance \in [Accounts -> Int] /\ n \in Int /\ src # dst
  BY DEF TypeOK, Shares, MoveShares
<1>2. balance' \in [Accounts -> Int]
  BY MoveTyped DEF TypeOK
<1>3. /\ debited \in [Accounts -> Int] /\ debited[src] = balance[src] - n
      /\ \A a \in Accounts \ {src} : debited[a] = balance[a]
  BY <1>1
<1>4. /\ balance'[dst] = debited[dst] + n
      /\ \A a \in Accounts \ {dst} : balance'[a] = debited[a]
  BY <1>1, <1>3, MoveTyped DEF TypeOK
<1> HIDE DEF debited
<1>5. /\ SumFunction(balance) \in Int
      /\ SumFunction(debited) = SumFunction(balance) + (debited[src] - balance[src])
  BY <1>1, <1>3, SumChanges DEF AccountsFinite
<1>6. /\ SumFunction(debited) \in Int
      /\ SumFunction(balance') = SumFunction(debited) + (balance'[dst] - debited[dst])
  BY <1>2, <1>3, <1>4, SumChanges DEF AccountsFinite
<1>7. /\ debited[src] \in Int /\ balance[src] \in Int
      /\ debited[dst] \in Int /\ balance'[dst] \in Int
  BY <1>1, <1>2, <1>3
<1>8. QED
  BY <1>1, <1>3, <1>4, <1>5, <1>6, <1>7

\* A burn moves shares from the account to the history.
LEMMA BurnKeepsSum ==
    ASSUME AccountsFinite, TypeOK, NEW w \in Wallets, NEW n \in Shares,
           HolderBurn(w, n)
    PROVE  SumFunction(balance') + SumFunction(burned')
              = SumFunction(balance) + SumFunction(burned)
<1>1. /\ balance \in [Accounts -> Int] /\ balance' \in [Accounts -> Int]
      /\ burned \in [Wallets -> Int] /\ burned' \in [Wallets -> Int]
      /\ w \in Accounts /\ n \in Int
  BY DEF TypeOK, HolderBurn, Shares
<1>2. /\ balance'[w] = balance[w] - n
      /\ \A a \in Accounts \ {w} : balance'[a] = balance[a]
      /\ burned'[w] = burned[w] + n
      /\ \A a \in Wallets \ {w} : burned'[a] = burned[a]
  BY <1>1 DEF HolderBurn
<1>3. IsFiniteSet(Wallets)
  BY FS_Subset DEF AccountsFinite
<1>4. /\ SumFunction(balance) \in Int
      /\ SumFunction(balance') = SumFunction(balance) + (balance'[w] - balance[w])
  BY <1>1, <1>2, SumChanges DEF AccountsFinite
<1>5. /\ SumFunction(burned) \in Int
      /\ SumFunction(burned') = SumFunction(burned) + (burned'[w] - burned[w])
  BY <1>1, <1>2, <1>3, SumChanges
<1>6. balance[w] \in Int /\ burned[w] \in Int
  BY <1>1
<1>7. QED
  BY <1>1, <1>2, <1>4, <1>5, <1>6

\* Every step keeps the supply accounted for.
LEMMA StepAccounted ==
    ASSUME AccountsFinite
    PROVE  TypeOK /\ SupplyAccounted /\ [Next]_shareVars => SupplyAccounted'
<1> SUFFICES ASSUME TypeOK, SupplyAccounted, [Next]_shareVars
             PROVE  SupplyAccounted'
  OBVIOUS
<1>1. ASSUME NEW src \in Accounts, NEW dst \in Accounts, NEW n \in Shares,
             MoveShares(src, dst, n), burned' = burned
      PROVE  SupplyAccounted'
  BY <1>1, MoveKeepsSum DEF SupplyAccounted
<1>2. ASSUME UNCHANGED <<balance, burned>> PROVE SupplyAccounted'
  BY <1>2 DEF SupplyAccounted
<1>3. ASSUME NEW w \in Wallets, NEW n \in Shares, HolderBurn(w, n)
      PROVE  SupplyAccounted'
  BY <1>3, BurnKeepsSum DEF SupplyAccounted
<1>4. ASSUME NEW signer \in Keys, NEW w \in Wallets, NEW n \in Shares,
             Distribute(signer, w, n)
      PROVE  SupplyAccounted'
  BY <1>1, <1>4 DEF Distribute, Transfer
<1>5. ASSUME NEW signer \in Keys, NEW w \in Wallets, NEW n \in Shares,
             NEW s \in Schedules, CreateGrant(signer, w, n, s)
      PROVE  SupplyAccounted'
  BY <1>1, <1>5 DEF CreateGrant, Transfer
<1>6. ASSUME NEW w \in Wallets, NEW dst \in Accounts, NEW n \in Shares,
             HolderTransfer(w, dst, n)
      PROVE  SupplyAccounted'
  BY <1>1, <1>6 DEF HolderTransfer, Transfer
<1>7. QED
  BY <1>2, <1>3, <1>4, <1>5, <1>6
     DEF Next, shareVars, Tick, SetRoles, SetPolicy, SetInvestorStatus

\* However many wallets there are and whatever they do, the shares on all
\* accounts and the burned ones add up to what was minted.
THEOREM SupplyStaysAccounted ==
    ASSUME IsFiniteSet(Wallets)
    PROVE  Spec => []SupplyAccounted
<1>1. AccountsFinite
  BY FS_AddElement DEF AccountsFinite
<1>2. Init => SupplyAccounted
  BY <1>1, InitAccounted
<1>3. TypeOK /\ SupplyAccounted /\ [Next]_shareVars => SupplyAccounted'
  BY <1>1, StepAccounted
<1>4. QED
  BY <1>2, <1>3, TypeCorrect, PTL DEF Spec

-----------------------------------------------------------------------------
\* A grant is never mistaken for the absence of one.
LEMMA GrantIsNoNoGrant ==
    ASSUME NEW n, NEW s
    PROVE  [total |-> n, schedule |-> s] # NoGrant
<1>1. DOMAIN [total |-> n, schedule |-> s] # DOMAIN NoGrant
  BY DEF NoGrant
<1>2. QED
  BY <1>1

\* The hook's lock is a share count, and no more than what was granted.
LEMMA LockedSharesTyped ==
    ASSUME TypeOK, NEW w \in Wallets
    PROVE  /\ LockedShares(w) \in Nat
           /\ grant[w] # NoGrant => LockedShares(w) <= grant[w].total
<1>1. CASE grant[w] = NoGrant
  BY <1>1 DEF LockedShares
<1>2. CASE grant[w] # NoGrant
  <2>1. grant[w].total \in Nat /\ grant[w].schedule \in Schedule /\ now \in Int
    BY <1>2 DEF TypeOK, GrantRecord, Shares
  <2>2. Locked(grant[w].total, grant[w].schedule, now) \in 0 .. grant[w].total
    BY <2>1, LockedWithinTotal
  <2>3. QED
    BY <1>2, <2>1, <2>2 DEF LockedShares
<1>3. QED
  BY <1>1, <1>2

\* The lock follows the clock and the grant only.
LEMMA LockUntouched ==
    ASSUME NEW w \in Wallets, now' = now, grant'[w] = grant[w]
    PROVE  LockedShares(w)' = LockedShares(w)
  BY DEF LockedShares

\* A second later the lock is no tighter.
LEMMA TickLoosens ==
    ASSUME TypeOK, Tick, NEW w \in Wallets
    PROVE  LockedShares(w)' \in 0 .. LockedShares(w)
<1>1. grant' = grant /\ now' = now + 1 /\ now \in Int
  BY DEF Tick, TypeOK
<1>2. CASE grant[w] = NoGrant
  BY <1>1, <1>2 DEF LockedShares
<1>3. CASE grant[w] # NoGrant
  <2>1. grant[w].total \in Nat /\ grant[w].schedule \in Schedule
    BY <1>3 DEF TypeOK, GrantRecord, Shares
  <2>2. now + 1 \in Int /\ now <= now + 1
    BY <1>1
  <2>3. Locked(grant[w].total, grant[w].schedule, now + 1)
           <= Locked(grant[w].total, grant[w].schedule, now)
    BY <1>1, <2>1, <2>2, LockedNeverRises
  <2>4. Locked(grant[w].total, grant[w].schedule, now + 1)
           \in 0 .. grant[w].total
    BY <2>1, <2>2, LockedWithinTotal
  <2>5. Locked(grant[w].total, grant[w].schedule, now)
           \in 0 .. grant[w].total
    BY <1>1, <2>1, LockedWithinTotal
  <2>6. QED
    BY <1>1, <1>3, <2>1, <2>3, <2>4, <2>5 DEF LockedShares
<1>4. QED
  BY <1>2, <1>3

\* A grant just made locks no more than the shares that came with it.
LEMMA NewGrantLock ==
    ASSUME TypeOK, NEW signer \in Keys, NEW w \in Wallets, NEW n \in Shares,
           NEW s \in Schedules, CreateGrant(signer, w, n, s)
    PROVE  /\ LockedShares(w) = 0
           /\ LockedShares(w)' \in 0 .. n
           /\ \A v \in Wallets \ {w} : LockedShares(v)' = LockedShares(v)
<1>1. /\ grant[w] = NoGrant
      /\ grant'[w] = [total |-> n, schedule |-> s]
      /\ \A v \in Wallets \ {w} : grant'[v] = grant[v]
      /\ now' = now
  BY DEF CreateGrant, TypeOK
<1>2. LockedShares(w) = 0
  BY <1>1 DEF LockedShares
<1>3. LockedShares(w)' = Locked(n, s, now)
  BY <1>1, GrantIsNoNoGrant DEF LockedShares
<1>4. Locked(n, s, now) \in 0 .. n
  <2>1. n \in Nat /\ s \in Schedule /\ now \in Int
    BY DEF TypeOK, Shares
  <2>2. QED
    BY <2>1, LockedWithinTotal
<1>5. QED
  BY <1>1, <1>2, <1>3, <1>4, LockUntouched

\* Nothing is granted at first.
LEMMA InitLocked == Init => GrantLocked
  BY DEF Init, GrantLocked, LockedShares

\* No instruction and no second of the clock breaks a lock.
LEMMA StepLocked ==
    TypeOK /\ GrantLocked /\ [Next]_shareVars => GrantLocked'
<1> SUFFICES ASSUME TypeOK, GrantLocked, [Next]_shareVars, NEW v \in Wallets
             PROVE  (balance[v] + burned[v] >= LockedShares(v))'
  BY DEF GrantLocked
<1>1. /\ balance[v] + burned[v] >= LockedShares(v)
      /\ balance \in [Accounts -> Nat] /\ burned \in [Wallets -> Nat]
      /\ balance[v] \in Nat /\ burned[v] \in Nat /\ LockedShares(v) \in Nat
  BY LockedSharesTyped DEF GrantLocked, TypeOK
<1>2. ASSUME now' = now, grant' = grant, balance' = balance, burned' = burned
      PROVE  (balance[v] + burned[v] >= LockedShares(v))'
  BY <1>1, <1>2, LockUntouched
<1>3. CASE UNCHANGED shareVars
  BY <1>2, <1>3 DEF shareVars
<1>4. CASE Tick
  <2>1. balance' = balance /\ burned' = burned
    BY <1>4 DEF Tick
  <2>2. LockedShares(v)' \in 0 .. LockedShares(v)
    BY <1>4, TickLoosens
  <2>3. QED
    BY <1>1, <2>1, <2>2
<1>5. ASSUME NEW signer \in Keys, NEW admin \in Keys \cup {NoKey},
             NEW officer \in Keys \cup {NoKey},
             SetRoles(signer, admin, officer)
      PROVE  (balance[v] + burned[v] >= LockedShares(v))'
  BY <1>2, <1>5 DEF SetRoles
<1>6. ASSUME NEW signer \in Keys, NEW accreditation \in BOOLEAN,
             NEW rofr \in BOOLEAN, SetPolicy(signer, accreditation, rofr)
      PROVE  (balance[v] + burned[v] >= LockedShares(v))'
  BY <1>2, <1>6 DEF SetPolicy
<1>7. ASSUME NEW signer \in Keys, NEW w \in Wallets, NEW st \in Statuses,
             NEW e \in Expiries, SetInvestorStatus(signer, w, st, e)
      PROVE  (balance[v] + burned[v] >= LockedShares(v))'
  BY <1>2, <1>7 DEF SetInvestorStatus
<1>8. ASSUME NEW signer \in Keys, NEW w \in Wallets, NEW n \in Shares,
             Distribute(signer, w, n)
      PROVE  (balance[v] + burned[v] >= LockedShares(v))'
  <2>1. MoveShares(Treasury, w, n) /\ now' = now /\ grant' = grant
        /\ burned' = burned
    BY <1>8 DEF Distribute, Transfer
  <2>2. balance'[v] \in Nat /\ balance'[v] >= balance[v]
    BY <1>1, <2>1, MoveTyped DEF Shares
  <2>3. QED
    BY <1>1, <2>1, <2>2, LockUntouched
<1>9. ASSUME NEW signer \in Keys, NEW w \in Wallets, NEW n \in Shares,
             NEW s \in Schedules, CreateGrant(signer, w, n, s)
      PROVE  (balance[v] + burned[v] >= LockedShares(v))'
  <2>1. MoveShares(Treasury, w, n) /\ burned' = burned
    BY <1>9 DEF CreateGrant, Transfer
  <2>2. /\ balance'[w] = balance[w] + n
        /\ v # w => balance'[v] = balance[v]
        /\ balance[w] \in Nat /\ burned[w] \in Nat /\ n \in Nat
    BY <1>1, <2>1, MoveTyped DEF Shares
  <2>3. LockedShares(w)' \in 0 .. n
        /\ (v # w => LockedShares(v)' = LockedShares(v))
    BY <1>9, NewGrantLock
  <2>4. QED
    BY <1>1, <2>1, <2>2, <2>3
<1>10. ASSUME NEW w \in Wallets, NEW dst \in Accounts, NEW n \in Shares,
              HolderTransfer(w, dst, n)
       PROVE  (balance[v] + burned[v] >= LockedShares(v))'
  <2>1. /\ MoveShares(w, dst, n) /\ now' = now /\ grant' = grant
        /\ burned' = burned
        /\ balance[w] - n >= LockedShares(w)
    BY <1>10 DEF HolderTransfer, Transfer, HookAllows, KeepsLocked
  <2>2. /\ v = w => balance'[v] = balance[w] - n
        /\ v # w => balance'[v] \in Nat /\ balance'[v] >= balance[v]
        /\ balance'[v] \in Nat
    BY <1>1, <2>1, MoveTyped DEF Shares, MoveShares
  <2>3. LockedShares(v)' = LockedShares(v)
    BY <2>1, LockUntouched
  <2>4. QED
    BY <1>1, <2>1, <2>2, <2>3
<1>11. ASSUME NEW w \in Wallets, NEW n \in Shares, HolderBurn(w, n)
       PROVE  (balance[v] + burned[v] >= LockedShares(v))'
  <2>1. now' = now /\ grant' = grant
    BY <1>11 DEF HolderBurn
  <2>2. balance'[v] + burned'[v] = balance[v] + burned[v]
    BY <1>1, <1>11 DEF HolderBurn, Shares
  <2>3. QED
    BY <1>1, <2>1, <2>2, LockUntouched
<1>12. QED
  BY <1>3, <1>4, <1>5, <1>6, <1>7, <1>8, <1>9, <1>10, <1>11 DEF Next

\* The unvested shares of a grant never leave their holder, whatever anybody
\* does and however long it takes.  TypeOK makes the invariant inductive: the
\* lock must be a share count for the arithmetic to mean anything.
THEOREM GrantStaysLocked == Spec => []GrantLocked
<1>1. Spec => []TypeOK
  BY TypeCorrect
<1>2. QED
  BY <1>1, InitLocked, StepLocked, PTL DEF Spec

-----------------------------------------------------------------------------
\* Only the receiving end of a transfer gains shares, and the hook has just
\* admitted it.
LEMMA ReceiverAdmitted ==
    ASSUME TypeOK, NEW src \in Accounts, NEW dst \in Accounts, NEW n \in Shares,
           Transfer(src, dst, n),
           NEW v \in Wallets, balance'[v] > balance[v]
    PROVE  \/ ~ policy.accreditation
           \/ record[v].status = "approved" /\ now < record[v].expiresAt
<1>1. MoveShares(src, dst, n) /\ MayReceive(dst)
  BY DEF Transfer, HookAllows
<1>2. balance \in [Accounts -> Nat] /\ now \in Nat /\ record[v] \in Record
  BY DEF TypeOK
<1>3. v = dst
  BY <1>1, <1>2, MoveTyped DEF Shares
<1>4. QED
  BY <1>1, <1>2, <1>3 DEF MayReceive, Admitted, Record

\* No transaction of any kind puts shares on the account of an investor who is
\* not admitted at that moment, when the policy asks for it.
THEOREM AdmissionEnforced == Spec => ReceivedOnlyWhileAdmitted
<1>1. TypeOK /\ [Next]_shareVars =>
          [\A w \in Wallets :
              balance'[w] > balance[w] =>
                  \/ ~ policy.accreditation
                  \/ record[w].status = "approved" /\ now < record[w].expiresAt]_shareVars
  <2> SUFFICES ASSUME TypeOK, Next, NEW v \in Wallets,
                      balance'[v] > balance[v]
               PROVE  \/ ~ policy.accreditation
                      \/ record[v].status = "approved"
                            /\ now < record[v].expiresAt
    OBVIOUS
  <2>1. balance[v] \in Nat
    BY DEF TypeOK
  <2>2. balance' # balance
    BY <2>1
  <2>3. ASSUME NEW signer \in Keys, NEW w \in Wallets, NEW n \in Shares,
               Distribute(signer, w, n)
        PROVE  \/ ~ policy.accreditation
               \/ record[v].status = "approved" /\ now < record[v].expiresAt
    BY <2>3, ReceiverAdmitted DEF Distribute
  <2>4. ASSUME NEW signer \in Keys, NEW w \in Wallets, NEW n \in Shares,
               NEW s \in Schedules, CreateGrant(signer, w, n, s)
        PROVE  \/ ~ policy.accreditation
               \/ record[v].status = "approved" /\ now < record[v].expiresAt
    BY <2>4, ReceiverAdmitted DEF CreateGrant
  <2>5. ASSUME NEW w \in Wallets, NEW dst \in Accounts, NEW n \in Shares,
               HolderTransfer(w, dst, n)
        PROVE  \/ ~ policy.accreditation
               \/ record[v].status = "approved" /\ now < record[v].expiresAt
    BY <2>5, ReceiverAdmitted DEF HolderTransfer
  <2>6. ASSUME NEW w \in Wallets, NEW n \in Shares, HolderBurn(w, n)
        PROVE  FALSE
    <3>1. balance' = [balance EXCEPT ![w] = @ - n] /\ balance[w] \in Nat
          /\ n \in Nat /\ balance \in [Accounts -> Nat]
      BY <2>6 DEF HolderBurn, TypeOK, Shares
    <3>2. balance'[v] <= balance[v]
      BY <2>1, <3>1
    <3>3. QED
      BY <2>1, <3>1, <3>2
  <2>7. QED
    BY <2>2, <2>3, <2>4, <2>5, <2>6
       DEF Next, Tick, SetRoles, SetPolicy, SetInvestorStatus
<1>2. QED
  BY <1>1, TypeCorrect, PTL DEF Spec, ReceivedOnlyWhileAdmitted

-----------------------------------------------------------------------------
\* The two derived variables of the cap table follow the registry, the clock
\* and the grants only.
LEMMA DerivedUntouched ==
    ASSUME now' = now, policy' = policy, record' = record, grant' = grant
    PROVE  /\ {w \in Wallets : MayReceive(w)}' = {w \in Wallets : MayReceive(w)}
           /\ [w \in Wallets |-> LockedShares(w)]'
                 = [w \in Wallets |-> LockedShares(w)]
  BY DEF MayReceive, Admitted, LockedShares

\* The initial state is one of the cap table.
LEMMA InitMaps == Init => CT!Init
  BY DEF Init, CT!Init, CT!Accounts, LockedShares

\* A step of the token is a step of the cap table, or stutters.
LEMMA StepMaps == TypeOK /\ [Next]_shareVars => [CT!Next]_CT!vars
<1> SUFFICES ASSUME TypeOK, [Next]_shareVars PROVE [CT!Next]_CT!vars
  OBVIOUS
<1> DEFINE eligible == {w \in Wallets : MayReceive(w)}
           locked == [w \in Wallets |-> LockedShares(w)]
<1>1. /\ balance \in [Accounts -> Nat] /\ burned \in [Wallets -> Nat]
      /\ locked \in [Wallets -> Nat]
  BY LockedSharesTyped DEF TypeOK
<1>2. ASSUME balance' = balance, burned' = burned, now' = now, grant' = grant
      PROVE  CT!Next
  <2>1. \A w \in Wallets : LockedShares(w)' = LockedShares(w)
    BY <1>2, LockUntouched
  <2>2. locked' = locked
    BY <2>1
  <2>3. \A w \in Wallets : locked'[w] <= locked[w]
    BY <1>1, <2>2
  <2>4. QED
    BY <1>1, <1>2, <2>2, <2>3 DEF CT!Next, CT!Change
<1>3. CASE UNCHANGED shareVars
  <2>1. eligible' = eligible /\ locked' = locked
    BY <1>3, DerivedUntouched DEF shareVars
  <2>2. QED
    BY <1>3, <2>1 DEF CT!vars, shareVars
<1>4. CASE Tick
  <2>1. balance' = balance /\ burned' = burned
    BY <1>4 DEF Tick
  <2>2. \A w \in Wallets : LockedShares(w)' \in 0 .. LockedShares(w)
    BY <1>4, TickLoosens
  <2>3. /\ locked' \in [Wallets -> Nat]
        /\ \A w \in Wallets : locked'[w] <= locked[w]
    BY <1>1, <2>2
  <2>4. QED
    BY <2>1, <2>3 DEF CT!Next, CT!Change
<1>5. ASSUME NEW signer \in Keys, NEW admin \in Keys \cup {NoKey},
             NEW officer \in Keys \cup {NoKey},
             SetRoles(signer, admin, officer)
      PROVE  CT!Next
  BY <1>2, <1>5 DEF SetRoles
<1>6. ASSUME NEW signer \in Keys, NEW accreditation \in BOOLEAN,
             NEW rofr \in BOOLEAN, SetPolicy(signer, accreditation, rofr)
      PROVE  CT!Next
  BY <1>2, <1>6 DEF SetPolicy
<1>7. ASSUME NEW signer \in Keys, NEW w \in Wallets, NEW st \in Statuses,
             NEW e \in Expiries, SetInvestorStatus(signer, w, st, e)
      PROVE  CT!Next
  BY <1>2, <1>7 DEF SetInvestorStatus
<1>8. ASSUME NEW src \in Accounts, NEW dst \in Accounts, NEW n \in Shares,
             Transfer(src, dst, n)
      PROVE  CT!Move(src, dst, n)
  <2>1. n \in 1 .. balance[src] /\ src # dst
    BY <1>1, <1>8, MoveTyped DEF Transfer, MoveShares
  <2>2. dst \in eligible \cup {Treasury}
    BY <1>8 DEF Transfer, HookAllows
  <2>3. QED
    BY <1>8, <2>1, <2>2 DEF CT!Move, Transfer, MoveShares
<1>9. ASSUME NEW signer \in Keys, NEW w \in Wallets, NEW n \in Shares,
             Distribute(signer, w, n)
      PROVE  CT!Next
  <2>1. CT!Move(Treasury, w, n)
    BY <1>8, <1>9 DEF Distribute
  <2>2. burned' = burned /\ eligible' = eligible /\ locked' = locked
    BY <1>9, DerivedUntouched DEF Distribute, registryVars
  <2>3. CT!Give(Treasury, w, n)
    BY <2>1, <2>2 DEF CT!Give
  <2>4. QED
    BY <2>3 DEF CT!Next, CT!Accounts, Shares
<1>10. ASSUME NEW signer \in Keys, NEW w \in Wallets, NEW n \in Shares,
              NEW s \in Schedules, CreateGrant(signer, w, n, s)
       PROVE  CT!Next
  <2>1. CT!Move(Treasury, w, n)
    BY <1>8, <1>10 DEF CreateGrant
  <2>2. burned' = burned /\ eligible' = eligible
    BY <1>10 DEF CreateGrant, registryVars, MayReceive, Admitted
  <2>3. /\ LockedShares(w) = 0
        /\ LockedShares(w)' \in 0 .. n
        /\ \A v \in Wallets \ {w} : LockedShares(v)' = LockedShares(v)
    BY <1>10, NewGrantLock
  <2>4. /\ locked' = [locked EXCEPT ![w] = LockedShares(w)']
        /\ LockedShares(w)' \in locked[w] .. n
    BY <2>3
  <2>5. CT!Award(w, n)
    BY <2>1, <2>2, <2>4 DEF CT!Award
  <2>6. QED
    BY <2>5 DEF CT!Next, Shares
<1>11. ASSUME NEW w \in Wallets, NEW dst \in Accounts, NEW n \in Shares,
              HolderTransfer(w, dst, n)
       PROVE  CT!Next
  <2>1. CT!Move(w, dst, n)
    BY <1>8, <1>11 DEF HolderTransfer
  <2>2. burned' = burned /\ eligible' = eligible /\ locked' = locked
    BY <1>11, DerivedUntouched DEF HolderTransfer, registryVars
  <2>3. balance[w] - n >= LockedShares(w)
    BY <1>11 DEF HolderTransfer, Transfer, HookAllows, KeepsLocked
  <2>4. CT!Give(w, dst, n)
    BY <1>1, <2>1, <2>2, <2>3 DEF CT!Give, Shares
  <2>5. QED
    BY <2>4 DEF CT!Next, CT!Accounts, Shares
<1>12. ASSUME NEW w \in Wallets, NEW n \in Shares, HolderBurn(w, n)
       PROVE  CT!Next
  <2>1. eligible' = eligible /\ locked' = locked
    BY <1>12, DerivedUntouched DEF HolderBurn, registryVars
  <2>2. CT!Destroy(w, n)
    BY <1>1, <1>12, <2>1 DEF CT!Destroy, HolderBurn, Shares
  <2>3. QED
    BY <2>2 DEF CT!Next, Shares
<1>13. QED
  BY <1>3, <1>4, <1>5, <1>6, <1>7, <1>9, <1>10, <1>11, <1>12 DEF Next

\* The program, its hook and the token program together keep the cap table's
\* promise: roles, policy versions, registry records, schedules and the clock
\* come down to who is eligible and what is locked.
THEOREM RefinesCapTable == Spec => ImplementsCapTable
<1>1. QED
  BY InitMaps, StepMaps, TypeCorrect, PTL DEF Spec, ImplementsCapTable, CT!Spec
============================================================================
