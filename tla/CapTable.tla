------------------------------ MODULE CapTable -----------------------------
(***************************************************************************)
(* What the share token promises, without roles, policies, registry, clock *)
(* or schedules: a cap table in which shares only move to somebody who is  *)
(* eligible at that moment, and in which the locked part of a holding      *)
(* cannot leave it.  ShareToken implements it.                             *)
(***************************************************************************)
EXTENDS Integers

CONSTANTS
    Wallets,    \* investors
    Treasury,   \* where every share starts
    Supply      \* shares there are

VARIABLES
    held,       \* shares on each account
    destroyed,  \* shares each wallet has burned
    eligible,   \* the wallets that may receive shares now
    locked      \* shares that must stay with each wallet now

vars == <<held, destroyed, eligible, locked>>

Accounts == Wallets \cup {Treasury}

Init ==
    /\ held = [a \in Accounts |-> IF a = Treasury THEN Supply ELSE 0]
    /\ destroyed = [w \in Wallets |-> 0]
    /\ eligible \in SUBSET Wallets
    /\ locked = [w \in Wallets |-> 0]

\* A whole number of shares goes from one account to another.
Move(from, to, n) ==
    /\ from # to
    /\ n \in 1 .. held[from]
    /\ to \in eligible \cup {Treasury}
    /\ held' = [held EXCEPT ![from] = @ - n, ![to] = @ + n]

\* Anything a holder gives away, by whatever route, leaves the locked part.
Give(from, to, n) ==
    /\ Move(from, to, n)
    /\ from \in Wallets => locked[from] <= held[from] - n
    /\ UNCHANGED <<destroyed, eligible, locked>>

\* The company awards shares under a lock that covers no more than the award
\* and loosens no lock there was.
Award(to, n) ==
    /\ to \in Wallets
    /\ Move(Treasury, to, n)
    /\ \E kept \in locked[to] .. n : locked' = [locked EXCEPT ![to] = kept]
    /\ UNCHANGED <<destroyed, eligible>>

\* A holder may destroy shares, locked ones too: nobody gains by it.
Destroy(w, n) ==
    /\ n \in 1 .. held[w]
    /\ held' = [held EXCEPT ![w] = @ - n]
    /\ destroyed' = [destroyed EXCEPT ![w] = @ + n]
    /\ UNCHANGED <<eligible, locked>>

\* Time passes, a policy changes, a wallet is admitted or revoked: no share
\* moves, anybody may gain or lose eligibility, and locks only loosen.
Change ==
    /\ eligible' \in SUBSET Wallets
    /\ locked' \in [Wallets -> Nat]
    /\ \A w \in Wallets : locked'[w] <= locked[w]
    /\ UNCHANGED <<held, destroyed>>

Next ==
    \/ \E from, to \in Accounts : \E n \in 1 .. Supply : Give(from, to, n)
    \/ \E to \in Wallets, n \in 1 .. Supply : Award(to, n)
    \/ \E w \in Wallets, n \in 1 .. Supply : Destroy(w, n)
    \/ Change

Spec == Init /\ [][Next]_vars
============================================================================
