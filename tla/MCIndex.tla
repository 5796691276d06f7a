------------------------------ MODULE MCIndex -------------------------------
(***************************************************************************)
(* WorkerIndex on the life of a small company: it is created with its      *)
(* token, another company in the same slot; then shares go from the        *)
(* treasury to ann and on to bob while officer, policy and ann's status    *)
(* change with every transfer.                                             *)
(***************************************************************************)
EXTENDS WorkerIndex, TLC

CONSTANTS treasury, ann, bob

MCSlot == [t \in Txs |-> IF t = 1 THEN 1 ELSE t - 1]
MCParent == [t \in Txs |-> IF t <= 2 THEN None ELSE 1]

Step(from, to, n) == [from |-> from, to |-> to, n |-> n]

\* The last transfer needs both shares, and ann moves one to herself.
MCMoves == (3 :> Step(treasury, ann, 2)) @@ (4 :> Step(ann, ann, 1))
           @@ (5 :> Step(ann, bob, 2))

Stamped(kind, stamp, value) == [kind |-> kind, stamp |-> stamp, value |-> value]
StatusOf(value) == [kind |-> "InvestorStatusSet", wallet |-> ann, value |-> value]

Creation == <<Stamped("CompanyCreated", NoStamp, "olga"),
              Stamped("TokenCreated", 1, "open")>>

Change(second, officer, version, terms, standing) ==
    <<Stamped("RolesSet", second, officer),
      Stamped("PolicySet", version, terms), StatusOf(standing)>>

\* The first two role changes fall in one second.
MCEventsOneSecond ==
    <<Creation, <<>>, Change(1, "petro", 2, "closed", "approved"),
      Change(1, "nina", 3, "open", "revoked"),
      Change(2, "olga", 4, "closed", "approved")>>

-----------------------------------------------------------------------------
(* The same without the other company, for the runs with the subscription. *)
MCLiveSlot == [t \in Txs |-> t]
MCLiveParent == [t \in Txs |-> IF t = 1 THEN None ELSE 1]

MCLiveMoves == (2 :> Step(treasury, ann, 2)) @@ (3 :> Step(ann, ann, 1))
               @@ (4 :> Step(ann, bob, 2))

MCLiveEvents ==
    <<Creation, Change(1, "petro", 2, "closed", "approved"),
      Change(2, "nina", 3, "open", "revoked"),
      Change(3, "olga", 4, "closed", "approved")>>
============================================================================
