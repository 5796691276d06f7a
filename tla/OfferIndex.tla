----------------------------- MODULE OfferIndex -----------------------------
(***************************************************************************)
(* The index row of one offer.  Two writers share it: the applier, with    *)
(* what the program's events say (apps/worker/src/apply.ts), and the       *)
(* sweep, with what the seller's account says (stale.ts), because an offer *)
(* is a delegation and the seller may revoke it or spend the shares        *)
(* without the program seeing it.  Slots order the two.                    *)
(*                                                                         *)
(* Each slot of the chain holds one step that matters to the offer.  The   *)
(* applier's transaction and the sweep's UPDATE are atomic: both write the *)
(* row, and the second waits for the first.                                *)
(***************************************************************************)
EXTENDS Integers, Sequences, FiniteSets

CONSTANTS
    Amount,   \* shares offered
    Balance,  \* shares on the seller's account at creation
    MaxSlot   \* bound: slots in which something happens

ASSUME OfferIndexAssumption ==
    /\ Amount \in Nat \ {0} /\ Balance \in Nat /\ Amount <= Balance
    /\ MaxSlot \in Nat \ {0}

VARIABLES
    chain,    \* what each slot did, and the offer and the account after it
    node,     \* the slot the RPC node has reached
    row,      \* database: the offers row
    journal,  \* database: slots whose journal and trade rows are there
    early,    \* transfers journaled before the offer was (history)
    sweep     \* the sweep under way: the offer it found due, its reading

vars == <<chain, node, row, journal, early, sweep>>

Min2(a, b) == IF a < b THEN a ELSE b
Slots == DOMAIN chain

-----------------------------------------------------------------------------
(***************************************************************************)
(* The chain: events reach the index; approvals by hand and a closed       *)
(* account do not.  The mint has no freeze authority.                      *)
(***************************************************************************)
Kinds == {"create", "accept", "cancel", "send", "receive", "revoke", "approve", "close"}
Silent == {"revoke", "approve", "close"}

\* Who may spend from the seller's account: this offer, nobody or another, or
\* there is no such account.
Delegates == {"offer", "other", "missing"}

Created == [kind |-> "create", n |-> 0, status |-> "open", remaining |-> Amount,
            amount |-> Balance, delegate |-> "offer", delegated |-> Amount]

Tip == chain[Len(chain)]

Goes(step) ==
    /\ Len(chain) < MaxSlot
    /\ chain' = Append(chain, step)
    /\ UNCHANGED <<node, row, journal, early, sweep>>

Spent(n) == IF Tip.delegated = n THEN "other" ELSE Tip.delegate

ChainAccept(n) ==
    /\ Tip.status = "open" /\ Tip.delegate = "offer"
    /\ n <= Tip.remaining /\ n <= Tip.amount /\ n <= Tip.delegated
    /\ Goes([Tip EXCEPT !.kind = "accept", !.n = n, !.remaining = @ - n,
                        !.status = IF Tip.remaining = n THEN "filled" ELSE "open",
                        !.amount = @ - n, !.delegated = @ - n, !.delegate = Spent(n)])

ChainCancel ==
    /\ Tip.status = "open"
    /\ Goes([Tip EXCEPT !.kind = "cancel", !.n = 0, !.status = "cancelled",
                        !.delegate = IF @ = "offer" THEN "other" ELSE @,
                        !.delegated = 0])

ChainSend(n) ==
    /\ n <= Tip.amount
    /\ Goes([Tip EXCEPT !.kind = "send", !.n = n, !.amount = @ - n])

ChainReceive(n) ==
    /\ Tip.amount + n <= Balance
    /\ Goes([Tip EXCEPT !.kind = "receive", !.n = n, !.amount = @ + n,
                        !.delegate = IF @ = "missing" THEN "other" ELSE @])

ChainRevoke ==
    /\ Tip.delegate = "offer"
    /\ Goes([Tip EXCEPT !.kind = "revoke", !.n = 0, !.delegate = "other",
                        !.delegated = 0])

\* Token-2022 closes only an empty account.
ChainClose ==
    /\ Tip.amount = 0 /\ Tip.delegate # "missing"
    /\ Goes([Tip EXCEPT !.kind = "close", !.n = 0, !.delegate = "missing",
                        !.delegated = 0])

ChainApprove(n) ==
    /\ Tip.status = "open" /\ Tip.delegate # "missing"
    /\ Goes([Tip EXCEPT !.kind = "approve", !.n = n, !.delegate = "offer",
                        !.delegated = n])

ChainStep ==
    \/ ChainCancel \/ ChainRevoke \/ ChainClose
    \/ \E n \in 1 .. Amount :
            ChainAccept(n) \/ ChainSend(n) \/ ChainReceive(n) \/ ChainApprove(n)

NodeCatchesUp ==
    /\ node < Len(chain)
    /\ node' = node + 1
    /\ UNCHANGED <<chain, row, journal, early, sweep>>

-----------------------------------------------------------------------------
(***************************************************************************)
(* The applier.                                                            *)
(***************************************************************************)
NoOffer == [status |-> "none", remaining |-> 0, available |-> -1, stale |-> "none",
            checked |-> "never", checkedSlot |-> 0, touchedSlot |-> 0]

\* No reading: NULL in the row.
Unknown == -1

StaleReasons == {"none", "account_missing", "not_delegated", "delegation_short",
                 "balance_short"}

OfferRow == [status : {"none", "open", "filled", "cancelled"}, remaining : 0 .. Amount,
             available : {Unknown} \cup 0 .. Amount, stale : StaleReasons,
             checked : {"never", "fresh", "expired"},
             checkedSlot : 0 .. MaxSlot, touchedSlot : 0 .. MaxSlot]

SlotAtLeast(s) == IF row.touchedSlot < s THEN s ELSE row.touchedSlot

\* The account was checked by create_offer itself, at this slot.
CreateOffer(s) ==
    row' = IF row # NoOffer THEN row
           ELSE [status |-> "open", remaining |-> Amount, available |-> Amount,
                 stale |-> "none", checked |-> "never",
                 checkedSlot |-> s, touchedSlot |-> s]

\* A slip: a trade leaves the reading as it was.
AvailableBefore(remaining, n) == [available |-> row.available, stale |-> row.stale]

\* A trade takes n from the balance and from the delegation alike.
AvailableAfter(remaining, n) ==
    LET left == IF row.available > n THEN row.available - n ELSE 0
        available == Min2(left, remaining)
    IN  CASE remaining = 0 \/ row.available = Unknown ->
                [available |-> Unknown, stale |-> "none"]
          [] remaining # 0 /\ row.available # Unknown /\ available = remaining ->
                [available |-> available, stale |-> "none"]
          [] OTHER ->
                [available |-> available,
                 stale |-> IF row.stale = "none" THEN "balance_short" ELSE row.stale]

\* A slip: a trade may leave any remainder.
ApplicableAnyRemainder(status, remaining) == row.status = "open"

\* Only an open offer changes, and a trade must leave less than there is.
Applicable(status, remaining) ==
    /\ row.status = "open"
    /\ status = "cancelled" \/ row.remaining > remaining

Changed(s, status, remaining, reading) ==
    IF Applicable(status, remaining)
    THEN [row EXCEPT !.status = status, !.remaining = remaining,
                     !.available = reading.available, !.stale = reading.stale,
                     !.checked = "never", !.touchedSlot = SlotAtLeast(s)]
    ELSE row

AcceptOffer(s) ==
    row' = Changed(s, IF chain[s].remaining = 0 THEN "filled" ELSE "open",
                   chain[s].remaining, AvailableAfter(chain[s].remaining, chain[s].n))

CancelOffer(s) ==
    row' = Changed(s, "cancelled", chain[s].remaining,
                   [available |-> Unknown, stale |-> "none"])

\* A reading taken at or after slot s already saw the change and stays.
TouchOffer(s) ==
    row' = IF row.status = "open"
           THEN [row EXCEPT !.touchedSlot = SlotAtLeast(s),
                            !.checked = IF row.checkedSlot >= s THEN @ ELSE "never"]
           ELSE row

Plain(s) == chain[s].kind \in {"send", "receive"}

\* Records come in any order, but the pipeline refuses a trade or a cancellation
\* of an offer the index does not know.  A plain transfer refers to none: before
\* the offer's, it finds no row to touch.
Due(s) ==
    /\ chain[s].kind \notin Silent
    /\ s = 1 \/ Plain(s) \/ row # NoOffer

Apply(s) ==
    /\ Due(s)
    /\ CASE chain[s].kind = "create" -> CreateOffer(s)
         [] chain[s].kind = "accept" ->
                IF s \in journal THEN UNCHANGED row ELSE AcceptOffer(s)
         [] chain[s].kind = "cancel" -> CancelOffer(s)
         [] Plain(s) ->
                IF s \in journal THEN UNCHANGED row ELSE TouchOffer(s)
    /\ journal' = journal \cup {s}
    /\ early' = IF row = NoOffer /\ Plain(s) THEN early \cup {s} ELSE early
    /\ UNCHANGED <<chain, node, sweep>>

-----------------------------------------------------------------------------
(***************************************************************************)
(* The sweep: find what is due, read the account, record the reading.      *)
(***************************************************************************)
NoSweep == [state |-> "idle", remaining |-> 0, slot |-> 0]

\* The conditions accept_offer checks, in the order the reasons are given.
Assess(remaining, account) ==
    LET available == Min2(remaining, Min2(account.delegated, account.amount))
    IN  CASE account.delegate = "missing" ->
                [available |-> 0, stale |-> "account_missing"]
          [] account.delegate = "other" -> [available |-> 0, stale |-> "not_delegated"]
          [] account.delegate = "offer" /\ available = remaining ->
                [available |-> available, stale |-> "none"]
          [] OTHER -> [available |-> available,
                       stale |-> IF account.delegated < remaining
                                 THEN "delegation_short" ELSE "balance_short"]

\* The 30 seconds of the last reading have passed.
Expire ==
    /\ row.checked = "fresh"
    /\ row' = [row EXCEPT !.checked = "expired"]
    /\ UNCHANGED <<chain, node, journal, early, sweep>>

\* A slip: an offer once read is not read again.
IsDueOnce == row.status = "open" /\ row.checked = "never"

IsDue == row.status = "open" /\ row.checked \in {"never", "expired"}

SweepDue ==
    /\ sweep.state = "idle" /\ IsDue
    /\ sweep' = [state |-> "due", remaining |-> row.remaining, slot |-> 0]
    /\ UNCHANGED <<chain, node, row, journal, early>>

SweepRead ==
    /\ sweep.state = "due"
    /\ sweep' = [sweep EXCEPT !.state = "read", !.slot = node]
    /\ UNCHANGED <<chain, node, row, journal, early>>

\* The read of the accounts, or the database, fails: the sweep is abandoned.
SweepFails ==
    /\ sweep.state # "idle"
    /\ sweep' = NoSweep
    /\ UNCHANGED <<chain, node, row, journal, early>>

\* A slip: the touched slot is not looked at.
StillCurrentUntouched ==
    /\ row.status = "open" /\ row.remaining = sweep.remaining
    /\ row.checkedSlot <= sweep.slot

\* Nothing the index knows of is newer than the reading.
StillCurrent ==
    /\ row.status = "open" /\ row.remaining = sweep.remaining
    /\ row.touchedSlot <= sweep.slot /\ row.checkedSlot <= sweep.slot

SweepRecord ==
    /\ sweep.state = "read"
    /\ LET reading == Assess(sweep.remaining, chain[sweep.slot])
       IN  row' = IF StillCurrent
                  THEN [row EXCEPT !.available = reading.available,
                                   !.stale = reading.stale,
                                   !.checked = "fresh", !.checkedSlot = sweep.slot]
                  ELSE row
    /\ sweep' = NoSweep
    /\ UNCHANGED <<chain, node, journal, early>>

SweepStep == SweepDue \/ SweepRead \/ SweepRecord

-----------------------------------------------------------------------------
Init ==
    /\ chain = <<Created>> /\ node = 1
    /\ row = NoOffer /\ journal = {} /\ early = {}
    /\ sweep = NoSweep

Next ==
    \/ ChainStep \/ NodeCatchesUp
    \/ \E s \in Slots : Apply(s)
    \/ Expire \/ SweepStep \/ SweepFails

Spec == Init /\ [][Next]_vars

\* The node follows the chain, the pipeline brings every record (Pipeline), the
\* sweep's timer runs for ever and does not fail for ever, and time passes.
Fairness ==
    /\ WF_vars(NodeCatchesUp) /\ WF_vars(Expire)
    /\ \A s \in 1 .. MaxSlot : WF_vars(s \in Slots \ journal /\ Apply(s))
    /\ WF_vars(SweepDue) /\ SF_vars(SweepRead) /\ SF_vars(SweepRecord)

FairSpec == Spec /\ Fairness

-----------------------------------------------------------------------------
\* Every write keeps the constraints of the table, whatever order events and
\* readings come in: a refused one would fail its whole transaction, and the
\* pipeline with it (packages/db/src/schema.ts:446-457).
ConstraintsHold ==
    /\ row \in OfferRow
    /\ row # NoOffer =>
        /\ row.status = "filled" <=> row.remaining = 0
        /\ row.status # "open" => row.available = Unknown /\ row.stale = "none"
        /\ row.available # Unknown =>
              /\ row.available <= row.remaining
              /\ row.stale = "none" <=> row.available = row.remaining

\* A reading the row still stands by is what the chain said at its slot, and
\* nothing the index knows of has moved the account since, unless it came before
\* the offer did (stale.ts:45-48).
ReadingStands ==
    row.status = "open" /\ row.checked # "never" =>
        LET said == Assess(row.remaining, chain[row.checkedSlot])
        IN  /\ row.available = said.available /\ row.stale = said.stale
            /\ \A s \in journal \ early :
                  chain[s].kind \in {"accept", "send", "receive"} => s <= row.checkedSlot

\* A closed offer stays closed and an open one only shrinks, to whatever is
\* replayed or comes late (index-store.ts:115-117, 260-278).
RowOnlyShrinks ==
    [][row # NoOffer =>
          /\ row'.remaining <= row.remaining
          /\ row.status # "open" => row'.status = row.status]_vars

\* When all its records are in, in whatever order they came, the row is the
\* offer (apply.ts:466-519).
BookIsTheChain ==
    {s \in Slots : chain[s].kind \notin Silent} \subseteq journal =>
        row.status = Tip.status /\ row.remaining = Tip.remaining

\* Whatever the seller does behind the program's back, the row comes to say
\* what can be bought, and why not all of it (stale.ts:5-8).
ComesToSayWhatIsAvailable ==
    <>[](row.status = "open" =>
            LET said == Assess(Tip.remaining, Tip)
            IN  row.available = said.available /\ row.stale = said.stale)
============================================================================
