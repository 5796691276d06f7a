------------------------------ MODULE Purchase ------------------------------
(***************************************************************************)
(* Buying on the storefront: what the index says can be taken, the form a  *)
(* buyer fills in from it, and the way of its transaction through          *)
(* simulation, wallet, network and confirmation (investor/market,          *)
(* chain/send.ts), while the market goes on.  A refused attempt is a row   *)
(* of the company's journal, by the panel's report if only the simulation  *)
(* saw it and by the worker if the chain did.                              *)
(*                                                                         *)
(* A form that is closed does not stop its transaction, and opens again    *)
(* empty, so a row can be bought from at any time.  The index is up to     *)
(* date when the page is read, and the page grows old from then on.        *)
(***************************************************************************)
EXTENDS Market, Logs

CONSTANTS
    Buyer,    \* the wallet of the tab's session
    MaxTries  \* bound: submissions

ASSUME PurchaseAssumption ==
    /\ Buyer \in Wallets
    /\ MaxTries \in Nat

VARIABLES
    page,    \* the answer of GET /market/offers the page shows
    tries,   \* the submissions, in the order of the clicks
    journal  \* transfer_attempts: the refused ones

tabVars == <<page, tries, journal>>
purchaseVars == <<marketVars, tabVars>>

-----------------------------------------------------------------------------
(* GET /market/offers: the index's mirror of the hook, and the worker's    *)
(* reading of the seller's account.                                        *)

\* A slip: an admission that ends now still counts.
AdmitsInclusive(w) ==
    \/ ~ policy.accreditation
    \/ record[w].status = "approved" /\ record[w].expiresAt >= now

\* caprail_admits.
Admits(w) ==
    \/ ~ policy.accreditation
    \/ record[w].status = "approved" /\ record[w].expiresAt > now

\* Offers of others that are open and whose token the viewer may receive.
Listed(o) == IsOpen(o) /\ Seller[o] # Buyer /\ Admits(Buyer)

\* assess: how much of the remainder the seller's account can deliver.
Available(o) ==
    IF delegate[Seller[o]] # o
    THEN 0
    ELSE Min({offers[o].remaining, delegated[Seller[o]], balance[Seller[o]]})

NoRow == [price |-> 0, remaining |-> 0, available |-> 0]

Row(o, available) == [price |-> offers[o].price,
                      remaining |-> offers[o].remaining,
                      available |-> available]

Takeable(row) == Min({row.available, row.remaining})

\* quoteOffer, with the fee of the platform's configuration.
Quote(price, n) == [payment |-> PaymentFor(price, n),
                    fee |-> FeeFor(FeeBps, PaymentFor(price, n))]

-----------------------------------------------------------------------------
(* What the network says to a purchase, check by check, and what it logs.  *)

Checks(o, n) == <<
    [by |-> "caprail", holds |-> IsOpen(o), error |-> "OfferNotOpen"],
    [by |-> "caprail", holds |-> ~ InRofrWindow(o),
     error |-> "RofrWindowOpen"],
    [by |-> "caprail", holds |-> /\ n <= offers[o].remaining
                                 /\ PaymentFor(offers[o].price, n) <= U64Max,
     error |-> "AmountExceedsRemaining"],
    [by |-> "caprail", holds |-> Backed(o, n), error |-> "OfferStale"],
    [by |-> "hook", holds |-> policy.accreditation =>
                                  record[Buyer].status = "approved",
     error |-> "NotAccredited"],
    [by |-> "hook", holds |-> MayReceive(Buyer),
     error |-> "AccreditationExpired"],
    [by |-> "hook", holds |-> KeepsLocked(Seller[o], n), error |-> "Unvested"],
    [by |-> "token", holds |-> PaymentFor(offers[o].price, n) <= cash[Buyer],
     error |-> "no funds"]>>

Passed == [by |-> "nobody", error |-> "none"]

\* The first check that does not hold, and whose it is.
Refusal(o, n) ==
    LET checks == Checks(o, n)
        failed == {i \in DOMAIN checks : ~ checks[i].holds}
        first == checks[Min(failed)]
    IN  IF failed = {} THEN Passed ELSE [by |-> first.by, error |-> first.error]

\* The shares' transfer, which calls the hook, comes before the payment's.
\* The token programs are no Anchor programs and log no such errors.
Log(why) ==
    LET shares(line) == <<Enter("token"), Enter("hook"), line,
                          Leave("hook"), Leave("token")>>
        payment == <<Enter("token"), Leave("token")>>
        body == CASE why.by = "caprail" -> <<Error(why.error)>>
                  [] why.by = "hook" -> shares(Error(why.error))
                  [] why.by = "token" ->
                        shares(Data("TransferAllowed")) \o payment
                  [] OTHER -> shares(Data("TransferAllowed")) \o payment
                                  \o <<Data("OfferAccepted")>>
    IN  <<Enter("caprail")>> \o body \o <<Leave("caprail")>>

-----------------------------------------------------------------------------
\* The steps in which a form is busy, for good if a node never answered.
Busy == {"simulating", "signing", "confirming", "silent"}

PurchaseInit ==
    /\ MarketInit
    /\ page = [o \in Offers |-> NoRow]
    /\ tries = <<>>
    /\ journal = {}

\* An offer the worker has not read yet is taken at its word.
ReadShop(unread) ==
    /\ page' = [o \in Offers |->
                  IF Listed(o)
                  THEN Row(o, IF o \in unread THEN offers[o].remaining
                                              ELSE Available(o))
                  ELSE NoRow]
    /\ UNCHANGED <<marketVars, tries, journal>>

\* parseAcceptForm: the form takes as much as its row says.
Accepts(row, n) == n <= Takeable(row)

\* buildAcceptOffer: the plan carries the quote the form shows.
Plan(o, n) == [offer |-> o, amount |-> n, quote |-> Quote(page[o].price, n)]

NewTry(plan) ==
    [offer |-> plan.offer, amount |-> plan.amount, quote |-> plan.quote,
     step |-> "simulating", sent |-> FALSE, why |-> Passed,
     fate |-> "none", paid |-> Quote(0, 0)]

Submit(o, n) ==
    /\ Accepts(page[o], n)
    /\ Len(tries) < MaxTries
    /\ tries' = Append(tries, NewTry(Plan(o, n)))
    /\ UNCHANGED <<marketVars, page, journal>>

-----------------------------------------------------------------------------
(* submitPlan.                                                             *)

Becomes(i, step, why) ==
    tries' = [tries EXCEPT ![i] = [@ EXCEPT !.step = step, !.why = why]]

\* A node that does not answer rejects the promise, which nobody catches.
Simulate(i) ==
    /\ tries[i].step = "simulating"
    /\ LET why == Refusal(tries[i].offer, tries[i].amount) IN
       \/ Becomes(i, "silent", Passed)
       \/ Becomes(i, IF why = Passed THEN "signing" ELSE "refused", why)
    /\ UNCHANGED <<marketVars, page, journal>>

\* The wallet declines; or its node refuses in preflight; or it sends, and its
\* answer arrives or does not.
Sign(i) ==
    /\ tries[i].step = "signing"
    /\ LET why == Refusal(tries[i].offer, tries[i].amount) IN
       \/ Becomes(i, "failed", Passed)
       \/ why # Passed /\ Becomes(i, "refused", why)
       \/ /\ why = Passed
          /\ \E step \in {"confirming", "failed"} :
                tries' = [tries EXCEPT ![i] =
                   [@ EXCEPT !.step = step, !.fate = "flying",
                             !.sent = (step = "confirming")]]
    /\ UNCHANGED <<marketVars, page, journal>>

\* A slip: whatever confirmTransaction throws is the transaction's error.
ConfirmCatchingAll(i) ==
    /\ tries[i].step = "confirming"
    /\ \/ tries[i].fate = "landed" /\ Becomes(i, "settled", Passed)
       \/ Becomes(i, "refused", tries[i].why)
    /\ UNCHANGED <<marketVars, page, journal>>

\* The confirmation may also give up, whatever becomes of the transaction.
Confirm(i) ==
    /\ tries[i].step = "confirming"
    /\ \/ tries[i].fate = "landed" /\ Becomes(i, "settled", Passed)
       \/ tries[i].fate = "bounced" /\ Becomes(i, "refused", tries[i].why)
       \/ Becomes(i, "failed", tries[i].why)
    /\ UNCHANGED <<marketVars, page, journal>>

-----------------------------------------------------------------------------
(* The network.                                                            *)

Land(i) ==
    LET o == tries[i].offer  n == tries[i].amount  why == Refusal(o, n) IN
    /\ tries[i].fate = "flying"
    /\ \/ /\ why = Passed
          /\ AcceptOffer(Buyer, o, n)
          /\ tries' = [tries EXCEPT ![i] =
                [@ EXCEPT !.fate = "landed", !.paid = Quote(offers[o].price, n)]]
       \/ /\ why # Passed
          /\ tries' = [tries EXCEPT ![i] =
                [@ EXCEPT !.fate = "bounced", !.why = why]]
          /\ UNCHANGED marketVars
    /\ UNCHANGED <<page, journal>>

\* Its blockhash is too old.
Drop(i) ==
    /\ tries[i].fate = "flying"
    /\ tries' = [tries EXCEPT ![i].fate = "dropped"]
    /\ UNCHANGED <<marketVars, page, journal>>

-----------------------------------------------------------------------------
(* The journal.                                                            *)

RejectionReasons ==
    {"NotAccredited", "AccreditationExpired", "Unvested", "RofrWindowOpen"}

\* A slip: what the chain refused is reported too.
IsReportedAlways(t) ==
    t.step = "refused" /\ ReasonFromLogs(Log(t.why)) \in RejectionReasons

\* attemptReportFrom: the transfer's refusals that nothing was sent of.
IsReported(t) ==
    /\ t.step = "refused"
    /\ ~ t.sent
    /\ ReasonFromLogs(Log(t.why)) \in RejectionReasons

Attempt(i, outcome, reason, origin) ==
    [try |-> i, outcome |-> outcome, reason |-> reason, origin |-> origin]

\* POST /attempts writes the row, or fails, once.
Report(i) ==
    /\ IsReported(tries[i])
    /\ tries' = [tries EXCEPT ![i].step = "reported"]
    /\ \/ journal' = journal \cup {Attempt(i, "rejected",
                             ReasonFromLogs(Log(tries[i].why)), "simulation")}
       \/ UNCHANGED journal
    /\ UNCHANGED <<marketVars, page>>

\* The worker journals the shares' transfers and their refusals, from the log
\* of what the chain executed; a row already there stays.
IndexTry(i) ==
    LET parsed == ParseTransaction(Log(tries[i].why),
                                   tries[i].fate = "bounced")
        allowed == {Attempt(i, "allowed", "none", "chain") :
                      k \in {k \in DOMAIN parsed.events :
                                parsed.events[k].says = "TransferAllowed"}}
        refused == {Attempt(i, "rejected", r, "chain") :
                      r \in {parsed.rejection} \ {"none"}}
    IN  /\ tries[i].fate \in {"landed", "bounced"}
        /\ journal' = journal \cup allowed \cup refused
        /\ UNCHANGED <<marketVars, page, tries>>

\* The page is loaded again: what was under way in it is forgotten.
Reload ==
    /\ page' = [o \in Offers |-> NoRow]
    /\ tries' = [i \in DOMAIN tries |->
                   IF tries[i].step \in Busy \/ IsReported(tries[i])
                   THEN [tries[i] EXCEPT !.step = "gone"] ELSE tries[i]]
    /\ UNCHANGED <<marketVars, journal>>

\* What others do that a purchase can meet: of the token, what moves or locks
\* the seller's shares and changes the buyer's admission; and the offer's own
\* life, with parts of it bought by the buyer elsewhere.  For a purchase a
\* delegation to somebody else is none, and a status that is not approved is
\* like another.
Others ==
    \/ Tick /\ UNCHANGED marketOnlyVars
    \/ \E signer \in Keys, accreditation \in BOOLEAN :
          SetPolicy(signer, accreditation, FALSE) /\ UNCHANGED marketOnlyVars
    \/ \E signer \in Keys, st \in {"approved", "revoked"}, e \in Expiries :
          SetInvestorStatus(signer, Buyer, st, e) /\ UNCHANGED marketOnlyVars
    \/ \E signer \in Keys, s \in Sellers, n \in Shares :
          Distribute(signer, s, n) /\ UNCHANGED marketOnlyVars
    \/ \E signer \in Keys, s \in Sellers, n \in Shares, sched \in Schedules :
          CreateGrant(signer, s, n, sched) /\ UNCHANGED marketOnlyVars
    \/ \E s \in Sellers, n \in Shares :
          HolderTransfer(s, Treasury, n) /\ UNCHANGED marketOnlyVars
    \/ \E o \in Offers, n \in Shares, p \in Prices : CreateOffer(o, n, p)
    \/ \E o \in Offers : CancelOffer(o)
    \/ \E o \in Offers, n \in Shares : AcceptOffer(Buyer, o, n)
    \/ \E o \in Offers, n \in Shares : ApproveByHand(Seller[o], o, n)
    \/ \E s \in Sellers : RevokeByHand(s)

PurchaseNext ==
    \/ Others /\ UNCHANGED tabVars
    \/ \E unread \in SUBSET Offers : ReadShop(unread)
    \/ \E o \in Offers, n \in Shares : Submit(o, n)
    \/ \E i \in DOMAIN tries : \/ Simulate(i) \/ Sign(i) \/ Confirm(i)
                               \/ Land(i) \/ Drop(i)
                               \/ Report(i) \/ IndexTry(i)
    \/ Reload

PurchaseSpec == PurchaseInit /\ [][PurchaseNext]_purchaseVars

-----------------------------------------------------------------------------
\* What a form says of a transaction is so, and stays so, however old the page
\* it was filled in from and whatever happens to the offer meanwhile: a receipt
\* is of a trade at the payment and the fee the buyer was shown, and a refusal
\* means that nothing of it will happen (tx/offers.ts:28-32, send.ts:13-19).
VerdictIsTrue ==
    \A i \in DOMAIN tries :
        LET t == tries[i] IN
        /\ t.fate = "landed" => t.paid = t.quote
        /\ t.step = "settled" => t.fate = "landed"
        /\ t.step \in {"refused", "reported"} => t.fate \in {"none", "bounced"}

\* The journal says of an attempt what became of it, once: allowed if it went
\* through, and never what the log of a failed one says was allowed before it
\* failed (parse.ts:105-107); refused for the hook's reason, as the chain's or
\* as a simulation's but not both (journal/model.ts:24-27).
JournalIsTheLedger ==
    \A r \in journal :
        LET t == tries[r.try] IN
        /\ \A s \in journal : s.try = r.try => s = r
        /\ r.outcome = "allowed" => t.fate = "landed"
        /\ r.outcome = "rejected" =>
              /\ t.why = [by |-> "hook", error |-> r.reason]
              /\ t.fate = IF r.origin = "chain" THEN "bounced" ELSE "none"

\* "You see only offers you could accept now" (Market.tsx:68), and up to as
\* much of each as the network would let pass, for what the seller's account
\* and the buyer's admission are at this moment.  The buyer's money is the
\* buyer's to know, and shares of a grant are in no index yet.
StorefrontIsTheNetwork ==
    \A o \in Offers, n \in Shares :
        Seller[o] # Buyer /\ KeepsLocked(Seller[o], n) =>
            LET row == IF Listed(o) THEN Row(o, Available(o)) ELSE NoRow
            IN  Accepts(row, n) <=> Refusal(o, n).by \in {"nobody", "token"}
=============================================================================
