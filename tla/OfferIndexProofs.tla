-------------------------- MODULE OfferIndexProofs --------------------------
(***************************************************************************)
(* The theorems about an offer's row, for any amount, any balance and any  *)
(* number of slots: events in any order, replayed at any time, against a   *)
(* sweep that reads any node.                                              *)
(***************************************************************************)
EXTENDS OfferIndex, TLAPS

USE OfferIndexAssumption

-----------------------------------------------------------------------------
(* The inductive invariant. *)

\* The steps that decide what is left of the offer, and those that move the
\* seller's shares.
Decisions == {"create", "accept", "cancel"}
Moving == {"accept", "send", "receive"}

ChainSteps == [kind : Kinds, n : 0 .. Amount, status : {"open", "filled", "cancelled"},
               remaining : 0 .. Amount, amount : 0 .. Balance, delegate : Delegates,
               delegated : 0 .. Amount]

\* Once closed, the offer is decided.
Decided(step, later) ==
    /\ later.status = step.status /\ later.remaining = step.remaining
    /\ later.kind \notin Decisions

ChainTyped ==
    /\ chain \in Seq(ChainSteps) /\ Len(chain) \in 1 .. MaxSlot
    /\ chain[1] = Created

\* The offer on the chain only shrinks, and a trade shrinks it.
ChainShrinks ==
    \A s, u \in Slots : s < u =>
        /\ chain[u].kind # "create"
        /\ chain[u].remaining <= chain[s].remaining
        /\ chain[u].kind = "accept" => chain[u].remaining < chain[s].remaining
        /\ chain[s].status # "open" => Decided(chain[s], chain[u])

StatusSays ==
    \A s \in Slots :
        /\ chain[s].status = "filled" <=> chain[s].remaining = 0
        /\ chain[s].kind = "accept" =>
              chain[s].status = IF chain[s].remaining = 0 THEN "filled" ELSE "open"
        /\ chain[s].kind = "cancel" => chain[s].status = "cancelled"

\* Some step decided what the tip says.
TipDecided ==
    \E s \in Slots : /\ chain[s].kind \in Decisions
                     /\ chain[s].status = Tip.status /\ chain[s].remaining = Tip.remaining

ChainInv == ChainTyped /\ ChainShrinks /\ StatusSays /\ TipDecided

RecordsTyped ==
    /\ node \in 1 .. Len(chain)
    /\ row \in OfferRow /\ (row.status = "none" <=> row = NoOffer)
    /\ journal \subseteq Slots /\ early \subseteq Slots /\ \A s \in early : Plain(s)
    /\ sweep \in [state : {"idle", "due", "read"}, remaining : 0 .. Amount,
                  slot : 0 .. MaxSlot]
    /\ sweep.state = "read" => sweep.slot \in Slots
    /\ row.checked # "never" => row.checkedSlot \in Slots

\* The row is as some journaled step left the offer, and that is the last one.
RowDecided ==
    row # NoOffer =>
        /\ \E s \in journal : /\ chain[s].kind \in Decisions
                              /\ row.status = chain[s].status
                              /\ row.remaining = chain[s].remaining
                              /\ row.status = "open" => s <= row.touchedSlot
        /\ \A s \in journal : chain[s].kind \in Decisions =>
              /\ row.remaining <= chain[s].remaining
              /\ chain[s].status # "open" => row.status = chain[s].status

\* What moved the shares has touched the row, unless there was none.
RowTouched ==
    /\ row = NoOffer => journal \subseteq early
    /\ row.status = "open" =>
          \A s \in journal \ early : chain[s].kind \in Moving => s <= row.touchedSlot

OfferInv ==
    /\ ChainInv /\ RecordsTyped /\ RowDecided /\ RowTouched
    /\ ConstraintsHold /\ ReadingStands

-----------------------------------------------------------------------------
(* The chain. *)

\* What a step may make of the offer.
Follows(step) ==
    /\ step \in ChainSteps /\ step.kind # "create"
    /\ step.kind \in Decisions => Tip.status = "open"
    /\ step.kind = "accept" =>
          /\ step.remaining < Tip.remaining
          /\ step.status = IF step.remaining = 0 THEN "filled" ELSE "open"
    /\ step.kind = "cancel" => step.status = "cancelled" /\ step.remaining = Tip.remaining
    /\ step.kind \notin Decisions =>
          step.status = Tip.status /\ step.remaining = Tip.remaining

\* The chain and its last step have their types.
LEMMA TipTyped ==
    ASSUME ChainTyped
    PROVE  /\ Len(chain) \in Slots /\ Slots = 1 .. Len(chain) /\ Tip \in ChainSteps
           /\ \A s \in Slots : chain[s] \in ChainSteps
  BY DEF ChainTyped, Slots, Tip

\* A chain step appends what may follow the last one.
LEMMA StepFollows ==
    ASSUME ChainTyped, StatusSays, ChainStep
    PROVE  /\ Len(chain) < MaxSlot
           /\ \E step : Follows(step) /\ chain' = Append(chain, step)
           /\ UNCHANGED <<node, row, journal, early, sweep>>
<1> DEFINE Follow == /\ Len(chain) < MaxSlot
                     /\ \E step : Follows(step) /\ chain' = Append(chain, step)
                     /\ UNCHANGED <<node, row, journal, early, sweep>>
<1>1. /\ Tip \in ChainSteps /\ (Tip.status = "open" => Tip.remaining # 0)
      /\ (Tip.status = "filled" <=> Tip.remaining = 0)
  BY TipTyped DEF StatusSays, Tip
<1>2. /\ Tip.remaining \in 0 .. Amount /\ Tip.amount \in 0 .. Balance
      /\ Tip.delegated \in 0 .. Amount /\ Tip.delegate \in Delegates
      /\ Tip.status \in {"open", "filled", "cancelled"} /\ Tip.n \in 0 .. Amount
  BY <1>1 DEF ChainSteps
<1>0. 0 \in 0 .. Amount /\ "other" \in Delegates /\ "missing" \in Delegates
  BY DEF Delegates
<1>3. ASSUME NEW step, Goes(step), Follows(step) PROVE Follow
  BY <1>3 DEF Goes
<1> HIDE DEF Follow
<1>4. ASSUME NEW n \in 1 .. Amount, ChainAccept(n) PROVE Follow
  <2> DEFINE left == Tip.remaining - n
             status == IF Tip.remaining = n THEN "filled" ELSE "open"
             amount == Tip.amount - n
             delegated == Tip.delegated - n
             delegate == Spent(n)
             step == [Tip EXCEPT !.kind = "accept", !.n = n, !.remaining = left,
                                 !.status = status, !.amount = amount,
                                 !.delegated = delegated, !.delegate = delegate]
  <2>1. /\ left \in 0 .. Amount /\ amount \in 0 .. Balance /\ delegated \in 0 .. Amount
        /\ delegate \in Delegates /\ status \in {"open", "filled", "cancelled"}
        /\ n \in 0 .. Amount /\ left < Tip.remaining
        /\ status = IF left = 0 THEN "filled" ELSE "open"
    BY <1>2, <1>4 DEF ChainAccept, Spent, Delegates
  <2>2. Goes(step) /\ Tip.status = "open"
    BY <1>4 DEF ChainAccept
  <2> HIDE DEF left, status, amount, delegated, delegate
  <2>3. step \in ChainSteps
    BY <1>1, <2>1 DEF ChainSteps, Kinds
  <2>4. step.kind = "accept" /\ step.remaining = left /\ step.status = status
    BY <1>1, <2>1 DEF ChainSteps
  <2> HIDE DEF step
  <2>5. Follows(step)
    BY <2>1, <2>2, <2>3, <2>4 DEF Follows, Decisions
  <2>6. QED
    BY <1>3, <2>2, <2>5
<1>5. ASSUME ChainCancel PROVE Follow
  <2> DEFINE delegate == IF Tip.delegate = "offer" THEN "other" ELSE Tip.delegate
             step == [Tip EXCEPT !.kind = "cancel", !.n = 0, !.status = "cancelled",
                                 !.delegate = delegate, !.delegated = 0]
  <2>1. delegate \in Delegates
    BY <1>2 DEF Delegates
  <2>2. Goes(step) /\ Tip.status = "open"
    BY <1>5 DEF ChainCancel
  <2> HIDE DEF delegate
  <2>3. step \in ChainSteps
    BY <1>0, <1>1, <2>1 DEF ChainSteps, Kinds
  <2>4. step.kind = "cancel" /\ step.remaining = Tip.remaining /\ step.status = "cancelled"
    BY <1>1, <2>1 DEF ChainSteps
  <2> HIDE DEF step
  <2>5. Follows(step)
    BY <2>2, <2>3, <2>4 DEF Follows, Decisions
  <2>6. QED
    BY <1>3, <2>2, <2>5
\* What moves or frees the shares behind the program's back.
<1>6. ASSUME NEW step \in ChainSteps, Goes(step),
             step.kind \in {"send", "receive", "revoke", "approve", "close"},
             step.status = Tip.status, step.remaining = Tip.remaining
      PROVE  Follow
  <2>1. Follows(step)
    BY <1>6 DEF Follows, Decisions
  <2>2. QED
    BY <1>3, <1>6, <2>1
<1>7. ASSUME NEW n \in 1 .. Amount, ChainSend(n) PROVE Follow
  <2> DEFINE amount == Tip.amount - n
             step == [Tip EXCEPT !.kind = "send", !.n = n, !.amount = amount]
  <2>1. amount \in 0 .. Balance /\ n \in 0 .. Amount
    BY <1>2, <1>7 DEF ChainSend
  <2>2. Goes(step)
    BY <1>7 DEF ChainSend
  <2> HIDE DEF amount
  <2>3. step \in ChainSteps
    BY <1>1, <2>1 DEF ChainSteps, Kinds
  <2>4. step.kind = "send" /\ step.status = Tip.status /\ step.remaining = Tip.remaining
    BY <1>1, <2>1 DEF ChainSteps
  <2> HIDE DEF step
  <2>5. QED
    BY <1>6, <2>2, <2>3, <2>4
<1>8. ASSUME NEW n \in 1 .. Amount, ChainReceive(n) PROVE Follow
  <2> DEFINE amount == Tip.amount + n
             delegate == IF Tip.delegate = "missing" THEN "other" ELSE Tip.delegate
             step == [Tip EXCEPT !.kind = "receive", !.n = n, !.amount = amount,
                                 !.delegate = delegate]
  <2>1. amount \in 0 .. Balance /\ n \in 0 .. Amount /\ delegate \in Delegates
    BY <1>2, <1>8 DEF ChainReceive, Delegates
  <2>2. Goes(step)
    BY <1>8 DEF ChainReceive
  <2> HIDE DEF amount, delegate
  <2>3. step \in ChainSteps
    BY <1>1, <2>1 DEF ChainSteps, Kinds
  <2>4. step.kind = "receive" /\ step.status = Tip.status
        /\ step.remaining = Tip.remaining
    BY <1>1, <2>1 DEF ChainSteps
  <2> HIDE DEF step
  <2>5. QED
    BY <1>6, <2>2, <2>3, <2>4
<1>9. ASSUME ChainRevoke PROVE Follow
  <2> DEFINE step == [Tip EXCEPT !.kind = "revoke", !.n = 0, !.delegate = "other",
                                 !.delegated = 0]
  <2>1. Goes(step)
    BY <1>9 DEF ChainRevoke
  <2>2. step \in ChainSteps
    BY <1>0, <1>1 DEF ChainSteps, Kinds
  <2>3. step.kind = "revoke" /\ step.status = Tip.status /\ step.remaining = Tip.remaining
    BY <1>1 DEF ChainSteps
  <2> HIDE DEF step
  <2>4. QED
    BY <1>6, <2>1, <2>2, <2>3
<1>10. ASSUME ChainClose PROVE Follow
  <2> DEFINE step == [Tip EXCEPT !.kind = "close", !.n = 0, !.delegate = "missing",
                                 !.delegated = 0]
  <2>1. Goes(step)
    BY <1>10 DEF ChainClose
  <2>2. step \in ChainSteps
    BY <1>0, <1>1 DEF ChainSteps, Kinds
  <2>3. step.kind = "close" /\ step.status = Tip.status /\ step.remaining = Tip.remaining
    BY <1>1 DEF ChainSteps
  <2> HIDE DEF step
  <2>4. QED
    BY <1>6, <2>1, <2>2, <2>3
<1>11. ASSUME NEW n \in 1 .. Amount, ChainApprove(n) PROVE Follow
  <2> DEFINE step == [Tip EXCEPT !.kind = "approve", !.n = n, !.delegate = "offer",
                                 !.delegated = n]
  <2>1. Goes(step)
    BY <1>11 DEF ChainApprove
  <2>2. n \in 0 .. Amount
    OBVIOUS
  <2>3. step \in ChainSteps
    BY <1>1, <2>2 DEF ChainSteps, Kinds, Delegates
  <2>4. step.kind = "approve" /\ step.status = Tip.status
        /\ step.remaining = Tip.remaining
    BY <1>1, <2>2 DEF ChainSteps
  <2> HIDE DEF step
  <2>5. QED
    BY <1>6, <2>1, <2>3, <2>4
<1>12. Follow
  BY <1>4, <1>5, <1>7, <1>8, <1>9, <1>10, <1>11 DEF ChainStep
<1>13. QED
  BY <1>12 DEF Follow

\* A step that follows keeps what is said of the chain, and all before it.
LEMMA ChainGrows ==
    ASSUME ChainInv, NEW step, Follows(step), Len(chain) < MaxSlot,
           chain' = Append(chain, step)
    PROVE  /\ ChainInv'
           /\ Slots \subseteq Slots' /\ \A s \in Slots : chain'[s] = chain[s]
<1> DEFINE last == Len(chain)
<1>1. /\ Slots = 1 .. last /\ last \in Slots /\ last \in Nat \ {0} /\ Tip = chain[last]
      /\ chain \in Seq(ChainSteps) /\ step \in ChainSteps
  BY TipTyped DEF ChainInv, ChainTyped, Tip, Follows
<1>2. /\ chain' \in Seq(ChainSteps) /\ Len(chain') = last + 1
      /\ \A s \in 1 .. last : chain'[s] = chain[s]
      /\ chain'[last + 1] = step
  BY <1>1
<1>3. Slots' = 1 .. last + 1 /\ Tip' = step
  BY <1>1, <1>2 DEF Slots, Tip
<1>4. ChainTyped'
  BY <1>1, <1>2 DEF ChainInv, ChainTyped
<1>5. \A s \in Slots' : s \in Slots \/ s = last + 1
  BY <1>1, <1>3
<1>6. StatusSays'
  <2> SUFFICES ASSUME NEW s \in Slots'
               PROVE  /\ chain'[s].status = "filled" <=> chain'[s].remaining = 0
                      /\ chain'[s].kind = "accept" =>
                            chain'[s].status =
                                IF chain'[s].remaining = 0 THEN "filled" ELSE "open"
                      /\ chain'[s].kind = "cancel" => chain'[s].status = "cancelled"
    BY DEF StatusSays
  <2>1. CASE s \in Slots
    BY <1>1, <1>2, <2>1 DEF ChainInv, StatusSays
  <2>2. CASE s = last + 1
    <3>1. Tip.status = "filled" <=> Tip.remaining = 0
      BY <1>1 DEF ChainInv, StatusSays
    <3>2. QED
      BY <1>2, <2>2, <3>1 DEF Follows, Decisions
  <2>3. QED
    BY <1>5, <2>1, <2>2
\* Tip is below all before it.
<1>7. ASSUME NEW s \in Slots
      PROVE  /\ Tip.remaining <= chain[s].remaining
             /\ chain[s].status # "open" =>
                   Tip.status = chain[s].status /\ Tip.remaining = chain[s].remaining
  <2>1. CASE s = last
    <3>1. Tip.remaining \in 0 .. Amount
      BY TipTyped DEF ChainInv, ChainSteps
    <3>2. QED
      BY <1>1, <2>1, <3>1
  <2>2. CASE s < last
    BY <1>1, <2>2 DEF ChainInv, ChainShrinks, Decided
  <2>3. QED
    BY <1>1, <2>1, <2>2
<1>8. ChainShrinks'
  <2> SUFFICES ASSUME NEW s \in Slots', NEW u \in Slots', s < u
               PROVE  /\ chain'[u].kind # "create"
                      /\ chain'[u].remaining <= chain'[s].remaining
                      /\ chain'[u].kind = "accept" =>
                            chain'[u].remaining < chain'[s].remaining
                      /\ chain'[s].status # "open" => Decided(chain'[s], chain'[u])
    BY DEF ChainShrinks
  <2>1. s \in Slots
    BY <1>1, <1>3
  <2>2. CASE u \in Slots
    BY <1>1, <1>2, <2>1, <2>2 DEF ChainInv, ChainShrinks
  <2>3. CASE u = last + 1
    <3>1. /\ step.remaining <= Tip.remaining
          /\ step.kind = "accept" => step.remaining < Tip.remaining
      <4>1. step.remaining \in 0 .. Amount /\ Tip.remaining \in 0 .. Amount
            /\ step.kind \in Kinds
        BY <1>1, TipTyped DEF ChainInv, ChainSteps
      <4>2. QED
        BY <4>1 DEF Follows, Decisions
    <3>2. step.remaining \in Int /\ Tip.remaining \in Int /\ chain[s].remaining \in Int
      <4>1. \A other \in ChainSteps : other.remaining \in Int
        BY DEF ChainSteps
      <4>2. QED
        BY <1>1, <2>1, <4>1, TipTyped DEF ChainInv
    <3>3. Tip.remaining <= chain[s].remaining
      BY <1>7, <2>1
    <3>4. chain[s].status # "open" => Decided(chain[s], step)
      BY <1>7, <2>1 DEF Follows, Decided
    <3>5. chain'[u] = step /\ chain'[s] = chain[s] /\ step.kind # "create"
      BY <1>1, <1>2, <2>1, <2>3 DEF Follows
    <3>6. QED
      BY <3>1, <3>2, <3>3, <3>4, <3>5
  <2>4. QED
    BY <1>5, <2>2, <2>3
<1>9. TipDecided'
  <2>1. CASE step.kind \in Decisions
    <3>1. last + 1 \in Slots' /\ chain'[last + 1] = Tip'
      BY <1>1, <1>2, <1>3
    <3>2. QED
      BY <1>3, <2>1, <3>1 DEF TipDecided
  <2>2. CASE step.kind \notin Decisions
    <3>1. PICK s \in Slots : /\ chain[s].kind \in Decisions
                             /\ chain[s].status = Tip.status
                             /\ chain[s].remaining = Tip.remaining
      BY DEF ChainInv, TipDecided
    <3>2. s \in Slots' /\ chain'[s] = chain[s]
      BY <1>1, <1>2, <1>3
    <3>3. Tip'.status = Tip.status /\ Tip'.remaining = Tip.remaining
      BY <1>3, <2>2 DEF Follows
    <3>4. QED
      BY <3>1, <3>2, <3>3 DEF TipDecided
  <2>3. QED
    BY <2>1, <2>2
<1>10. QED
  BY <1>1, <1>2, <1>3, <1>4, <1>6, <1>8, <1>9 DEF ChainInv

-----------------------------------------------------------------------------
(* Readings. *)

\* What the table allows to say of what is available.
Sound(status, remaining, reading) ==
    /\ reading.available \in {Unknown} \cup 0 .. Amount /\ reading.stale \in StaleReasons
    /\ status # "open" => reading.available = Unknown /\ reading.stale = "none"
    /\ reading.available # Unknown =>
          /\ reading.available <= remaining
          /\ reading.stale = "none" <=> reading.available = remaining

\* The columns of a row have their types.
LEMMA RowTyped ==
    ASSUME row \in OfferRow
    PROVE  /\ row.status \in {"none", "open", "filled", "cancelled"}
           /\ row.remaining \in 0 .. Amount /\ row.available \in {Unknown} \cup 0 .. Amount
           /\ row.stale \in StaleReasons /\ row.checked \in {"never", "fresh", "expired"}
           /\ row.checkedSlot \in 0 .. MaxSlot /\ row.touchedSlot \in 0 .. MaxSlot
  BY DEF OfferRow

\* A row after a fill passes the table's checks.
LEMMA AfterSound ==
    ASSUME row \in OfferRow, row.status = "open", NEW remaining \in 0 .. Amount,
           NEW n \in 0 .. Amount
    PROVE  Sound(IF remaining = 0 THEN "filled" ELSE "open", remaining,
                 AvailableAfter(remaining, n))
<1> DEFINE left == IF row.available > n THEN row.available - n ELSE 0
           available == Min2(left, remaining)
           stale == IF row.stale = "none" THEN "balance_short" ELSE row.stale
<1>1. /\ row.available \in {Unknown} \cup 0 .. Amount /\ row.stale \in StaleReasons
      /\ Unknown \notin 0 .. Amount
  BY RowTyped DEF Unknown
<1>2. available \in 0 .. Amount /\ available <= remaining
  BY <1>1 DEF Min2, Unknown
<1>3. stale \in StaleReasons /\ stale # "none" /\ "none" \in StaleReasons
  BY <1>1 DEF StaleReasons
<1> HIDE DEF available, stale
<1>4. CASE remaining = 0 \/ row.available = Unknown
  <2>1. AvailableAfter(remaining, n) = [available |-> Unknown, stale |-> "none"]
    BY <1>4 DEF AvailableAfter
  <2>2. QED
    BY <1>3, <2>1 DEF Sound
<1>5. CASE remaining # 0 /\ row.available # Unknown /\ available = remaining
  <2>1. AvailableAfter(remaining, n) = [available |-> available, stale |-> "none"]
    BY <1>5 DEF AvailableAfter, available
  <2>2. QED
    BY <1>2, <1>3, <1>5, <2>1 DEF Sound
<1>6. CASE remaining # 0 /\ row.available # Unknown /\ available # remaining
  <2>1. AvailableAfter(remaining, n) = [available |-> available, stale |-> stale]
    BY <1>6 DEF AvailableAfter, available, stale
  <2>2. QED
    BY <1>2, <1>3, <1>6, <2>1 DEF Sound
<1>7. QED
  BY <1>4, <1>5, <1>6

\* So does a row assessed by the sweep.
LEMMA AssessSound ==
    ASSUME NEW remaining \in 1 .. Amount, NEW account \in ChainSteps
    PROVE  Sound("open", remaining, Assess(remaining, account))
<1> DEFINE available == Min2(remaining, Min2(account.delegated, account.amount))
           short == IF account.delegated < remaining
                    THEN "delegation_short" ELSE "balance_short"
<1>1. /\ account.delegated \in 0 .. Amount /\ account.amount \in 0 .. Balance
      /\ account.delegate \in Delegates
  BY DEF ChainSteps
<1>2. available \in 0 .. Amount /\ available <= remaining
  BY <1>1 DEF Min2
<1>3. /\ short \in StaleReasons /\ short # "none" /\ 0 \in 0 .. Amount
      /\ {"none", "account_missing", "not_delegated"} \subseteq StaleReasons
      /\ remaining # 0 /\ 0 <= remaining
  BY DEF StaleReasons
<1> HIDE DEF available, short
<1>4. CASE account.delegate = "missing"
  <2>1. Assess(remaining, account) = [available |-> 0, stale |-> "account_missing"]
    BY <1>4 DEF Assess
  <2>2. QED
    BY <1>3, <2>1 DEF Sound
<1>5. CASE account.delegate = "other"
  <2>1. Assess(remaining, account) = [available |-> 0, stale |-> "not_delegated"]
    BY <1>5 DEF Assess
  <2>2. QED
    BY <1>3, <2>1 DEF Sound
<1>6. CASE account.delegate = "offer" /\ available = remaining
  <2>1. Assess(remaining, account) = [available |-> available, stale |-> "none"]
    BY <1>6 DEF Assess, available
  <2>2. QED
    BY <1>2, <1>3, <1>6, <2>1 DEF Sound
<1>7. CASE account.delegate = "offer" /\ available # remaining
  <2>1. Assess(remaining, account) = [available |-> available, stale |-> short]
    BY <1>7 DEF Assess, available, short
  <2>2. QED
    BY <1>2, <1>3, <1>7, <2>1 DEF Sound
<1>8. QED
  BY <1>1, <1>4, <1>5, <1>6, <1>7 DEF Delegates

-----------------------------------------------------------------------------
(* A record that leaves the row as it is. *)

\* What has to hold of it.
KnownTo(s) ==
    /\ row = NoOffer => s \in early'
    /\ row # NoOffer /\ chain[s].kind \in Decisions =>
          /\ row.remaining <= chain[s].remaining
          /\ chain[s].status # "open" => row.status = chain[s].status
    /\ row.status = "open" /\ chain[s].kind \in Moving /\ s \notin early' =>
          /\ s <= row.touchedSlot
          /\ row.checked # "never" => s <= row.checkedSlot

\* A record that changes no row keeps the invariant.
LEMMA RowStays ==
    ASSUME OfferInv, NEW s \in Slots, KnownTo(s), row' = row, journal' = journal \cup {s},
           early' = IF row = NoOffer /\ Plain(s) THEN early \cup {s} ELSE early,
           UNCHANGED <<chain, node, sweep>>
    PROVE  OfferInv'
<1>1. Slots' = Slots /\ early \subseteq early' /\ early' \subseteq Slots
  BY DEF OfferInv, RecordsTyped, Slots
<1>2. ChainInv'
  BY <1>1 DEF OfferInv, ChainInv, ChainTyped, ChainShrinks, StatusSays, TipDecided, Tip
<1>3. RecordsTyped'
  BY <1>1 DEF OfferInv, RecordsTyped, Plain
<1>4. RowDecided'
  <2>1. CASE row # NoOffer
    <3>1. PICK u \in journal : /\ chain[u].kind \in Decisions
                               /\ row.status = chain[u].status
                               /\ row.remaining = chain[u].remaining
                               /\ row.status = "open" => u <= row.touchedSlot
      BY <2>1 DEF OfferInv, RowDecided
    <3>2. \A v \in journal' : chain[v].kind \in Decisions =>
              /\ row.remaining <= chain[v].remaining
              /\ chain[v].status # "open" => row.status = chain[v].status
      BY <2>1 DEF OfferInv, RowDecided, KnownTo
    <3>3. QED
      BY <3>1, <3>2 DEF RowDecided
  <2>2. QED
    BY <2>1 DEF RowDecided
<1>5. RowTouched'
  BY <1>1 DEF OfferInv, RowTouched, KnownTo
<1>6. ConstraintsHold' /\ ReadingStands'
  BY <1>1 DEF OfferInv, ConstraintsHold, ReadingStands, KnownTo, Moving
<1>7. QED
  BY <1>2, <1>3, <1>4, <1>5, <1>6 DEF OfferInv

\* A record that was there already.
LEMMA KnownAgain ==
    ASSUME OfferInv, NEW s \in journal, early \subseteq early'
    PROVE  KnownTo(s)
  BY DEF OfferInv, RowDecided, RowTouched, ReadingStands, KnownTo, Moving

\* A decision on an offer whose row is closed.
LEMMA KnownWhenClosed ==
    ASSUME OfferInv, NEW s \in Slots, row # NoOffer, row.status # "open",
           chain[s].kind \in Decisions
    PROVE  KnownTo(s)
<1>1. PICK u \in journal : /\ chain[u].kind \in Decisions
                           /\ row.status = chain[u].status
                           /\ row.remaining = chain[u].remaining
  BY DEF OfferInv, RowDecided
<1>2. u \in Slots /\ u \in Nat /\ s \in Nat /\ chain[s].remaining \in Int
  <2>1. Slots = 1 .. Len(chain) /\ u \in Slots /\ chain[s] \in ChainSteps
    BY TipTyped DEF OfferInv, RecordsTyped, ChainInv
  <2>2. QED
    BY <2>1 DEF ChainSteps
<1>3. ~ (u < s)
  BY <1>1, <1>2 DEF OfferInv, ChainInv, ChainShrinks, Decided
<1>4. row.remaining <= chain[s].remaining
      /\ (chain[s].status # "open" => row.status = chain[s].status)
  <2>1. CASE u = s
    BY <1>1, <1>2, <2>1
  <2>2. CASE s < u
    BY <1>1, <1>2, <2>2 DEF OfferInv, ChainInv, ChainShrinks, Decided
  <2>3. QED
    BY <1>2, <1>3, <2>1, <2>2
<1>5. QED
  BY <1>4 DEF KnownTo

\* A trade that comes after a later one.
LEMMA KnownWhenLater ==
    ASSUME OfferInv, NEW s \in Slots, row.status = "open", chain[s].kind = "accept",
           row.remaining <= chain[s].remaining
    PROVE  KnownTo(s)
<1>1. row # NoOffer /\ row.remaining # 0 /\ row.remaining \in 0 .. Amount
      /\ row.touchedSlot \in Int /\ row.checkedSlot \in Int
  BY RowTyped DEF OfferInv, RecordsTyped, ConstraintsHold, NoOffer
<1>2. PICK u \in journal : /\ chain[u].kind \in Decisions
                           /\ row.status = chain[u].status
                           /\ row.remaining = chain[u].remaining
                           /\ row.status = "open" => u <= row.touchedSlot
  BY <1>1 DEF OfferInv, RowDecided
<1>3. u \in Slots /\ u \in Nat /\ s \in Nat /\ chain[s].remaining \in 0 .. Amount
  <2>1. Slots = 1 .. Len(chain) /\ u \in Slots /\ chain[s] \in ChainSteps
    BY TipTyped DEF OfferInv, RecordsTyped, ChainInv
  <2>2. QED
    BY <2>1 DEF ChainSteps
<1>4. s <= u
  <2>1. ~ (u < s)
    BY <1>1, <1>2, <1>3 DEF OfferInv, ChainInv, ChainShrinks
  <2>2. QED
    BY <1>3, <2>1
<1>5. s <= row.touchedSlot
  BY <1>1, <1>2, <1>3, <1>4
<1>6. chain[s].status = "open"
  <2>1. chain[s].remaining # 0
    BY <1>1, <1>3
  <2>2. QED
    BY <2>1 DEF OfferInv, ChainInv, StatusSays
<1>7. row.checked # "never" => s <= row.checkedSlot
  <2>1. u # 1 \/ s = 1
    BY <1>3, <1>4 DEF OfferInv, ChainInv, ChainTyped, Slots
  <2>2. chain[1].kind = "create"
    BY DEF OfferInv, ChainInv, ChainTyped, Created
  <2>3. u # 1 /\ 1 \in Slots
    BY <1>3, <2>1, <2>2, TipTyped DEF OfferInv, ChainInv
  <2>4. chain[u].kind # "create"
    BY <1>3, <2>3, TipTyped DEF OfferInv, ChainInv, ChainShrinks
  <2>5. chain[u].kind = "accept"
    BY <1>2, <1>3, <2>4 DEF Decisions, OfferInv, ChainInv, StatusSays
  <2>6. u \notin early
    BY <2>5 DEF OfferInv, RecordsTyped, Plain
  <2>7. row.checked # "never" => u <= row.checkedSlot
    BY <2>5, <2>6 DEF OfferInv, ReadingStands
  <2>8. QED
    BY <1>1, <1>3, <1>4, <2>7
<1>8. QED
  BY <1>1, <1>5, <1>6, <1>7 DEF KnownTo

-----------------------------------------------------------------------------
(* A record that changes the row. *)

\* What no record changes.
LEMMA SameChain ==
    ASSUME OfferInv, UNCHANGED <<chain, node, sweep>>, NEW s \in Slots,
           journal' = journal \cup {s},
           early' = IF row = NoOffer /\ Plain(s) THEN early \cup {s} ELSE early,
           row' \in OfferRow, row'.status # "none",
           row'.checked # "never" => row'.checkedSlot \in Slots
    PROVE  ChainInv' /\ RecordsTyped' /\ Slots' = Slots /\ row' # NoOffer
           /\ early \subseteq early'
<1>1. Slots' = Slots /\ early \subseteq early' /\ early' \subseteq Slots
  BY DEF OfferInv, RecordsTyped, Slots
<1>2. ChainInv'
  BY <1>1 DEF OfferInv, ChainInv, ChainTyped, ChainShrinks, StatusSays, TipDecided, Tip
<1>3. row' # NoOffer
  BY DEF NoOffer
<1>4. RecordsTyped'
  BY <1>1, <1>3 DEF OfferInv, RecordsTyped, Plain
<1>5. QED
  BY <1>1, <1>2, <1>3, <1>4

\* So does the creation of an offer.
LEMMA OfferCreated ==
    ASSUME OfferInv, row = NoOffer, UNCHANGED <<chain, node, sweep>>,
           NEW s \in Slots, chain[s].kind = "create", CreateOffer(s),
           journal' = journal \cup {s},
           early' = IF row = NoOffer /\ Plain(s) THEN early \cup {s} ELSE early
    PROVE  OfferInv'
<1> DEFINE new == [status |-> "open", remaining |-> Amount, available |-> Amount,
                   stale |-> "none", checked |-> "never",
                   checkedSlot |-> s, touchedSlot |-> s]
<1>1. s = 1 /\ 1 \in Slots /\ chain[1] = Created /\ Slots = 1 .. Len(chain)
      /\ Len(chain) \in 1 .. MaxSlot
  <2>1. 1 \in Slots /\ s \in Nat /\ ~ (1 < s) /\ Slots = 1 .. Len(chain)
    BY TipTyped DEF OfferInv, ChainInv, ChainShrinks, ChainTyped
  <2>2. s = 1
    BY <2>1
  <2>3. QED
    BY <2>1, <2>2 DEF OfferInv, ChainInv, ChainTyped
<1>2. row' = new
  BY DEF CreateOffer
<1>3. new \in OfferRow
  BY <1>1 DEF OfferRow, StaleReasons
<1>4. /\ new.status = "open" /\ new.remaining = Amount /\ new.available = Amount
      /\ new.stale = "none" /\ new.checked = "never" /\ new.touchedSlot = 1
  BY <1>1
<1> HIDE DEF new
<1>5. ChainInv' /\ RecordsTyped' /\ Slots' = Slots /\ row' # NoOffer /\ early \subseteq early'
  BY <1>2, <1>3, <1>4, SameChain
<1>6. /\ \A u \in journal : u \in early /\ Plain(u) /\ chain[u].kind \notin Decisions
      /\ chain[1].remaining = Amount /\ chain[1].status = "open"
      /\ chain[1].kind \in Decisions /\ chain[1].kind \notin Moving
  BY <1>1 DEF OfferInv, RowTouched, RecordsTyped, Plain, Decisions, Moving, Created
<1>7. RowDecided'
  <2>1. row'.remaining <= chain[1].remaining /\ 1 \in journal'
    BY <1>1, <1>2, <1>4, <1>6
  <2>2. \A u \in journal' : chain[u].kind \in Decisions => u = 1
    BY <1>1, <1>6
  <2>3. QED
    BY <1>1, <1>2, <1>4, <1>6, <2>1, <2>2 DEF RowDecided
<1>8. RowTouched'
  BY <1>1, <1>5, <1>6 DEF RowTouched
<1>9. ConstraintsHold'
  <2>1. Amount # 0 /\ Amount \in 0 .. Amount /\ Unknown \notin 0 .. Amount
    BY DEF Unknown
  <2>2. row' \in OfferRow
    BY <1>2, <1>3
  <2>3. QED
    BY <1>2, <1>4, <2>1, <2>2 DEF ConstraintsHold
<1>10. ReadingStands'
  BY <1>2, <1>4 DEF ReadingStands
<1>11. QED
  BY <1>5, <1>7, <1>8, <1>9, <1>10 DEF OfferInv

\* A trade or the cancellation that an open row takes.
LEMMA OfferChanged ==
    ASSUME OfferInv, UNCHANGED <<chain, node, sweep>>, row.status = "open",
           NEW s \in Slots, chain[s].kind \in {"accept", "cancel"},
           chain[s].remaining <= row.remaining,
           NEW status, status = chain[s].status,
           NEW remaining, remaining = chain[s].remaining,
           NEW reading, Sound(status, remaining, reading),
           row' = [row EXCEPT !.status = status, !.remaining = remaining,
                     !.available = reading.available, !.stale = reading.stale,
                     !.checked = "never", !.touchedSlot = SlotAtLeast(s)],
           journal' = journal \cup {s},
           early' = IF row = NoOffer /\ Plain(s) THEN early \cup {s} ELSE early
    PROVE  OfferInv'
<1> DEFINE touched == SlotAtLeast(s)
           available == reading.available
           stale == reading.stale
           new == [row EXCEPT !.status = status, !.remaining = remaining,
                              !.available = available, !.stale = stale,
                              !.checked = "never", !.touchedSlot = touched]
<1>1. /\ row \in OfferRow /\ row # NoOffer /\ row.remaining \in 0 .. Amount
      /\ row.touchedSlot \in 0 .. MaxSlot
  BY RowTyped DEF OfferInv, RecordsTyped, NoOffer
<1>2. /\ Slots = 1 .. Len(chain) /\ Len(chain) \in 1 .. MaxSlot /\ s \in 1 .. MaxSlot
      /\ chain[s] \in ChainSteps
  BY TipTyped DEF OfferInv, ChainInv, ChainTyped
<1>3. /\ remaining \in 0 .. Amount /\ status \in {"open", "filled", "cancelled"}
      /\ (status = "filled" <=> remaining = 0)
  BY <1>2 DEF ChainSteps, OfferInv, ChainInv, StatusSays
<1>4. touched \in 0 .. MaxSlot /\ s <= touched /\ row.touchedSlot <= touched
  BY <1>1, <1>2 DEF SlotAtLeast
<1>5. available \in {Unknown} \cup 0 .. Amount /\ stale \in StaleReasons
  BY DEF Sound
<1>6. row' = new
  OBVIOUS
<1> HIDE DEF touched, available, stale
<1>7. new \in OfferRow
  BY <1>1, <1>3, <1>4, <1>5 DEF OfferRow
<1>8. /\ new.status = status /\ new.remaining = remaining /\ new.available = available
      /\ new.stale = stale /\ new.checked = "never" /\ new.touchedSlot = touched
  BY <1>1 DEF OfferRow
<1> HIDE DEF new
<1>9. ChainInv' /\ RecordsTyped' /\ Slots' = Slots /\ row' # NoOffer /\ early' = early
  <2>1. early' = early
    BY <1>1
  <2>2. QED
    BY <1>3, <1>6, <1>7, <1>8, <2>1, SameChain
<1>10. RowDecided'
  <2>1. s \in journal' /\ chain'[s] = chain[s] /\ chain[s].kind \in Decisions
    BY DEF Decisions
  <2>2. ASSUME NEW u \in journal', chain[u].kind \in Decisions
        PROVE  /\ remaining <= chain[u].remaining
               /\ chain[u].status # "open" => status = chain[u].status
    <3>1. CASE u = s
      BY <1>3, <3>1
    <3>2. CASE u \in journal
      <4>1. chain[u].remaining \in Int
        BY <1>2, <3>2, TipTyped DEF OfferInv, RecordsTyped, ChainInv, ChainSteps
      <4>2. row.remaining <= chain[u].remaining
            /\ (chain[u].status # "open" => row.status = chain[u].status)
        BY <1>1, <2>2, <3>2 DEF OfferInv, RowDecided
      <4>3. QED
        BY <1>1, <1>3, <4>1, <4>2
    <3>3. QED
      BY <3>1, <3>2
  <2>3. /\ row'.status = chain'[s].status /\ row'.remaining = chain'[s].remaining
        /\ s <= row'.touchedSlot
    BY <1>4, <1>6, <1>8, <2>1
  <2>4. \A u \in journal' : chain'[u].kind \in Decisions =>
            /\ row'.remaining <= chain'[u].remaining
            /\ chain'[u].status # "open" => row'.status = chain'[u].status
    BY <1>6, <1>8, <2>2
  <2>5. QED
    BY <2>1, <2>3, <2>4 DEF RowDecided
<1>11. RowTouched'
  <2>1. ASSUME NEW u \in journal' \ early, chain[u].kind \in Moving
        PROVE  u <= touched
    <3>1. CASE u = s
      BY <1>4, <3>1
    <3>2. CASE u \in journal
      <4>1. u <= row.touchedSlot /\ u \in Nat
        BY <1>2, <2>1, <3>2 DEF OfferInv, RowTouched, RecordsTyped
      <4>2. QED
        BY <1>1, <1>4, <4>1
    <3>3. QED
      BY <3>1, <3>2
  <2>2. QED
    BY <1>6, <1>8, <1>9, <2>1 DEF RowTouched
<1>12. ConstraintsHold'
  <2>1. row' \in OfferRow
    BY <1>6, <1>7
  <2>2. QED
    BY <1>3, <1>6, <1>8, <2>1 DEF ConstraintsHold, Sound, available, stale
<1>13. ReadingStands'
  BY <1>6, <1>8 DEF ReadingStands
<1>14. QED
  BY <1>9, <1>10, <1>11, <1>12, <1>13 DEF OfferInv

\* A plain transfer of the seller's, while the offer is open.
LEMMA OfferTouched ==
    ASSUME OfferInv, UNCHANGED <<chain, node, sweep>>, row.status = "open",
           NEW s \in Slots, Plain(s), TouchOffer(s), journal' = journal \cup {s},
           early' = IF row = NoOffer /\ Plain(s) THEN early \cup {s} ELSE early
    PROVE  OfferInv'
<1> DEFINE touched == SlotAtLeast(s)
           checked == IF row.checkedSlot >= s THEN row.checked ELSE "never"
           new == [row EXCEPT !.touchedSlot = touched, !.checked = checked]
<1>1. /\ row \in OfferRow /\ row # NoOffer /\ row.touchedSlot \in 0 .. MaxSlot
      /\ row.checkedSlot \in 0 .. MaxSlot
      /\ row.checked \in {"never", "fresh", "expired"}
  BY RowTyped DEF OfferInv, RecordsTyped, NoOffer
<1>2. Slots = 1 .. Len(chain) /\ Len(chain) \in 1 .. MaxSlot /\ s \in 1 .. MaxSlot
  BY TipTyped DEF OfferInv, ChainInv, ChainTyped
<1>3. /\ touched \in 0 .. MaxSlot /\ s <= touched /\ row.touchedSlot <= touched
      /\ checked \in {"never", "fresh", "expired"}
      /\ checked # "never" => checked = row.checked /\ s <= row.checkedSlot
  BY <1>1, <1>2 DEF SlotAtLeast
<1>4. row' = new
  BY DEF TouchOffer
<1> HIDE DEF touched, checked
<1>5. new \in OfferRow
  BY <1>1, <1>3 DEF OfferRow
<1>6. /\ new.status = "open" /\ new.remaining = row.remaining
      /\ new.available = row.available /\ new.stale = row.stale
      /\ new.checked = checked /\ new.checkedSlot = row.checkedSlot
      /\ new.touchedSlot = touched
  BY <1>1 DEF OfferRow
<1> HIDE DEF new
<1>7. chain[s].kind \notin Decisions
  BY DEF Plain, Decisions
<1>8. ChainInv' /\ RecordsTyped' /\ Slots' = Slots /\ row' # NoOffer /\ early' = early
  <2>1. early' = early
    BY <1>1
  <2>2. checked # "never" => row.checkedSlot \in Slots
    BY <1>3 DEF OfferInv, RecordsTyped
  <2>3. QED
    BY <1>4, <1>5, <1>6, <2>1, <2>2, SameChain
<1>9. RowDecided'
  <2>1. PICK u \in journal : /\ chain[u].kind \in Decisions
                             /\ row.status = chain[u].status
                             /\ row.remaining = chain[u].remaining
                             /\ row.status = "open" => u <= row.touchedSlot
    BY <1>1 DEF OfferInv, RowDecided
  <2>2. u <= touched /\ u \in journal'
    <3>1. u \in Nat
      BY <1>2 DEF OfferInv, RecordsTyped
    <3>2. QED
      BY <1>1, <1>3, <2>1, <3>1
  <2>3. \A v \in journal' : chain[v].kind \in Decisions =>
            /\ row.remaining <= chain[v].remaining
            /\ chain[v].status # "open" => row.status = chain[v].status
    BY <1>1, <1>7 DEF OfferInv, RowDecided
  <2>4. QED
    BY <1>4, <1>6, <2>1, <2>2, <2>3 DEF RowDecided
<1>10. RowTouched'
  <2>1. ASSUME NEW u \in journal' \ early, chain[u].kind \in Moving
        PROVE  u <= touched
    <3>1. CASE u = s
      BY <1>3, <3>1
    <3>2. CASE u \in journal
      <4>1. u <= row.touchedSlot /\ u \in Nat
        BY <1>2, <2>1, <3>2 DEF OfferInv, RowTouched, RecordsTyped
      <4>2. QED
        BY <1>1, <1>3, <4>1
    <3>3. QED
      BY <3>1, <3>2
  <2>2. QED
    BY <1>4, <1>6, <1>8, <2>1 DEF RowTouched
<1>11. ConstraintsHold'
  <2>1. row' \in OfferRow
    BY <1>4, <1>5
  <2>2. QED
    BY <1>1, <1>4, <1>6, <2>1 DEF OfferInv, ConstraintsHold
<1>12. ReadingStands'
  BY <1>3, <1>4, <1>6, <1>8 DEF OfferInv, ReadingStands
<1>13. QED
  BY <1>8, <1>9, <1>10, <1>11, <1>12 DEF OfferInv

-----------------------------------------------------------------------------
(* The steps. *)

\* What no step may do to a row that is there.
Shrinks ==
    row # NoOffer =>
        /\ row'.remaining <= row.remaining
        /\ row.status # "open" => row'.status = row.status

\* A row that stays has not grown.
LEMMA RowKept == OfferInv /\ row' = row => Shrinks
  BY RowTyped DEF OfferInv, RecordsTyped, Shrinks

\* The invariant holds at first.
LEMMA OfferStarts == Init => OfferInv
<1> SUFFICES ASSUME Init PROVE OfferInv
  OBVIOUS
<1>1. /\ chain = <<Created>> /\ node = 1 /\ row = NoOffer /\ journal = {} /\ early = {}
      /\ sweep = NoSweep
  BY DEF Init
<1>2. Created \in ChainSteps /\ Created.remaining = Amount /\ Created.status = "open"
      /\ Created.kind = "create"
  BY DEF Created, ChainSteps, Kinds, Delegates
<1>3. chain \in Seq(ChainSteps) /\ Len(chain) = 1 /\ Slots = {1} /\ chain[1] = Created
      /\ Tip = Created
  BY <1>1, <1>2 DEF Slots, Tip
<1>4. ChainInv
  BY <1>2, <1>3 DEF ChainInv, ChainTyped, ChainShrinks, StatusSays, TipDecided, Decisions
<1>5. NoOffer \in OfferRow /\ NoOffer.status = "none" /\ NoOffer.checked = "never"
  BY DEF NoOffer, OfferRow, Unknown, StaleReasons
<1>6. NoSweep \in [state : {"idle", "due", "read"}, remaining : 0 .. Amount,
                   slot : 0 .. MaxSlot]
      /\ NoSweep.state = "idle"
  BY DEF NoSweep
<1>7. RecordsTyped
  BY <1>1, <1>3, <1>5, <1>6 DEF RecordsTyped
<1>8. RowDecided /\ RowTouched /\ ConstraintsHold /\ ReadingStands
  BY <1>1, <1>5 DEF RowDecided, RowTouched, ConstraintsHold, ReadingStands
<1>9. QED
  BY <1>4, <1>7, <1>8 DEF OfferInv

\* The chain's own steps keep it.
LEMMA ChainStepKeeps == OfferInv /\ ChainStep => OfferInv' /\ Shrinks
<1> SUFFICES ASSUME OfferInv, ChainStep PROVE OfferInv' /\ Shrinks
  OBVIOUS
<1>1. /\ Len(chain) < MaxSlot
      /\ \E step : Follows(step) /\ chain' = Append(chain, step)
      /\ UNCHANGED <<node, row, journal, early, sweep>>
  BY StepFollows DEF OfferInv, ChainInv
<1>2. PICK step : Follows(step) /\ chain' = Append(chain, step)
  BY <1>1
<1>3. ChainInv' /\ Slots \subseteq Slots' /\ \A s \in Slots : chain'[s] = chain[s]
  BY <1>1, <1>2, ChainGrows DEF OfferInv
<1>4. Len(chain') = Len(chain) + 1 /\ Len(chain) \in Nat
  BY <1>2, TipTyped DEF OfferInv, ChainInv, ChainTyped, Follows
<1>5. journal \subseteq Slots /\ early \subseteq Slots
  BY DEF OfferInv, RecordsTyped
<1>6. RecordsTyped'
  <2>1. node' \in 1 .. Len(chain')
    BY <1>1, <1>4 DEF OfferInv, RecordsTyped
  <2>2. /\ journal' \subseteq Slots' /\ early' \subseteq Slots'
        /\ \A s \in early' : Plain(s)'
    BY <1>1, <1>3, <1>5 DEF OfferInv, RecordsTyped, Plain
  <2>3. QED
    BY <1>1, <1>3, <2>1, <2>2 DEF OfferInv, RecordsTyped
<1>7. RowDecided'
  BY <1>1, <1>3, <1>5 DEF OfferInv, RowDecided
<1>8. RowTouched'
  BY <1>1, <1>3, <1>5 DEF OfferInv, RowTouched
<1>9. ConstraintsHold' /\ ReadingStands'
  <2>1. row.checked # "never" => row.checkedSlot \in Slots
    BY DEF OfferInv, RecordsTyped
  <2>2. QED
    BY <1>1, <1>3, <1>5, <2>1 DEF OfferInv, ConstraintsHold, ReadingStands
<1>10. QED
  BY <1>1, <1>3, <1>6, <1>7, <1>8, <1>9, RowKept DEF OfferInv

\* The steps that touch neither the row nor the journal.
LEMMA ElsewhereKeeps ==
    OfferInv /\ (NodeCatchesUp \/ SweepDue \/ SweepRead \/ SweepFails \/ UNCHANGED vars)
        => OfferInv' /\ Shrinks
<1> DEFINE Sweeps == [state : {"idle", "due", "read"}, remaining : 0 .. Amount,
                      slot : 0 .. MaxSlot]
<1> SUFFICES ASSUME OfferInv,
                    NodeCatchesUp \/ SweepDue \/ SweepRead \/ SweepFails \/ UNCHANGED vars
             PROVE  OfferInv' /\ Shrinks
  OBVIOUS
<1>1. UNCHANGED <<chain, row, journal, early>>
  BY DEF NodeCatchesUp, SweepDue, SweepRead, SweepFails, vars
<1>2. /\ row.remaining \in 0 .. Amount /\ sweep \in Sweeps
      /\ Slots = 1 .. Len(chain) /\ Len(chain) \in 1 .. MaxSlot /\ node \in Slots
      /\ node \in 0 .. MaxSlot
      /\ sweep.state = "read" => sweep.slot \in Slots
  BY RowTyped, TipTyped DEF OfferInv, RecordsTyped, ChainInv, ChainTyped
<1>3. node' \in 1 .. Len(chain) /\ sweep' \in Sweeps
      /\ (sweep'.state = "read" => sweep'.slot \in Slots)
  <2>1. CASE NodeCatchesUp
    BY <1>2, <2>1 DEF NodeCatchesUp
  <2>2. CASE SweepDue
    BY <1>2, <2>2 DEF SweepDue
  <2>3. CASE SweepRead
    <3>1. sweep' = [sweep EXCEPT !.state = "read", !.slot = node] /\ node' = node
      BY <2>3 DEF SweepRead
    <3>2. sweep' \in Sweeps /\ sweep'.slot = node
      BY <1>2, <3>1
    <3>3. QED
      BY <1>2, <3>1, <3>2
  <2>4. CASE SweepFails
    BY <1>2, <2>4 DEF SweepFails, NoSweep
  <2>5. CASE UNCHANGED vars
    BY <1>2, <2>5 DEF vars
  <2>6. QED
    BY <2>1, <2>2, <2>3, <2>4, <2>5
<1>4. Slots' = Slots
  BY <1>1 DEF Slots
<1>5. ChainInv' /\ RowDecided' /\ RowTouched' /\ ConstraintsHold' /\ ReadingStands'
  BY <1>1, <1>4 DEF OfferInv, ChainInv, ChainTyped, ChainShrinks, StatusSays, TipDecided,
                    Tip, RowDecided, RowTouched, ConstraintsHold, ReadingStands
<1>6. RecordsTyped'
  BY <1>1, <1>3, <1>4 DEF OfferInv, RecordsTyped, Plain
<1>7. QED
  BY <1>1, <1>5, <1>6, RowKept DEF OfferInv

\* A reading changes what the row says is available, and when it was checked.
LEMMA Rechecked ==
    ASSUME OfferInv, UNCHANGED <<chain, node, journal, early>>,
           sweep' \in {sweep, NoSweep}, row # NoOffer, row' \in OfferRow,
           row'.status = row.status, row'.remaining = row.remaining,
           row'.touchedSlot = row.touchedSlot, row'.checkedSlot \in Slots,
           Sound(row.status, row.remaining,
                 [available |-> row'.available, stale |-> row'.stale]),
           row.status = "open" =>
              /\ LET said == Assess(row.remaining, chain[row'.checkedSlot])
                 IN  row'.available = said.available /\ row'.stale = said.stale
              /\ \A s \in journal \ early :
                    chain[s].kind \in Moving => s <= row'.checkedSlot
    PROVE  OfferInv' /\ Shrinks
<1>1. row.remaining \in 0 .. Amount /\ row.status # "none" /\ NoOffer.status = "none"
  BY RowTyped DEF OfferInv, RecordsTyped, NoOffer
<1>2. Slots' = Slots /\ row' # NoOffer
  BY <1>1 DEF Slots
<1>3. ChainInv'
  BY <1>2 DEF OfferInv, ChainInv, ChainTyped, ChainShrinks, StatusSays, TipDecided, Tip
<1>4. RecordsTyped'
  <2>1. /\ sweep' \in [state : {"idle", "due", "read"}, remaining : 0 .. Amount,
                       slot : 0 .. MaxSlot]
        /\ sweep'.state = "read" => sweep'.slot \in Slots
    <3>1. 0 \in 0 .. Amount /\ 0 \in 0 .. MaxSlot
      OBVIOUS
    <3>2. CASE sweep' = sweep
      BY <3>2 DEF OfferInv, RecordsTyped
    <3>3. CASE sweep' = NoSweep
      BY <3>1, <3>3 DEF NoSweep
    <3>4. QED
      BY <3>2, <3>3
  <2>2. QED
    BY <1>1, <1>2, <2>1 DEF OfferInv, RecordsTyped, Plain
<1>5. RowDecided' /\ RowTouched'
  BY <1>2 DEF OfferInv, RowDecided, RowTouched
<1>6. ConstraintsHold'
  BY <1>1, <1>2 DEF OfferInv, ConstraintsHold, Sound
<1>7. ReadingStands'
  BY DEF ReadingStands, Moving
<1>8. Shrinks
  BY <1>1 DEF Shrinks
<1>9. QED
  BY <1>3, <1>4, <1>5, <1>6, <1>7, <1>8 DEF OfferInv

\* So does the passing of a check's 30 seconds.
LEMMA ExpireKeeps == OfferInv /\ Expire => OfferInv' /\ Shrinks
<1> SUFFICES ASSUME OfferInv, Expire PROVE OfferInv' /\ Shrinks
  OBVIOUS
<1>1. row \in OfferRow /\ row.checked = "fresh" /\ row # NoOffer
      /\ row' = [row EXCEPT !.checked = "expired"]
      /\ UNCHANGED <<chain, node, journal, early, sweep>>
  BY DEF Expire, OfferInv, RecordsTyped, NoOffer
<1>2. row' \in OfferRow
  BY <1>1 DEF OfferRow
<1>3. /\ row'.status = row.status /\ row'.remaining = row.remaining
      /\ row'.touchedSlot = row.touchedSlot /\ row'.checkedSlot = row.checkedSlot
      /\ row'.available = row.available /\ row'.stale = row.stale
  BY <1>1 DEF OfferRow
<1>4. row.checkedSlot \in Slots
  BY <1>1 DEF OfferInv, RecordsTyped
<1>5. Sound(row.status, row.remaining,
            [available |-> row.available, stale |-> row.stale])
  BY <1>1, RowTyped DEF OfferInv, ConstraintsHold, Sound
<1>6. row.status = "open" =>
         /\ LET said == Assess(row.remaining, chain[row.checkedSlot])
            IN  row.available = said.available /\ row.stale = said.stale
         /\ \A s \in journal \ early : chain[s].kind \in Moving => s <= row.checkedSlot
  BY <1>1 DEF OfferInv, ReadingStands, Moving
<1>7. QED
  BY <1>1, <1>2, <1>3, <1>4, <1>5, <1>6, Rechecked

\* So does the sweep's write, of a reading of whatever age.
LEMMA RecordKeeps == OfferInv /\ SweepRecord => OfferInv' /\ Shrinks
<1> SUFFICES ASSUME OfferInv, SweepRecord PROVE OfferInv' /\ Shrinks
  OBVIOUS
<1> DEFINE reading == Assess(sweep.remaining, chain[sweep.slot])
           slot == sweep.slot
<1>1. /\ sweep.state = "read" /\ slot \in Slots /\ row \in OfferRow
      /\ Slots = 1 .. Len(chain) /\ Len(chain) \in 1 .. MaxSlot
      /\ chain[slot] \in ChainSteps
      /\ sweep' = NoSweep /\ UNCHANGED <<chain, node, journal, early>>
  BY TipTyped DEF SweepRecord, OfferInv, RecordsTyped, ChainInv, ChainTyped
<1>2. CASE ~ StillCurrent
  <2>1. row' = row /\ SweepFails
    BY <1>1, <1>2 DEF SweepRecord, SweepFails
  <2>2. QED
    BY <2>1, ElsewhereKeeps
<1>3. CASE StillCurrent
  <2> DEFINE available == reading.available
             stale == reading.stale
  <2>1. /\ row.status = "open" /\ row.remaining = sweep.remaining
        /\ row.touchedSlot <= slot
    BY <1>3 DEF StillCurrent
  <2>2. row.remaining \in 1 .. Amount /\ row.touchedSlot \in Int /\ slot \in 0 .. MaxSlot
        /\ row # NoOffer
    BY <1>1, <2>1, RowTyped DEF OfferInv, ConstraintsHold, NoOffer
  <2>3. Sound("open", row.remaining, reading)
    BY <1>1, <2>1, <2>2, AssessSound
  <2>4. row' = [row EXCEPT !.available = available, !.stale = stale,
                           !.checked = "fresh", !.checkedSlot = slot]
    BY <1>3 DEF SweepRecord
  <2>5. available \in {Unknown} \cup 0 .. Amount /\ stale \in StaleReasons
    BY <2>3 DEF Sound
  <2>6. /\ available = Assess(row.remaining, chain[slot]).available
        /\ stale = Assess(row.remaining, chain[slot]).stale
    BY <2>1
  <2>7. Sound("open", row.remaining, [available |-> available, stale |-> stale])
    BY <2>3 DEF Sound
  <2>8. \A s \in journal \ early : chain[s].kind \in Moving => s <= slot
    <3>1. SUFFICES ASSUME NEW s \in journal \ early, chain[s].kind \in Moving
                   PROVE  s <= slot
      OBVIOUS
    <3>2. s <= row.touchedSlot /\ s \in Int
      BY <1>1, <2>1, <3>1 DEF OfferInv, RowTouched, RecordsTyped
    <3>3. QED
      BY <2>1, <2>2, <3>2
  <2> HIDE DEF available, stale, slot
  <2>9. row' \in OfferRow
    BY <1>1, <2>2, <2>4, <2>5 DEF OfferRow
  <2>10. /\ row'.status = row.status /\ row'.remaining = row.remaining
         /\ row'.touchedSlot = row.touchedSlot /\ row'.checkedSlot = slot
         /\ row'.available = available /\ row'.stale = stale
    BY <1>1, <2>4 DEF OfferRow
  <2>11. QED
    BY <1>1, <2>1, <2>2, <2>6, <2>7, <2>8, <2>9, <2>10, Rechecked
<1>4. QED
  BY <1>2, <1>3

-----------------------------------------------------------------------------
(* The applier's step. *)

\* So does an acceptance that finds its row.
LEMMA AcceptApplied ==
    ASSUME OfferInv, NEW s \in Slots, UNCHANGED <<chain, node, sweep>>, row # NoOffer,
           chain[s].kind = "accept", AcceptOffer(s), journal' = journal \cup {s},
           early' = IF row = NoOffer /\ Plain(s) THEN early \cup {s} ELSE early
    PROVE  OfferInv' /\ Shrinks
<1> DEFINE remaining == chain[s].remaining
           status == IF remaining = 0 THEN "filled" ELSE "open"
           reading == AvailableAfter(remaining, chain[s].n)
<1>1. row' = Changed(s, status, remaining, reading)
  BY DEF AcceptOffer
<1>2. /\ chain[s] \in ChainSteps /\ remaining \in 0 .. Amount /\ chain[s].n \in 0 .. Amount
      /\ row \in OfferRow /\ row.remaining \in 0 .. Amount /\ row.status # "none"
      /\ chain[s].status = status
  BY TipTyped, RowTyped DEF OfferInv, ChainInv, ChainSteps, RecordsTyped, StatusSays
<1> HIDE DEF remaining, status, reading
<1>3. CASE row.status # "open"
  <2>1. row' = row
    BY <1>1, <1>3 DEF Changed, Applicable
  <2>2. KnownTo(s)
    BY <1>3, KnownWhenClosed DEF Decisions
  <2>3. QED
    BY <2>1, <2>2, RowStays, RowKept
<1>4. CASE row.status = "open" /\ ~ (row.remaining > remaining)
  <2>1. row' = row
    BY <1>1, <1>4 DEF Changed, Applicable, status
  <2>2. KnownTo(s)
    BY <1>2, <1>4, KnownWhenLater DEF remaining
  <2>3. QED
    BY <2>1, <2>2, RowStays, RowKept
<1>5. CASE row.status = "open" /\ row.remaining > remaining
  <2>1. row' = [row EXCEPT !.status = status, !.remaining = remaining,
                     !.available = reading.available, !.stale = reading.stale,
                     !.checked = "never", !.touchedSlot = SlotAtLeast(s)]
    BY <1>1, <1>5 DEF Changed, Applicable
  <2>2. Sound(status, remaining, reading)
    BY <1>2, <1>5, AfterSound DEF status, reading
  <2>3. remaining <= row.remaining /\ remaining = chain[s].remaining
    BY <1>2, <1>5 DEF remaining
  <2>4. OfferInv'
    BY <1>2, <1>5, <2>1, <2>2, <2>3, OfferChanged
  <2>5. row'.remaining = remaining
    BY <1>2, <2>1 DEF OfferRow
  <2>6. QED
    BY <1>5, <2>3, <2>4, <2>5 DEF Shrinks
<1>6. QED
  BY <1>3, <1>4, <1>5

\* So does a cancellation that finds its row.
LEMMA CancelApplied ==
    ASSUME OfferInv, NEW s \in Slots, UNCHANGED <<chain, node, sweep>>, row # NoOffer,
           chain[s].kind = "cancel", CancelOffer(s), journal' = journal \cup {s},
           early' = IF row = NoOffer /\ Plain(s) THEN early \cup {s} ELSE early
    PROVE  OfferInv' /\ Shrinks
<1> DEFINE remaining == chain[s].remaining
           reading == [available |-> Unknown, stale |-> "none"]
<1>1. row' = Changed(s, "cancelled", remaining, reading)
  BY DEF CancelOffer
<1>2. /\ remaining \in 0 .. Amount /\ chain[s].status = "cancelled"
      /\ row \in OfferRow /\ row.remaining \in 0 .. Amount
  BY TipTyped, RowTyped DEF OfferInv, ChainInv, ChainSteps, RecordsTyped, StatusSays
<1>3. CASE row.status # "open"
  <2>1. row' = row
    BY <1>1, <1>3 DEF Changed, Applicable
  <2>2. KnownTo(s)
    BY <1>3, KnownWhenClosed DEF Decisions
  <2>3. QED
    BY <2>1, <2>2, RowStays, RowKept
<1>4. CASE row.status = "open"
  <2>1. row' = [row EXCEPT !.status = "cancelled", !.remaining = remaining,
                     !.available = reading.available, !.stale = reading.stale,
                     !.checked = "never", !.touchedSlot = SlotAtLeast(s)]
    BY <1>1, <1>4 DEF Changed, Applicable
  <2>2. Sound("cancelled", remaining, reading)
    BY DEF Sound, StaleReasons
\* The row's step came before the cancellation.
  <2>3. remaining <= row.remaining
    <3>1. PICK u \in journal : /\ chain[u].kind \in Decisions
                               /\ row.status = chain[u].status
                               /\ row.remaining = chain[u].remaining
      BY DEF OfferInv, RowDecided
    <3>2. u \in Slots /\ u \in Nat /\ s \in Nat
      BY TipTyped DEF OfferInv, RecordsTyped, ChainInv
    <3>3. u # s /\ ~ (s < u)
      BY <1>2, <1>4, <3>1, <3>2 DEF OfferInv, ChainInv, ChainShrinks, Decided
    <3>4. u < s
      BY <3>2, <3>3
    <3>5. QED
      BY <3>1, <3>2, <3>4 DEF OfferInv, ChainInv, ChainShrinks
  <2> HIDE DEF remaining, reading
  <2>4. chain[s].remaining = remaining
    BY DEF remaining
  <2>5. OfferInv'
    BY <1>2, <1>4, <2>1, <2>2, <2>3, <2>4, OfferChanged
  <2>6. row'.remaining = remaining
    BY <1>2, <2>1 DEF OfferRow
  <2>7. QED
    BY <1>4, <2>3, <2>5, <2>6 DEF Shrinks
<1>5. QED
  BY <1>3, <1>4

\* So does any record, in any order and again.
LEMMA ApplyKeeps ==
    ASSUME OfferInv, NEW s \in Slots, Apply(s)
    PROVE  OfferInv' /\ Shrinks
<1>1. /\ journal' = journal \cup {s} /\ UNCHANGED <<chain, node, sweep>>
      /\ early' = IF row = NoOffer /\ Plain(s) THEN early \cup {s} ELSE early
      /\ early \subseteq early'
      /\ chain[s].kind \in Kinds \ Silent
  BY TipTyped DEF Apply, Due, OfferInv, ChainInv, ChainSteps
<1>2. CASE row' = row /\ KnownTo(s)
  BY <1>1, <1>2, RowStays, RowKept
<1>3. CASE row' = row /\ s \in journal
  BY <1>1, <1>2, <1>3, KnownAgain
<1>4. CASE chain[s].kind = "create"
  <2>1. CreateOffer(s)
    BY <1>4 DEF Apply, Plain
  <2>2. CASE row = NoOffer
    BY <1>1, <1>4, <2>1, <2>2, OfferCreated DEF Shrinks
  <2>3. CASE row # NoOffer
    <3>1. row' = row
      BY <2>1, <2>3 DEF CreateOffer
    <3>2. s = 1 /\ chain[1] = Created
      <4>1. 1 \in Slots /\ s \in Nat /\ s >= 1
        BY TipTyped DEF OfferInv, ChainInv, ChainTyped
      <4>2. ~ (1 < s)
        BY <1>4, <4>1 DEF OfferInv, ChainInv, ChainShrinks
      <4>3. QED
        BY <4>1, <4>2 DEF OfferInv, ChainInv, ChainTyped
    <3>3. row.remaining <= chain[s].remaining /\ chain[s].status = "open"
      BY <3>2, RowTyped DEF OfferInv, RecordsTyped, Created
    <3>4. KnownTo(s)
      BY <1>4, <2>3, <3>3 DEF KnownTo, Moving
    <3>5. QED
      BY <1>2, <3>1, <3>4
  <2>4. QED
    BY <2>2, <2>3
<1>5. CASE chain[s].kind = "accept"
  <2>1. IF s \in journal THEN UNCHANGED row ELSE AcceptOffer(s)
    BY <1>5 DEF Apply, Plain
  <2>2. row # NoOffer
    <3>1. s = 1 \/ row # NoOffer
      BY <1>5 DEF Apply, Due, Plain
    <3>2. chain[1].kind = "create"
      BY DEF OfferInv, ChainInv, ChainTyped, Created
    <3>3. QED
      BY <1>5, <3>1, <3>2
  <2>3. QED
    BY <1>1, <1>3, <1>5, <2>1, <2>2, AcceptApplied
<1>6. CASE chain[s].kind = "cancel"
  <2>1. CancelOffer(s)
    BY <1>6 DEF Apply, Plain
  <2>2. row # NoOffer
    <3>1. s = 1 \/ row # NoOffer
      BY <1>6 DEF Apply, Due, Plain
    <3>2. chain[1].kind = "create"
      BY DEF OfferInv, ChainInv, ChainTyped, Created
    <3>3. QED
      BY <1>6, <3>1, <3>2
  <2>3. QED
    BY <1>1, <1>6, <2>1, <2>2, CancelApplied
<1>7. CASE Plain(s)
  <2>1. IF s \in journal THEN UNCHANGED row ELSE TouchOffer(s)
    BY <1>7 DEF Apply, Plain
  <2>2. CASE s \in journal
    BY <1>3, <2>1, <2>2
  <2>3. CASE s \notin journal /\ row.status # "open"
    <3>1. row' = row
      BY <2>1, <2>3 DEF TouchOffer
    <3>2. KnownTo(s)
      BY <1>1, <1>7, <2>3 DEF KnownTo, Plain, Decisions
    <3>3. QED
      BY <1>2, <3>1, <3>2
  <2>4. CASE s \notin journal /\ row.status = "open"
    <3>1. OfferInv'
      BY <1>1, <1>7, <2>1, <2>4, OfferTouched
    <3>2. row'.remaining = row.remaining /\ row.remaining \in 0 .. Amount
      BY <2>1, <2>4, RowTyped DEF TouchOffer, OfferInv, RecordsTyped, OfferRow
    <3>3. QED
      BY <2>4, <3>1, <3>2 DEF Shrinks
  <2>5. QED
    BY <2>2, <2>3, <2>4
<1>8. QED
  BY <1>1, <1>4, <1>5, <1>6, <1>7 DEF Kinds, Silent, Plain

\* So does every step, and no step grows a row.
LEMMA OfferStep == OfferInv /\ [Next]_vars => OfferInv' /\ [Shrinks]_vars
<1>1. OfferInv /\ UNCHANGED vars => OfferInv'
  BY ElsewhereKeeps
<1>2. ASSUME OfferInv, Next PROVE OfferInv' /\ Shrinks
  BY <1>2, ChainStepKeeps, ElsewhereKeeps, ExpireKeeps, RecordKeeps, ApplyKeeps
     DEF Next, SweepStep
<1>3. QED
  BY <1>1, <1>2

\* So the invariant holds throughout.
LEMMA OfferInvHolds == Spec => []OfferInv
  BY OfferStarts, OfferStep, PTL DEF Spec

-----------------------------------------------------------------------------
(* The theorems. *)

\* Every write keeps the table's constraints, whatever order events, replays and
\* readings come in (packages/db/src/schema.ts:446-457).
THEOREM WritesKeepConstraints == Spec => []ConstraintsHold
<1>1. OfferInv => ConstraintsHold
  BY DEF OfferInv
<1>2. QED
  BY <1>1, OfferInvHolds, PTL

\* A reading the row stands by is what the chain said at its slot, and nothing
\* the index knows of moved the shares since (stale.ts:45-48).
THEOREM ReadingsStand == Spec => []ReadingStands
<1>1. OfferInv => ReadingStands
  BY DEF OfferInv
<1>2. QED
  BY <1>1, OfferInvHolds, PTL

\* A closed offer stays closed and an open one only shrinks, whatever comes late
\* or again (index-store.ts:115-117, 260-278).
THEOREM RowsOnlyShrink == Spec => RowOnlyShrinks
  BY OfferInvHolds, OfferStep, PTL DEF Spec, RowOnlyShrinks, Shrinks

\* With all of its records in, in whatever order they came, the row is the offer
\* (apply.ts:466-519): it is as some record left it, no record left less, and
\* the one that decided the tip is among them.
THEOREM BookSettles == Spec => []BookIsTheChain
<1>1. ASSUME OfferInv, {s \in Slots : chain[s].kind \notin Silent} \subseteq journal
      PROVE  row.status = Tip.status /\ row.remaining = Tip.remaining
  <2>1. /\ Slots = 1 .. Len(chain) /\ Len(chain) \in Slots /\ Tip = chain[Len(chain)]
        /\ 1 \in Slots /\ chain[1].kind = "create"
        /\ \A s \in Slots : chain[s].remaining \in Int
    BY <1>1, TipTyped DEF OfferInv, ChainInv, ChainTyped, Created, Tip, ChainSteps
  <2>2. row # NoOffer
    <3>1. 1 \in journal /\ ~ Plain(1)
      BY <1>1, <2>1 DEF Silent, Plain
    <3>2. QED
      BY <1>1, <3>1 DEF OfferInv, RowTouched, RecordsTyped
  <2>3. PICK s \in journal : /\ chain[s].kind \in Decisions
                             /\ row.status = chain[s].status
                             /\ row.remaining = chain[s].remaining
    BY <1>1, <2>2 DEF OfferInv, RowDecided
  <2>4. PICK u \in Slots : /\ chain[u].kind \in Decisions
                           /\ chain[u].status = Tip.status
                           /\ chain[u].remaining = Tip.remaining
    BY <1>1 DEF OfferInv, ChainInv, TipDecided
  <2>5. u \in journal
    BY <1>1, <2>4 DEF Decisions, Silent
  <2>6. row.remaining <= Tip.remaining /\ (Tip.status # "open" => row.status = Tip.status)
    BY <1>1, <2>2, <2>4, <2>5 DEF OfferInv, RowDecided
  <2>7. s \in Slots
    BY <1>1 DEF OfferInv, RecordsTyped
  <2>8. Tip.remaining <= chain[s].remaining
        /\ (chain[s].status # "open" => Tip.status = chain[s].status)
    <3>1. CASE s = Len(chain)
      BY <2>1, <3>1
    <3>2. CASE s < Len(chain)
      BY <1>1, <2>1, <2>7, <3>2 DEF OfferInv, ChainInv, ChainShrinks, Decided
    <3>3. QED
      BY <2>1, <2>7, <3>1, <3>2
  <2>9. QED
    BY <2>1, <2>3, <2>6, <2>7, <2>8
<1>2. OfferInv => BookIsTheChain
  BY <1>1 DEF BookIsTheChain
<1>3. QED
  BY <1>2, OfferInvHolds, PTL
=============================================================================
