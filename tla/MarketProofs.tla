---------------------------- MODULE MarketProofs ---------------------------
(***************************************************************************)
(* The secondary market's theorems, for any number of offers, sellers and  *)
(* buyers, any prices and any fee.                                         *)
(***************************************************************************)
EXTENDS Market, ShareTokenProofs

USE MarketAssumption, PricingAssumption DEF Accounts

-----------------------------------------------------------------------------
(* The market leaves the token what it was. *)

\* A trade, and a transfer by any other delegate, is a transfer its seller
\* could have made; everything else of the market touches no share.
LEMMA MarketStepIsTokenStep == [MarketNext]_marketVars => [Next]_shareVars
<1> SUFFICES ASSUME [MarketNext]_marketVars PROVE [Next]_shareVars
  OBVIOUS
<1>1. CASE UNCHANGED marketVars
  BY <1>1 DEF marketVars
<1>2. CASE Next
  BY <1>2
<1>3. ASSUME NEW o \in Offers, NEW n \in Shares, NEW p \in Prices,
             CreateOffer(o, n, p)
      PROVE  UNCHANGED shareVars
  BY <1>3 DEF CreateOffer
<1>4. ASSUME NEW o \in Offers, CancelOffer(o)
      PROVE  UNCHANGED shareVars
  BY <1>4 DEF CancelOffer
<1>5. ASSUME NEW b \in Wallets, NEW o \in Offers, NEW n \in Shares,
             AcceptOffer(b, o, n)
      PROVE  Next
  <2>1. Seller[o] \in Wallets /\ b \in Accounts
    OBVIOUS
  <2>2. HolderTransfer(Seller[o], b, n)
    BY <1>5 DEF AcceptOffer, DelegateTransfer, HolderTransfer
  <2>3. QED
    BY <2>1, <2>2 DEF Next
<1>6. ASSUME NEW s \in Sellers, NEW d \in Delegates, NEW n \in 0 .. Supply,
             ApproveByHand(s, d, n)
      PROVE  UNCHANGED shareVars
  BY <1>6 DEF ApproveByHand
<1>7. ASSUME NEW s \in Sellers, RevokeByHand(s)
      PROVE  UNCHANGED shareVars
  BY <1>7 DEF RevokeByHand
<1>8. ASSUME NEW s \in Sellers, NEW dst \in Accounts, NEW n \in Shares,
             OutsiderTransfer(s, dst, n)
      PROVE  Next
  <2>1. s \in Wallets
    BY DEF Sellers
  <2>2. HolderTransfer(s, dst, n)
    BY <1>8 DEF OutsiderTransfer, DelegateTransfer, HolderTransfer
  <2>3. QED
    BY <2>1, <2>2 DEF Next
<1>9. ASSUME NEW s \in Sellers, NEW n \in Shares, OutsiderBurn(s, n)
      PROVE  Next
  <2>1. s \in Wallets
    BY DEF Sellers
  <2>2. QED
    BY <1>9, <2>1 DEF OutsiderBurn, Next
<1>10. QED
  BY <1>1, <1>2, <1>3, <1>4, <1>5, <1>6, <1>7, <1>8, <1>9 DEF MarketNext

\* The market implements the share token: no trade can do to shares what a
\* plain transfer under the hook could not.
THEOREM MarketRefinesShareToken == MarketSpec => ImplementsShareToken
<1>1. MarketInit => Init
  BY DEF MarketInit
<1>2. QED
  BY <1>1, MarketStepIsTokenStep, PTL
     DEF MarketSpec, Spec, ImplementsShareToken

\* Hence the token's theorems hold with the market running: locked shares
\* cannot be sold, nobody who is not admitted can buy, and the cap table is
\* still a cap table.
THEOREM MarketKeepsTokenPromises ==
    MarketSpec => []GrantLocked /\ ReceivedOnlyWhileAdmitted /\ ImplementsCapTable
  BY MarketRefinesShareToken, GrantStaysLocked, AdmissionEnforced,
     RefinesCapTable, PTL DEF ImplementsShareToken

\* And no trade creates or loses a share.
THEOREM TradesKeepSupply ==
    ASSUME IsFiniteSet(Wallets)
    PROVE  MarketSpec => []SupplyAccounted
  BY MarketRefinesShareToken, SupplyStaysAccounted, PTL DEF ImplementsShareToken

-----------------------------------------------------------------------------
(* Types of the market's own state. *)

\* A fee is part of its payment, and within the platform's share of it.
LEMMA FeeWithinPayment ==
    ASSUME NEW payment \in Nat
    PROVE  /\ FeeFor(FeeBps, payment) \in 0 .. payment
           /\ FeeFor(FeeBps, payment) * Denominator <= payment * FeeBps
<1> DEFINE fee == FeeFor(FeeBps, payment)
<1>1. FeeBps <= Denominator
  <2>1. Denominator \div 10 <= Denominator
    BY SMT
  <2>2. QED
    BY <2>1 DEF ValidFeeBps, FeeBpsMax
<1>2. payment * FeeBps \in Nat /\ payment * FeeBps <= payment * Denominator
  BY <1>1, ProductMonotone
<1>3. /\ fee \in Nat
      /\ Denominator * fee <= payment * FeeBps
  BY <1>2, DivFloor DEF FeeFor
<1>4. fee <= payment
  <2>1. fee <= (payment * Denominator) \div Denominator
    <3>1. payment * Denominator \in Nat
      BY ProductMonotone
    <3>2. QED
      BY <1>2, <3>1, DivMonotone DEF FeeFor
  <2>2. QED
    BY <2>1, DivExact
<1> HIDE DEF fee
<1>5. QED
  BY <1>3, <1>4, SMT DEF fee

\* Approving, revoking and using up a delegation, account by account.
LEMMA DelegationTyped ==
    ASSUME MarketTypeOK, NEW s \in Wallets,
           NEW d \in Delegates \cup {NoDelegate}, NEW n \in Nat,
           SetDelegate(s, d, n)
    PROVE  /\ delegate' \in [Wallets -> Delegates \cup {NoDelegate}]
           /\ delegated' \in [Wallets -> Nat]
           /\ delegate'[s] = d /\ delegated'[s] = n
           /\ \A w \in Wallets \ {s} :
                 delegate'[w] = delegate[w] /\ delegated'[w] = delegated[w]
  BY DEF SetDelegate, MarketTypeOK

\* Spending a delegation lowers it, and clears it when nothing is left.
LEMMA SpendTyped ==
    ASSUME MarketTypeOK, NEW s \in Wallets, NEW n \in Shares,
           n <= delegated[s], SpendDelegation(s, n)
    PROVE  /\ delegate' \in [Wallets -> Delegates \cup {NoDelegate}]
           /\ delegated' \in [Wallets -> Nat]
           /\ delegated'[s] = delegated[s] - n
           /\ delegate'[s] = IF delegated[s] = n THEN NoDelegate ELSE delegate[s]
           /\ \A w \in Wallets \ {s} :
                 delegate'[w] = delegate[w] /\ delegated'[w] = delegated[w]
<1>1. /\ delegated[s] \in Nat /\ n \in Nat
      /\ delegate[s] \in Delegates \cup {NoDelegate}
  BY DEF MarketTypeOK, Shares
<1>2. CASE delegated[s] = n
  <2>1. SetDelegate(s, NoDelegate, 0)
    BY <1>2 DEF SpendDelegation, ClearDelegate
  <2>2. QED
    BY <1>1, <1>2, <2>1, DelegationTyped
<1>3. CASE delegated[s] # n
  <2>1. SetDelegate(s, delegate[s], delegated[s] - n) /\ delegated[s] - n \in Nat
    BY <1>1, <1>3 DEF SpendDelegation
  <2>2. QED
    BY <1>1, <1>3, <2>1, DelegationTyped
<1>4. QED
  BY <1>2, <1>3

\* Buying part of an offer leaves its terms alone.
LEMMA FillTyped ==
    ASSUME MarketTypeOK, NEW o \in Offers, NEW n \in Shares,
           n <= offers[o].remaining
    PROVE  /\ Fill(o, n) \in OfferRecord
           /\ Fill(o, n).remaining = offers[o].remaining - n
           /\ Fill(o, n).amount = offers[o].amount
           /\ Fill(o, n).price = offers[o].price
           /\ Fill(o, n).status = IF offers[o].remaining = n
                                  THEN "filled" ELSE offers[o].status
<1>1. offers[o] \in OfferRecord /\ n \in Nat
  BY DEF MarketTypeOK, Shares
<1> DEFINE r == offers[o]
           st == IF r.remaining = n THEN "filled" ELSE r.status
<1>2. /\ r.remaining - n \in Nat /\ st \in OfferStatuses
      /\ r.amount \in Nat /\ r.price \in Nat /\ r.rofrUntil \in Nat
  BY <1>1 DEF OfferRecord, OfferStatuses
<1>3. Fill(o, n) = [status |-> st, amount |-> r.amount,
                    remaining |-> r.remaining - n,
                    price |-> r.price, rofrUntil |-> r.rofrUntil]
  BY DEF Fill
<1> HIDE DEF st
<1>4. Fill(o, n) \in OfferRecord
  BY <1>2, <1>3 DEF OfferRecord
<1>5. /\ Fill(o, n).remaining = r.remaining - n
      /\ Fill(o, n).amount = r.amount
      /\ Fill(o, n).price = r.price
      /\ Fill(o, n).status = st
  BY <1>3
<1>6. QED
  BY <1>4, <1>5 DEF st

\* Payment of a trade, account by account.
LEMMA PayTyped ==
    ASSUME MarketTypeOK, NEW buyer \in Wallets, NEW seller \in Wallets,
           NEW payment \in Nat, NEW fee \in 0 .. payment,
           buyer # seller, PayFor(buyer, seller, payment, fee)
    PROVE  /\ cash' \in [CashAccounts -> Nat]
           /\ cash'[buyer] = cash[buyer] - payment
           /\ cash'[seller] = cash[seller] + (payment - fee)
           /\ cash'[FeeTreasury] = cash[FeeTreasury] + fee
           /\ \A a \in CashAccounts \ {buyer, seller, FeeTreasury} :
                 cash'[a] = cash[a]
  BY DEF PayFor, MarketTypeOK, CashAccounts

\* The market's initial state has its types.
LEMMA MarketInitTyped == MarketInit => MarketTypeOK
<1> SUFFICES ASSUME MarketInit PROVE MarketTypeOK
  OBVIOUS
<1>1. TypeOK
  BY InitTyped DEF MarketInit
<1>2. /\ offers \in [Offers -> OfferRecord]
      /\ trades \in [Offers -> [shares : Nat, payment : Nat, fee : Nat]]
  BY DEF MarketInit, NoOffer, OfferRecord, OfferStatuses, NoTrades
<1>3. QED
  BY <1>1, <1>2 DEF MarketInit, MarketTypeOK, CashAccounts

\* What an acceptance pays and takes are share counts and amounts.
LEMMA AcceptTyped ==
    ASSUME MarketTypeOK, NEW b \in Wallets, NEW o \in Offers, NEW n \in Shares,
           AcceptOffer(b, o, n),
           NEW payment, payment = PaymentFor(offers[o].price, n),
           NEW fee, fee = FeeFor(FeeBps, payment)
    PROVE  /\ payment \in Nat /\ fee \in 0 .. payment
           /\ fee * Denominator <= payment * FeeBps
           /\ payment = offers[o].price * n
           /\ n \in Nat \ {0} /\ n <= offers[o].remaining
           /\ b # Seller[o] /\ Seller[o] \in Wallets
           /\ n <= delegated[Seller[o]] /\ delegate[Seller[o]] = o
           /\ SpendDelegation(Seller[o], n)
           /\ PayFor(b, Seller[o], payment, fee)
           /\ offers' = [offers EXCEPT ![o] = Fill(o, n)]
           /\ trades' = [trades EXCEPT ![o] =
                 [shares |-> trades[o].shares + n,
                  payment |-> trades[o].payment + payment,
                  fee |-> trades[o].fee + fee]]
           /\ IsOpen(o) /\ handled' = handled
<1>1. offers[o].price \in Nat /\ n \in Nat \ {0} /\ Seller[o] \in Wallets
  BY DEF MarketTypeOK, OfferRecord, Shares
<1>2. payment \in Nat /\ payment = offers[o].price * n
  BY <1>1, ProductMonotone DEF PaymentFor
<1>3. fee \in 0 .. payment /\ fee * Denominator <= payment * FeeBps
  BY <1>2, FeeWithinPayment
<1>4. trades[o] \in [shares : Nat, payment : Nat, fee : Nat]
  BY DEF MarketTypeOK
<1>5. QED
  BY <1>1, <1>2, <1>3, <1>4
     DEF AcceptOffer, Backed, DelegateTransfer, Transfer, MoveShares, RecordTrade

\* Cancelling an offer changes its status and nothing else of any offer.
LEMMA CancelTyped ==
    ASSUME MarketTypeOK, NEW o \in Offers, CancelOffer(o)
    PROVE  /\ offers' \in [Offers -> OfferRecord]
           /\ offers'[o].status = "cancelled"
           /\ offers'[o].remaining = offers[o].remaining
           /\ offers'[o].amount = offers[o].amount
           /\ offers'[o].price = offers[o].price
           /\ \A q \in Offers \ {o} : offers'[q] = offers[q]
<1> DEFINE r == [offers[o] EXCEPT !.status = "cancelled"]
<1>1. offers \in [Offers -> OfferRecord] /\ offers[o] \in OfferRecord
  BY DEF MarketTypeOK
<1>2. /\ r \in OfferRecord /\ r.status = "cancelled"
      /\ r.remaining = offers[o].remaining
      /\ r.amount = offers[o].amount
      /\ r.price = offers[o].price
  BY <1>1 DEF OfferRecord, OfferStatuses
<1>3. offers' = [offers EXCEPT ![o] = r]
  BY <1>1 DEF CancelOffer
<1> HIDE DEF r
<1>4. QED
  BY <1>1, <1>2, <1>3

\* No step of the market leaves the types.
LEMMA MarketStepTyped == MarketTypeOK /\ [MarketNext]_marketVars => MarketTypeOK'
<1> SUFFICES ASSUME MarketTypeOK, [MarketNext]_marketVars PROVE MarketTypeOK'
  OBVIOUS
<1>1. TypeOK'
  BY MarketStepIsTokenStep, StepTyped DEF MarketTypeOK
<1>2. CASE UNCHANGED marketOnlyVars
  BY <1>1, <1>2 DEF MarketTypeOK, marketOnlyVars
<1>3. ASSUME NEW o \in Offers, NEW n \in Shares, NEW p \in Prices,
             CreateOffer(o, n, p)
      PROVE  MarketTypeOK'
  <2>1. Seller[o] \in Wallets /\ n \in Nat /\ p \in Nat /\ o \in Delegates
    BY DEF Shares, Delegates
  <2>2. [status |-> "open", amount |-> n, remaining |-> n,
         price |-> p, rofrUntil |-> 0] \in OfferRecord
    BY <2>1 DEF OfferRecord, OfferStatuses
  <2>3. offers' \in [Offers -> OfferRecord]
    BY <1>3, <2>2 DEF CreateOffer, MarketTypeOK
  <2>4. /\ delegate' \in [Wallets -> Delegates \cup {NoDelegate}]
        /\ delegated' \in [Wallets -> Nat]
    BY <1>3, <2>1, DelegationTyped DEF CreateOffer
  <2>5. QED
    BY <1>1, <1>3, <2>3, <2>4 DEF CreateOffer, MarketTypeOK
<1>4. ASSUME NEW o \in Offers, CancelOffer(o)
      PROVE  MarketTypeOK'
  <2>1. offers' \in [Offers -> OfferRecord]
    BY <1>4, CancelTyped
  <2>2. Seller[o] \in Wallets
    OBVIOUS
  <2>3. /\ delegate' \in [Wallets -> Delegates \cup {NoDelegate}]
        /\ delegated' \in [Wallets -> Nat]
    BY <1>4, <2>2, DelegationTyped DEF CancelOffer, ClearDelegate, MarketTypeOK
  <2>4. QED
    BY <1>1, <1>4, <2>1, <2>3 DEF CancelOffer, MarketTypeOK
<1>5. ASSUME NEW b \in Wallets, NEW o \in Offers, NEW n \in Shares,
             AcceptOffer(b, o, n)
      PROVE  MarketTypeOK'
  <2> DEFINE payment == PaymentFor(offers[o].price, n)
             fee == FeeFor(FeeBps, payment)
  <2>1. /\ payment \in Nat /\ fee \in 0 .. payment
        /\ n \in Nat /\ n <= offers[o].remaining
        /\ b # Seller[o] /\ Seller[o] \in Wallets
        /\ n <= delegated[Seller[o]]
        /\ SpendDelegation(Seller[o], n)
        /\ PayFor(b, Seller[o], payment, fee)
        /\ offers' = [offers EXCEPT ![o] = Fill(o, n)]
        /\ trades' = [trades EXCEPT ![o] =
              [shares |-> trades[o].shares + n,
               payment |-> trades[o].payment + payment,
               fee |-> trades[o].fee + fee]]
        /\ handled' = handled
    BY <1>5, AcceptTyped
  <2> HIDE DEF payment, fee
  <2>2. offers' \in [Offers -> OfferRecord]
    BY <2>1, FillTyped DEF MarketTypeOK
  <2>3. /\ delegate' \in [Wallets -> Delegates \cup {NoDelegate}]
        /\ delegated' \in [Wallets -> Nat]
    BY <2>1, SpendTyped
  <2>4. cash' \in [CashAccounts -> Nat]
    BY <2>1, PayTyped
  <2>5. trades' \in [Offers -> [shares : Nat, payment : Nat, fee : Nat]]
    BY <2>1 DEF MarketTypeOK
  <2>6. QED
    BY <1>1, <2>1, <2>2, <2>3, <2>4, <2>5 DEF MarketTypeOK
<1>6. ASSUME NEW s \in Sellers, NEW d \in Delegates, NEW n \in 0 .. Supply,
             ApproveByHand(s, d, n)
      PROVE  MarketTypeOK'
  <2>1. s \in Wallets /\ n \in Nat
    BY DEF Sellers
  <2>2. /\ delegate' \in [Wallets -> Delegates \cup {NoDelegate}]
        /\ delegated' \in [Wallets -> Nat]
    BY <1>6, <2>1, DelegationTyped DEF ApproveByHand
  <2>3. QED
    BY <1>1, <1>6, <2>2 DEF ApproveByHand, MarketTypeOK, OffersOf
<1>7. ASSUME NEW s \in Sellers, RevokeByHand(s)
      PROVE  MarketTypeOK'
  <2>1. s \in Wallets
    BY DEF Sellers
  <2>2. /\ delegate' \in [Wallets -> Delegates \cup {NoDelegate}]
        /\ delegated' \in [Wallets -> Nat]
    BY <1>7, <2>1, DelegationTyped DEF RevokeByHand, ClearDelegate
  <2>3. QED
    BY <1>1, <1>7, <2>2 DEF RevokeByHand, MarketTypeOK, OffersOf
<1>8. ASSUME NEW s \in Sellers, NEW dst \in Accounts, NEW n \in Shares,
             OutsiderTransfer(s, dst, n)
      PROVE  MarketTypeOK'
  <2>1. s \in Wallets
    BY DEF Sellers
  <2>2. /\ delegate' \in [Wallets -> Delegates \cup {NoDelegate}]
        /\ delegated' \in [Wallets -> Nat]
    BY <1>8, <2>1, SpendTyped DEF OutsiderTransfer, DelegateTransfer
  <2>3. QED
    BY <1>1, <1>8, <2>2 DEF OutsiderTransfer, MarketTypeOK
<1>9. ASSUME NEW s \in Sellers, NEW n \in Shares, OutsiderBurn(s, n)
      PROVE  MarketTypeOK'
  <2>1. s \in Wallets
    BY DEF Sellers
  <2>2. /\ delegate' \in [Wallets -> Delegates \cup {NoDelegate}]
        /\ delegated' \in [Wallets -> Nat]
    BY <1>9, <2>1, SpendTyped DEF OutsiderBurn
  <2>3. QED
    BY <1>1, <1>9, <2>2 DEF OutsiderBurn, MarketTypeOK
<1>10. QED
  BY <1>2, <1>3, <1>4, <1>5, <1>6, <1>7, <1>8, <1>9
     DEF MarketNext, marketVars

\* The market's state stays well-typed.
THEOREM MarketTypeCorrect == MarketSpec => []MarketTypeOK
  BY MarketInitTyped, MarketStepTyped, PTL DEF MarketSpec

-----------------------------------------------------------------------------
(* The books of an offer. *)

\* Nothing is sold at an address before an offer is published there.
NothingSoldBefore ==
    \A o \in Offers : offers[o].status = "absent" => trades[o] = NoTrades

SettledInv == MarketTypeOK /\ TradesSettleTheOffer /\ NothingSoldBefore

\* What one trade adds to the books keeps them settled.
LEMMA AddTrade ==
    ASSUME NEW price \in Nat, NEW sold \in Nat, NEW paid \in Nat,
           NEW fees \in Nat, NEW n \in Nat, NEW payment \in Nat, NEW fee \in Nat,
           paid = price * sold, payment = price * n,
           fees * Denominator <= paid * FeeBps,
           fee * Denominator <= payment * FeeBps
    PROVE  /\ paid + payment = price * (sold + n)
           /\ (fees + fee) * Denominator <= (paid + payment) * FeeBps
<1>1. price * (sold + n) = price * sold + price * n
  BY SMT
<1>2. (fees + fee) * Denominator = fees * Denominator + fee * Denominator
  BY SMT
<1>3. (paid + payment) * FeeBps = paid * FeeBps + payment * FeeBps
  BY SMT
<1>4. QED
  BY <1>1, <1>2, <1>3, ProductMonotone, SMT

\* Before any trade the books are empty.
LEMMA SettledInit == MarketInit => SettledInv
<1> SUFFICES ASSUME MarketInit PROVE SettledInv
  OBVIOUS
<1>1. MarketTypeOK
  BY MarketInitTyped
<1>2. \A o \in Offers : offers[o] = NoOffer /\ trades[o] = NoTrades
  BY DEF MarketInit
<1>3. QED
  BY <1>1, <1>2, SMT
     DEF SettledInv, TradesSettleTheOffer, NothingSoldBefore, NoOffer, NoTrades

\* Every step keeps the books of every offer.
LEMMA SettledStep == SettledInv /\ [MarketNext]_marketVars => SettledInv'
<1> SUFFICES ASSUME SettledInv, [MarketNext]_marketVars PROVE SettledInv'
  OBVIOUS
<1> DEFINE Books(of, tr) ==
             /\ tr.shares + of.remaining = of.amount
             /\ tr.payment = of.price * tr.shares
             /\ tr.fee * Denominator <= tr.payment * FeeBps
             /\ (of.remaining = 0) <=> (of.status \in {"absent", "filled"})
             /\ of.status = "absent" => tr = NoTrades
<1>1. MarketTypeOK /\ MarketTypeOK'
  BY MarketStepTyped DEF SettledInv
<1>2. \A o \in Offers : Books(offers[o], trades[o])
  BY DEF SettledInv, TradesSettleTheOffer, NothingSoldBefore
<1>3. SUFFICES \A q \in Offers : Books(offers'[q], trades'[q])
  BY <1>1 DEF SettledInv, TradesSettleTheOffer, NothingSoldBefore
<1>4. ASSUME UNCHANGED <<offers, trades>>
      PROVE  \A q \in Offers : Books(offers'[q], trades'[q])
  BY <1>2, <1>4
<1>5. ASSUME NEW o \in Offers, NEW n \in Shares, NEW p \in Prices,
             CreateOffer(o, n, p)
      PROVE  \A q \in Offers : Books(offers'[q], trades'[q])
  <2>1. n \in Nat \ {0} /\ p \in Nat
    BY DEF Shares
  <2>2. /\ offers'[o] = [status |-> "open", amount |-> n, remaining |-> n,
                         price |-> p, rofrUntil |-> 0]
        /\ trades'[o] = NoTrades
        /\ \A q \in Offers \ {o} :
              offers'[q] = offers[q] /\ trades'[q] = trades[q]
    BY <1>1, <1>2, <1>5 DEF CreateOffer, MarketTypeOK
  <2>3. Books(offers'[o], trades'[o])
    BY <2>1, <2>2, SMT DEF NoTrades
  <2>4. QED
    BY <1>2, <2>2, <2>3
<1>6. ASSUME NEW o \in Offers, CancelOffer(o)
      PROVE  \A q \in Offers : Books(offers'[q], trades'[q])
  <2>1. /\ offers'[o].status = "cancelled"
        /\ offers'[o].remaining = offers[o].remaining
        /\ offers'[o].amount = offers[o].amount
        /\ offers'[o].price = offers[o].price
        /\ \A q \in Offers \ {o} : offers'[q] = offers[q]
    BY <1>1, <1>6, CancelTyped
  <2>2. offers[o].status = "open" /\ trades' = trades
    BY <1>6 DEF CancelOffer, IsOpen
  <2>3. Books(offers'[o], trades'[o])
    BY <1>2, <2>1, <2>2
  <2>4. QED
    BY <1>2, <2>1, <2>2, <2>3
<1>7. ASSUME NEW b \in Wallets, NEW o \in Offers, NEW n \in Shares,
             AcceptOffer(b, o, n)
      PROVE  \A q \in Offers : Books(offers'[q], trades'[q])
  <2> DEFINE payment == PaymentFor(offers[o].price, n)
             fee == FeeFor(FeeBps, payment)
  <2>1. /\ payment \in Nat /\ fee \in Nat
        /\ fee * Denominator <= payment * FeeBps
        /\ payment = offers[o].price * n
        /\ n \in Nat /\ n <= offers[o].remaining
        /\ offers' = [offers EXCEPT ![o] = Fill(o, n)]
        /\ trades' = [trades EXCEPT ![o] =
              [shares |-> trades[o].shares + n,
               payment |-> trades[o].payment + payment,
               fee |-> trades[o].fee + fee]]
        /\ offers[o].status = "open"
    BY <1>1, <1>7, AcceptTyped DEF IsOpen
  <2> HIDE DEF payment, fee
  <2>2. /\ offers[o].amount \in Nat /\ offers[o].remaining \in Nat
        /\ offers[o].price \in Nat
        /\ trades[o].shares \in Nat /\ trades[o].payment \in Nat
        /\ trades[o].fee \in Nat
    BY <1>1 DEF MarketTypeOK, OfferRecord
  <2>3. /\ offers'[o].remaining = offers[o].remaining - n
        /\ offers'[o].amount = offers[o].amount
        /\ offers'[o].price = offers[o].price
        /\ offers'[o].status = IF offers[o].remaining = n
                               THEN "filled" ELSE "open"
        /\ \A q \in Offers \ {o} : offers'[q] = offers[q]
    BY <1>1, <2>1, FillTyped DEF MarketTypeOK
  <2>4. /\ trades'[o].shares = trades[o].shares + n
        /\ trades'[o].payment = trades[o].payment + payment
        /\ trades'[o].fee = trades[o].fee + fee
        /\ \A q \in Offers \ {o} : trades'[q] = trades[q]
    BY <1>1, <2>1 DEF MarketTypeOK
  <2>5. /\ trades[o].payment + payment
             = offers[o].price * (trades[o].shares + n)
        /\ (trades[o].fee + fee) * Denominator
             <= (trades[o].payment + payment) * FeeBps
    BY <1>2, <2>1, <2>2, AddTrade
  <2>6. /\ trades'[o].payment = offers'[o].price * trades'[o].shares
        /\ trades'[o].fee * Denominator <= trades'[o].payment * FeeBps
    BY <2>3, <2>4, <2>5
  <2>7. /\ trades'[o].shares + offers'[o].remaining = offers'[o].amount
        /\ (offers'[o].remaining = 0)
              <=> (offers'[o].status \in {"absent", "filled"})
        /\ offers'[o].status # "absent"
    <3>1. trades[o].shares + offers[o].remaining = offers[o].amount
      BY <1>2
    <3>2. trades'[o].shares + offers'[o].remaining = offers'[o].amount
      BY <2>1, <2>2, <2>3, <2>4, <3>1
    <3>3. (offers'[o].remaining = 0) <=> (offers[o].remaining = n)
      <4>1. \A left \in Nat : n \in Nat => (left - n = 0 <=> left = n)
        OBVIOUS
      <4>2. n \in Nat /\ offers[o].remaining \in Nat
        BY <2>1, <2>2
      <4>3. offers'[o].remaining = offers[o].remaining - n
        BY <2>3
      <4>4. QED
        BY <4>1, <4>2, <4>3
    <3>4. QED
      BY <2>3, <3>2, <3>3
  <2>8. Books(offers'[o], trades'[o])
    BY <2>6, <2>7
  <2>9. QED
    BY <1>2, <2>3, <2>4, <2>8
<1>8. ASSUME NEW s \in Sellers, NEW d \in Delegates, NEW n \in 0 .. Supply,
             ApproveByHand(s, d, n)
      PROVE  UNCHANGED <<offers, trades>>
  BY <1>8 DEF ApproveByHand
<1>9. ASSUME NEW s \in Sellers, RevokeByHand(s)
      PROVE  UNCHANGED <<offers, trades>>
  BY <1>9 DEF RevokeByHand
<1>10. ASSUME NEW s \in Sellers, NEW dst \in Accounts, NEW n \in Shares,
              OutsiderTransfer(s, dst, n)
       PROVE  UNCHANGED <<offers, trades>>
  BY <1>10 DEF OutsiderTransfer
<1>11. ASSUME NEW s \in Sellers, NEW n \in Shares, OutsiderBurn(s, n)
       PROVE  UNCHANGED <<offers, trades>>
  BY <1>11 DEF OutsiderBurn
<1>12. CASE UNCHANGED marketOnlyVars
  BY <1>4, <1>12 DEF marketOnlyVars
<1> HIDE DEF Books
<1>13. QED
  BY <1>4, <1>5, <1>6, <1>7, <1>8, <1>9, <1>10, <1>11, <1>12
     DEF MarketNext, marketVars

\* For any number of offers, fills, prices and hand-made approvals: an offer
\* sells what it offered and no more, for exactly its price, and the platform
\* never takes more than its nominal share.
THEOREM OffersSettle == MarketSpec => []TradesSettleTheOffer
<1>1. SettledInv => TradesSettleTheOffer
  BY DEF SettledInv
<1>2. QED
  BY <1>1, SettledInit, SettledStep, PTL DEF MarketSpec

-----------------------------------------------------------------------------
(* The platform's account. *)

Fees == [o \in Offers |-> trades[o].fee]

\* The fees taken per offer are integers.
LEMMA FeesTyped ==
    ASSUME MarketTypeOK
    PROVE  Fees \in [Offers -> Int] /\ \A o \in Offers : Fees[o] = trades[o].fee
  BY DEF MarketTypeOK, Fees

\* A trade adds its fee to the account and to one offer's history.
LEMMA AcceptKeepsFees ==
    ASSUME IsFiniteSet(Offers), MarketTypeOK, MarketTypeOK', PlatformKeepsTheFees,
           NEW b \in Wallets, NEW o \in Offers, NEW n \in Shares,
           AcceptOffer(b, o, n)
    PROVE  PlatformKeepsTheFees'
<1> DEFINE payment == PaymentFor(offers[o].price, n)
           fee == FeeFor(FeeBps, payment)
<1>1. /\ payment \in Nat /\ fee \in 0 .. payment
      /\ b # Seller[o] /\ Seller[o] \in Wallets
      /\ PayFor(b, Seller[o], payment, fee)
      /\ trades' = [trades EXCEPT ![o] =
            [shares |-> trades[o].shares + n,
             payment |-> trades[o].payment + payment,
             fee |-> trades[o].fee + fee]]
  BY AcceptTyped
<1> HIDE DEF payment, fee
<1>2. cash'[FeeTreasury] = cash[FeeTreasury] + fee
  BY <1>1, PayTyped
<1>3. /\ Fees \in [Offers -> Int] /\ \A q \in Offers : Fees[q] = trades[q].fee
      /\ Fees' \in [Offers -> Int] /\ \A q \in Offers : Fees'[q] = trades'[q].fee
  <2>1. Fees' \in [Offers -> Int] /\ \A q \in Offers : Fees'[q] = trades'[q].fee
    BY DEF MarketTypeOK, Fees
  <2>2. QED
    BY <2>1, FeesTyped
<1>4. /\ trades'[o].fee = trades[o].fee + fee
      /\ \A q \in Offers \ {o} : trades'[q] = trades[q]
  BY <1>1 DEF MarketTypeOK
<1>5. /\ SumFunction(Fees) \in Int
      /\ SumFunction(Fees') = SumFunction(Fees) + (Fees'[o] - Fees[o])
  <2>1. \A q \in Offers \ {o} : Fees'[q] = Fees[q]
    BY <1>3, <1>4
  <2>2. QED
    BY <1>3, <2>1, SumChanges
<1>6. Fees'[o] - Fees[o] = fee
  <2>1. trades[o].fee \in Nat /\ fee \in Int
    BY <1>1 DEF MarketTypeOK
  <2>2. QED
    BY <1>3, <1>4, <2>1
<1>7. cash[FeeTreasury] = SumFunction(Fees)
  BY DEF PlatformKeepsTheFees, Fees
<1>8. QED
  BY <1>2, <1>5, <1>6, <1>7 DEF PlatformKeepsTheFees, Fees

\* The platform starts with no fee.
LEMMA FeesInit ==
    ASSUME IsFiniteSet(Offers), FeeTreasury \notin Wallets, MarketInit
    PROVE  PlatformKeepsTheFees
<1>1. cash[FeeTreasury] = 0
  BY DEF MarketInit, CashAccounts
<1>2. DOMAIN Fees = Offers /\ \A o \in Offers : Fees[o] = 0
  BY DEF MarketInit, NoTrades, Fees
<1>3. SumFunction(Fees) = 0
  BY <1>2, SumZero DEF SumFunction
<1>4. QED
  BY <1>1, <1>3 DEF PlatformKeepsTheFees, Fees

\* Whatever is bought, in any number of parts at any price, the platform's
\* account holds the fees of all trades and nothing else.
THEOREM FeesAddUp ==
    ASSUME IsFiniteSet(Offers), FeeTreasury \notin Wallets
    PROVE  MarketSpec => []PlatformKeepsTheFees
<1>1. MarketTypeOK /\ PlatformKeepsTheFees /\ [MarketNext]_marketVars
         => PlatformKeepsTheFees'
  <2> SUFFICES ASSUME MarketTypeOK, PlatformKeepsTheFees, [MarketNext]_marketVars
               PROVE  PlatformKeepsTheFees'
    OBVIOUS
  <2>1. MarketTypeOK'
    BY MarketStepTyped
  <2>2. ASSUME UNCHANGED <<cash, trades>> PROVE PlatformKeepsTheFees'
    BY <2>2 DEF PlatformKeepsTheFees
  <2>3. ASSUME NEW b \in Wallets, NEW o \in Offers, NEW n \in Shares,
               AcceptOffer(b, o, n)
        PROVE  PlatformKeepsTheFees'
    BY <2>1, <2>3, AcceptKeepsFees
  <2>4. QED
    BY <2>2, <2>3
       DEF MarketNext, marketVars, marketOnlyVars, CreateOffer, CancelOffer,
           ApproveByHand, RevokeByHand, OutsiderTransfer, OutsiderBurn
<1>2. QED
  BY <1>1, FeesInit, MarketTypeCorrect, PTL DEF MarketSpec

-----------------------------------------------------------------------------
(* The delegation of an offer. *)

\* Neither half is inductive alone: that an open offer keeps its delegation
\* needs that something remains of it (the books), so that create_offer finds
\* the account busy; that a closed one has none needs the delegation of an
\* offer to be spent exactly when the offer is filled.
BackedInv ==
    SettledInv /\ UntouchedOfferStaysBacked /\ ClosedOfferHoldsNoDelegation

\* No offer is open at first.
LEMMA BackedInit == MarketInit => BackedInv
  BY SettledInit
     DEF MarketInit, BackedInv, UntouchedOfferStaysBacked,
         ClosedOfferHoldsNoDelegation, IsOpen, NoOffer

\* Every step keeps the delegations and the offers they back together.
LEMMA BackedStep == BackedInv /\ [MarketNext]_marketVars => BackedInv'
<1> SUFFICES ASSUME BackedInv, [MarketNext]_marketVars PROVE BackedInv'
  OBVIOUS
<1> DEFINE Kept(of, d, n, q) ==
             /\ of.status = "open" => d = q /\ n = of.remaining
             /\ of.status \in {"filled", "cancelled"} => d # q
<1>1. MarketTypeOK /\ SettledInv'
  BY SettledStep DEF BackedInv, SettledInv
<1>2. \A q \in Offers \ handled :
         Kept(offers[q], delegate[Seller[q]], delegated[Seller[q]], q)
  BY DEF BackedInv, UntouchedOfferStaysBacked, ClosedOfferHoldsNoDelegation,
         IsOpen
<1>3. \A q \in Offers : offers[q].status = "open" => offers[q].remaining # 0
  BY DEF BackedInv, SettledInv, TradesSettleTheOffer
<1>4. SUFFICES ASSUME NEW q \in Offers \ handled'
               PROVE  Kept(offers'[q], delegate'[Seller[q]],
                           delegated'[Seller[q]], q)
  BY <1>1 DEF BackedInv, UntouchedOfferStaysBacked,
              ClosedOfferHoldsNoDelegation, IsOpen
<1> DEFINE t == Seller[q]
<1>5. t \in Wallets
  OBVIOUS
<1>6. ASSUME UNCHANGED <<offers, delegate, delegated, handled>>
      PROVE  Kept(offers'[q], delegate'[t], delegated'[t], q)
  BY <1>2, <1>6
<1>7. ASSUME NEW o \in Offers, NEW n \in Shares, NEW p \in Prices,
             CreateOffer(o, n, p)
      PROVE  Kept(offers'[q], delegate'[t], delegated'[t], q)
  <2> DEFINE s == Seller[o]
  <2>1. /\ s \in Wallets /\ n \in Nat /\ o \in Delegates
        /\ delegated[s] = 0 /\ SetDelegate(s, o, n)
        /\ handled' = handled
    BY <1>7 DEF CreateOffer, Shares, Delegates
  <2>2. /\ delegate'[s] = o /\ delegated'[s] = n
        /\ \A w \in Wallets \ {s} :
              delegate'[w] = delegate[w] /\ delegated'[w] = delegated[w]
    BY <1>1, <2>1, DelegationTyped
  <2>3. /\ offers'[o].status = "open" /\ offers'[o].remaining = n
        /\ \A r \in Offers \ {o} : offers'[r] = offers[r]
    BY <1>1, <1>7 DEF CreateOffer, MarketTypeOK
  <2>4. Kept(offers[q], delegate[t], delegated[t], q)
    BY <1>2, <2>1
  <2>5. CASE q = o
    BY <2>2, <2>3, <2>5
  <2>6. CASE q # o /\ t = s
    <3>1. offers[q].status # "open"
      BY <1>3, <2>1, <2>4, <2>6
    <3>2. QED
      BY <2>2, <2>3, <2>6, <3>1
  <2>7. CASE q # o /\ t # s
    BY <1>5, <2>2, <2>3, <2>4, <2>7
  <2>8. QED
    BY <2>5, <2>6, <2>7
<1>8. ASSUME NEW o \in Offers, CancelOffer(o)
      PROVE  Kept(offers'[q], delegate'[t], delegated'[t], q)
  <2> DEFINE s == Seller[o]
  <2>1. s \in Wallets /\ handled' = handled
    BY <1>8 DEF CancelOffer
  <2>2. /\ offers'[o].status = "cancelled"
        /\ \A r \in Offers \ {o} : offers'[r] = offers[r]
    BY <1>1, <1>8, CancelTyped
  <2>3. Kept(offers[q], delegate[t], delegated[t], q)
    BY <1>2, <2>1
  <2>4. CASE delegate[s] = o
    <3>1. SetDelegate(s, NoDelegate, 0)
      BY <1>8, <2>4 DEF CancelOffer, ClearDelegate
    <3>2. /\ delegate'[s] = NoDelegate
          /\ \A w \in Wallets \ {s} :
                delegate'[w] = delegate[w] /\ delegated'[w] = delegated[w]
      BY <1>1, <2>1, <3>1, DelegationTyped
    <3>3. NoDelegate # q
      OBVIOUS
    <3>4. CASE q = o
      BY <2>2, <3>2, <3>3, <3>4
    <3>5. CASE q # o /\ t = s
      <4>1. offers[q].status # "open"
        BY <2>3, <2>4, <3>5
      <4>2. QED
        BY <2>2, <3>2, <3>3, <3>5, <4>1
    <3>6. CASE q # o /\ t # s
      BY <1>5, <2>2, <2>3, <3>2, <3>6
    <3>7. QED
      BY <3>4, <3>5, <3>6
  <2>5. CASE delegate[s] # o
    <3>1. UNCHANGED <<delegate, delegated>>
      BY <1>8, <2>5 DEF CancelOffer
    <3>2. QED
      BY <2>2, <2>3, <2>5, <3>1
  <2>6. QED
    BY <2>4, <2>5
<1>9. ASSUME NEW b \in Wallets, NEW o \in Offers, NEW n \in Shares,
             AcceptOffer(b, o, n)
      PROVE  Kept(offers'[q], delegate'[t], delegated'[t], q)
  <2> DEFINE s == Seller[o]
  <2>1. /\ s \in Wallets /\ n <= delegated[s] /\ delegate[s] = o
        /\ n <= offers[o].remaining
        /\ SpendDelegation(s, n)
        /\ offers' = [offers EXCEPT ![o] = Fill(o, n)]
        /\ offers[o].status = "open" /\ handled' = handled
    BY <1>1, <1>9, AcceptTyped DEF IsOpen
  <2>2. /\ delegated'[s] = delegated[s] - n
        /\ delegate'[s] = IF delegated[s] = n THEN NoDelegate ELSE o
        /\ \A w \in Wallets \ {s} :
              delegate'[w] = delegate[w] /\ delegated'[w] = delegated[w]
    BY <1>1, <2>1, SpendTyped
  <2>3. /\ offers'[o].remaining = offers[o].remaining - n
        /\ offers'[o].status = IF offers[o].remaining = n
                               THEN "filled" ELSE "open"
        /\ \A r \in Offers \ {o} : offers'[r] = offers[r]
    BY <1>1, <2>1, FillTyped DEF MarketTypeOK
  <2>4. Kept(offers[q], delegate[t], delegated[t], q)
    BY <1>2, <2>1
  <2>5. CASE q = o
    <3>1. delegated[s] = offers[o].remaining
      BY <2>1, <2>4, <2>5
    <3>2. QED
      BY <2>2, <2>3, <2>5, <3>1
  <2>6. CASE q # o /\ t = s
    <3>1. offers[q].status # "open"
      BY <2>1, <2>4, <2>6
    <3>2. delegate'[s] # q
      BY <2>2, <2>6
    <3>3. QED
      BY <2>3, <2>6, <3>1, <3>2
  <2>7. CASE q # o /\ t # s
    BY <1>5, <2>2, <2>3, <2>4, <2>7
  <2>8. QED
    BY <2>5, <2>6, <2>7
<1>10. ASSUME NEW s \in Sellers, NEW d \in Delegates \cup {NoDelegate},
              NEW n \in Nat, SetDelegate(s, d, n),
              offers' = offers, handled' = handled \cup OffersOf(s)
       PROVE  Kept(offers'[q], delegate'[t], delegated'[t], q)
  <2>1. s \in Wallets
    BY DEF Sellers
  <2>2. \A w \in Wallets \ {s} :
           delegate'[w] = delegate[w] /\ delegated'[w] = delegated[w]
    BY <1>1, <1>10, <2>1, DelegationTyped
  <2>3. CASE t = s
    BY <1>10, <2>3 DEF OffersOf
  <2>4. CASE t # s
    BY <1>2, <1>5, <1>10, <2>2, <2>4
  <2>5. QED
    BY <2>3, <2>4
<1>11. ASSUME NEW s \in Sellers, NEW d \in Delegates, NEW n \in 0 .. Supply,
              ApproveByHand(s, d, n)
       PROVE  Kept(offers'[q], delegate'[t], delegated'[t], q)
  BY <1>10, <1>11 DEF ApproveByHand
<1>12. ASSUME NEW s \in Sellers, RevokeByHand(s)
       PROVE  Kept(offers'[q], delegate'[t], delegated'[t], q)
  BY <1>10, <1>12 DEF RevokeByHand, ClearDelegate
<1>13. ASSUME NEW s \in Sellers, NEW n \in Shares,
              n <= delegated[s], delegate[s] = Outsider,
              SpendDelegation(s, n), offers' = offers, handled' = handled
       PROVE  Kept(offers'[q], delegate'[t], delegated'[t], q)
  <2>1. s \in Wallets
    BY DEF Sellers
  <2>2. /\ delegate'[s] = IF delegated[s] = n THEN NoDelegate ELSE Outsider
        /\ \A w \in Wallets \ {s} :
              delegate'[w] = delegate[w] /\ delegated'[w] = delegated[w]
    BY <1>1, <1>13, <2>1, SpendTyped
  <2>3. q # Outsider /\ q # NoDelegate
    OBVIOUS
  <2>4. CASE t = s
    BY <1>2, <1>13, <2>2, <2>3, <2>4
  <2>5. CASE t # s
    BY <1>2, <1>5, <1>13, <2>2, <2>5
  <2>6. QED
    BY <2>4, <2>5
<1>14. ASSUME NEW s \in Sellers, NEW dst \in Accounts, NEW n \in Shares,
              OutsiderTransfer(s, dst, n)
       PROVE  Kept(offers'[q], delegate'[t], delegated'[t], q)
  BY <1>13, <1>14 DEF OutsiderTransfer, DelegateTransfer
<1>15. ASSUME NEW s \in Sellers, NEW n \in Shares, OutsiderBurn(s, n)
       PROVE  Kept(offers'[q], delegate'[t], delegated'[t], q)
  BY <1>13, <1>15 DEF OutsiderBurn
<1>16. CASE UNCHANGED marketOnlyVars
  BY <1>6, <1>16 DEF marketOnlyVars
<1> HIDE DEF Kept
<1>17. QED
  BY <1>7, <1>8, <1>9, <1>11, <1>12, <1>14, <1>15, <1>16
     DEF MarketNext, marketVars

\* An offer nobody touches at the token program keeps its delegation, for any
\* number of offers by the same seller.
THEOREM OffersStayBacked == MarketSpec => []UntouchedOfferStaysBacked
<1>1. BackedInv => UntouchedOfferStaysBacked
  BY DEF BackedInv
<1>2. QED
  BY <1>1, BackedInit, BackedStep, PTL DEF MarketSpec

\* And one that is filled or cancelled leaves none behind.
THEOREM ClosedOffersRelease == MarketSpec => []ClosedOfferHoldsNoDelegation
<1>1. BackedInv => ClosedOfferHoldsNoDelegation
  BY DEF BackedInv
<1>2. QED
  BY <1>1, BackedInit, BackedStep, PTL DEF MarketSpec

-----------------------------------------------------------------------------
(* What a step of the market may never do. *)

\* A step opens an absent offer or lowers the remainder of an open one.
LEMMA StepKeepsLifecycle ==
    MarketTypeOK /\ [MarketNext]_marketVars =>
        \A o \in Offers :
          offers'[o] # offers[o] =>
              \/ offers[o].status = "absent" /\ offers'[o].status = "open"
              \/ /\ IsOpen(o)
                 /\ offers'[o].amount = offers[o].amount
                 /\ offers'[o].price = offers[o].price
                 /\ offers'[o].remaining <= offers[o].remaining
<1> SUFFICES ASSUME MarketTypeOK, [MarketNext]_marketVars,
                    NEW q \in Offers, offers'[q] # offers[q]
             PROVE  \/ offers[q].status = "absent" /\ offers'[q].status = "open"
                    \/ /\ IsOpen(q)
                       /\ offers'[q].amount = offers[q].amount
                       /\ offers'[q].price = offers[q].price
                       /\ offers'[q].remaining <= offers[q].remaining
  OBVIOUS
<1>1. offers[q].remaining \in Nat
  BY DEF MarketTypeOK, OfferRecord
<1>2. ASSUME NEW o \in Offers, NEW n \in Shares, NEW p \in Prices,
             CreateOffer(o, n, p)
      PROVE  offers[q].status = "absent" /\ offers'[q].status = "open"
  BY <1>2 DEF CreateOffer, MarketTypeOK
<1>3. ASSUME NEW o \in Offers, CancelOffer(o)
      PROVE  /\ IsOpen(q)
             /\ offers'[q].amount = offers[q].amount
             /\ offers'[q].price = offers[q].price
             /\ offers'[q].remaining <= offers[q].remaining
  <2>1. q = o
    BY <1>3, CancelTyped
  <2>2. IsOpen(q)
    BY <1>3, <2>1 DEF CancelOffer
  <2>3. QED
    BY <1>1, <1>3, <2>1, <2>2, CancelTyped
<1>4. ASSUME NEW b \in Wallets, NEW o \in Offers, NEW n \in Shares,
             AcceptOffer(b, o, n)
      PROVE  /\ IsOpen(q)
             /\ offers'[q].amount = offers[q].amount
             /\ offers'[q].price = offers[q].price
             /\ offers'[q].remaining <= offers[q].remaining
  <2>1. /\ offers' = [offers EXCEPT ![o] = Fill(o, n)]
        /\ n \in Nat /\ n <= offers[o].remaining /\ IsOpen(o)
    BY <1>4, AcceptTyped
  <2>2. q = o /\ offers'[q] = Fill(o, n)
    BY <2>1 DEF MarketTypeOK
  <2>3. QED
    BY <1>1, <2>1, <2>2, FillTyped
<1>5. ASSUME NEW s \in Sellers, NEW d \in Delegates, NEW n \in 0 .. Supply,
             ApproveByHand(s, d, n)
      PROVE  FALSE
  BY <1>5 DEF ApproveByHand
<1>6. ASSUME NEW s \in Sellers, RevokeByHand(s)
      PROVE  FALSE
  BY <1>6 DEF RevokeByHand
<1>7. ASSUME NEW s \in Sellers, NEW dst \in Accounts, NEW n \in Shares,
             OutsiderTransfer(s, dst, n)
      PROVE  FALSE
  BY <1>7 DEF OutsiderTransfer
<1>8. ASSUME NEW s \in Sellers, NEW n \in Shares, OutsiderBurn(s, n)
      PROVE  FALSE
  BY <1>8 DEF OutsiderBurn
<1>9. ~ UNCHANGED marketOnlyVars
  BY DEF marketOnlyVars
<1>10. QED
  BY <1>2, <1>3, <1>4, <1>5, <1>6, <1>7, <1>8, <1>9
     DEF MarketNext, marketVars

\* A closed offer is closed for good, and an open one only shrinks.
THEOREM OffersOnlyShrink == MarketSpec => OfferLifecycle
  BY MarketTypeCorrect, StepKeepsLifecycle, PTL DEF MarketSpec, OfferLifecycle

\* One trade: what each account gains and loses.
LEMMA TradePays ==
    ASSUME MarketTypeOK, NEW b \in Wallets, NEW o \in Offers, NEW n \in Shares,
           AcceptOffer(b, o, n)
    PROVE  LET s == Seller[o]
               m == offers[o].remaining - offers'[o].remaining
               paid == cash[b] - cash'[b]
           IN  /\ IsOpen(o)
               /\ m > 0
               /\ balance'[s] = balance[s] - m
               /\ balance'[b] = balance[b] + m
               /\ paid = m * offers[o].price
               /\ (cash'[s] - cash[s]) + (cash'[FeeTreasury] - cash[FeeTreasury])
                     = paid
               /\ \A a \in CashAccounts \ {s, b, FeeTreasury} :
                     cash'[a] = cash[a]
<1> DEFINE s == Seller[o]
           payment == PaymentFor(offers[o].price, n)
           fee == FeeFor(FeeBps, payment)
<1>1. /\ payment \in Nat /\ fee \in 0 .. payment
      /\ payment = offers[o].price * n
      /\ n \in Nat \ {0} /\ n <= offers[o].remaining
      /\ b # s /\ s \in Wallets
      /\ PayFor(b, s, payment, fee)
      /\ offers' = [offers EXCEPT ![o] = Fill(o, n)]
      /\ IsOpen(o)
  BY AcceptTyped
<1>2. /\ balance'[s] = balance[s] - n
      /\ balance'[b] = balance[b] + n
  BY <1>1 DEF AcceptOffer, DelegateTransfer, Transfer, MoveShares, MarketTypeOK, TypeOK
<1>3. offers[o].remaining \in Nat /\ offers[o].price \in Nat
  BY DEF MarketTypeOK, OfferRecord
<1>4. offers[o].remaining - offers'[o].remaining = n
  BY <1>1, <1>3, FillTyped DEF MarketTypeOK
<1>5. payment = n * offers[o].price
  BY <1>1, <1>3, SMT
<1> HIDE DEF payment, fee
<1>6. /\ cash'[b] = cash[b] - payment
      /\ cash'[s] = cash[s] + (payment - fee)
      /\ cash'[FeeTreasury] = cash[FeeTreasury] + fee
      /\ \A a \in CashAccounts \ {b, s, FeeTreasury} : cash'[a] = cash[a]
  BY <1>1, PayTyped
<1>7. /\ cash[b] \in Nat /\ cash[s] \in Nat /\ cash[FeeTreasury] \in Nat
  BY <1>1 DEF MarketTypeOK, CashAccounts
<1>8. cash[b] - cash'[b] = payment
  BY <1>1, <1>6, <1>7
<1>9. (cash'[s] - cash[s]) + (cash'[FeeTreasury] - cash[FeeTreasury]) = payment
  BY <1>1, <1>6, <1>7
<1>10. QED
  BY <1>1, <1>2, <1>4, <1>5, <1>6, <1>8, <1>9

\* Stablecoin moves in acceptances only, against the shares they deliver.
LEMMA StepPays ==
    MarketTypeOK /\ [MarketNext]_marketVars =>
      (cash' # cash =>
          \E o \in Offers, b \in Wallets :
              LET s == Seller[o]
                  n == offers[o].remaining - offers'[o].remaining
                  paid == cash[b] - cash'[b]
              IN  /\ IsOpen(o)
                  /\ n > 0
                  /\ balance'[s] = balance[s] - n
                  /\ balance'[b] = balance[b] + n
                  /\ paid = n * offers[o].price
                  /\ (cash'[s] - cash[s]) + (cash'[FeeTreasury] - cash[FeeTreasury])
                        = paid
                  /\ \A a \in CashAccounts \ {s, b, FeeTreasury} :
                        cash'[a] = cash[a])
<1> SUFFICES ASSUME MarketTypeOK, [MarketNext]_marketVars, cash' # cash
             PROVE  \E b \in Wallets, o \in Offers, n \in Shares :
                        AcceptOffer(b, o, n)
  BY TradePays
<1> QED
  BY DEF MarketNext, marketVars, marketOnlyVars, CreateOffer, CancelOffer,
         ApproveByHand, RevokeByHand, OutsiderTransfer, OutsiderBurn

\* Whoever buys from whomever at whatever price and fee: shares against
\* payment, in one step, and no stablecoin appears or disappears.
THEOREM SharesAgainstPayment == MarketSpec => DeliveryVersusPayment
  BY MarketTypeCorrect, StepPays, PTL DEF MarketSpec, DeliveryVersusPayment

-----------------------------------------------------------------------------
(* The terms of an offer. *)

\* No offer has a right of first refusal running, and the payment for all of
\* it fits a u64.
TermsHold ==
    \A o \in Offers : /\ offers[o].rofrUntil = 0
                      /\ offers[o].amount * offers[o].price <= U64Max

\* No offer has terms at first.
LEMMA TermsInit == MarketInit => TermsHold
<1> SUFFICES ASSUME MarketInit, NEW o \in Offers
             PROVE  /\ offers[o].rofrUntil = 0
                    /\ offers[o].amount * offers[o].price <= U64Max
  BY DEF TermsHold
<1>1. offers[o].rofrUntil = 0 /\ offers[o].amount = 0 /\ offers[o].price = 0
  BY DEF MarketInit, NoOffer
<1>2. QED
  BY <1>1

\* A published offer is never unpublished, and its terms never change.
LEMMA TermsStep ==
    ASSUME MarketTypeOK, [MarketNext]_marketVars, NEW q \in Offers
    PROVE  /\ offers[q].status # "absent" =>
                 /\ offers'[q].status # "absent"
                 /\ offers'[q].price = offers[q].price
           /\ TermsHold => /\ offers'[q].rofrUntil = 0
                           /\ offers'[q].amount * offers'[q].price <= U64Max
<1> DEFINE Kept ==
              /\ offers[q].status # "absent" =>
                    /\ offers'[q].status # "absent"
                    /\ offers'[q].price = offers[q].price
              /\ TermsHold => /\ offers'[q].rofrUntil = 0
                              /\ offers'[q].amount * offers'[q].price <= U64Max
<1> SUFFICES Kept
  OBVIOUS
<1>1. ASSUME offers'[q] = offers[q] PROVE Kept
  BY <1>1 DEF TermsHold
<1>2. ASSUME NEW o \in Offers, NEW n \in Shares, NEW p \in Prices,
             CreateOffer(o, n, p), offers'[q] # offers[q]
      PROVE  Kept
  <2>1. /\ offers[q].status = "absent"
        /\ offers'[q] = [status |-> "open", amount |-> n, remaining |-> n,
                         price |-> p, rofrUntil |-> 0]
        /\ n * p <= U64Max
    BY <1>2 DEF CreateOffer, MarketTypeOK, ValidTerms
  <2>2. QED
    BY <2>1
<1>3. ASSUME NEW o \in Offers, CancelOffer(o), offers'[q] # offers[q]
      PROVE  Kept
  <2>1. /\ q = o /\ offers'[q].status = "cancelled"
        /\ offers'[q].amount = offers[q].amount
        /\ offers'[q].price = offers[q].price
    BY <1>3, CancelTyped
  <2>2. offers'[q].rofrUntil = offers[q].rofrUntil
    <3>1. offers[q] \in OfferRecord
      BY DEF MarketTypeOK
    <3>2. offers'[q] = [offers[q] EXCEPT !.status = "cancelled"]
      BY <1>3, <2>1 DEF CancelOffer, MarketTypeOK
    <3>3. QED
      BY <3>1, <3>2 DEF OfferRecord
  <2>3. QED
    BY <2>1, <2>2 DEF TermsHold
<1>4. ASSUME NEW b \in Wallets, NEW o \in Offers, NEW n \in Shares,
             AcceptOffer(b, o, n), offers'[q] # offers[q]
      PROVE  Kept
  <2>1. /\ offers' = [offers EXCEPT ![o] = Fill(o, n)]
        /\ n <= offers[o].remaining /\ offers[o].status = "open"
    BY <1>4, AcceptTyped DEF IsOpen
  <2>2. q = o /\ offers'[q] = Fill(o, n)
    BY <1>4, <2>1 DEF MarketTypeOK
  <2>3. Fill(o, n).rofrUntil = offers[o].rofrUntil
    BY DEF Fill
  <2>4. QED
    BY <2>1, <2>2, <2>3, FillTyped DEF TermsHold
<1>5. \/ UNCHANGED offers
      \/ \E o \in Offers, n \in Shares, p \in Prices : CreateOffer(o, n, p)
      \/ \E o \in Offers : CancelOffer(o)
      \/ \E b \in Wallets, o \in Offers, n \in Shares : AcceptOffer(b, o, n)
  BY DEF MarketNext, marketVars, marketOnlyVars, ApproveByHand, RevokeByHand,
         OutsiderTransfer, OutsiderBurn
<1> HIDE DEF Kept
<1>6. QED
  BY <1>1, <1>2, <1>3, <1>4, <1>5
============================================================================
