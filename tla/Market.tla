------------------------------- MODULE Market ------------------------------
(***************************************************************************)
(* The secondary market of one share token: offers to sell, the token      *)
(* account's delegation an offer lives on, and payment in the platform's   *)
(* stablecoin.  ShareToken's transactions go on around it, and so does     *)
(* whatever a seller does with the token program directly: approve another *)
(* delegate, approve an offer again, revoke.                               *)
(***************************************************************************)
EXTENDS ShareToken, Pricing

CONSTANTS
    Offers,       \* offer addresses (mint, seller, offer_id)
    Seller,       \* the wallet whose seed an offer's address has
    Prices,       \* price_per_unit values a seller may enter
    FeeBps,       \* PlatformConfig: fee_bps, set once by init_platform
    FeeTreasury,  \* PlatformConfig: fee_treasury, a stablecoin account
    Cash,         \* stablecoin each wallet starts with
    NoDelegate,
    Outsider      \* a delegate that is no offer: another protocol

ASSUME MarketAssumption ==
    /\ Seller \in [Offers -> Wallets]
    /\ Prices \subseteq Nat
    /\ FeeBps \in Nat /\ ValidFeeBps(FeeBps)
    /\ Cash \in Nat
    /\ NoDelegate \notin Offers
    /\ Outsider \notin Offers \cup {NoDelegate}

VARIABLES
    offers,     \* Offer account per address; status "absent" before init
    delegate,   \* Token-2022: delegate of each wallet's share account
    delegated,  \* Token-2022: delegated_amount of each share account
    cash,       \* stablecoin accounts: one per wallet, and FeeTreasury
    trades,     \* per offer, the sum of its OfferAccepted events (history)
    handled     \* offers whose seller has since used approve or revoke
                \* directly (history)

marketOnlyVars == <<offers, delegate, delegated, cash, trades, handled>>
marketVars == <<shareVars, marketOnlyVars>>

-----------------------------------------------------------------------------
CashAccounts == Wallets \cup {FeeTreasury}
Delegates == Offers \cup {Outsider}

\* The wallets whose delegation can matter to an offer; nobody else's is used.
Sellers == {Seller[o] : o \in Offers}

OfferStatuses == {"absent", "open", "filled", "cancelled"}
OfferRecord == [status : OfferStatuses, amount : Nat, remaining : Nat,
                price : Nat, rofrUntil : Nat]
NoOffer == [status |-> "absent", amount |-> 0, remaining |-> 0,
            price |-> 0, rofrUntil |-> 0]

NoTrades == [shares |-> 0, payment |-> 0, fee |-> 0]

IsOpen(o) == offers[o].status = "open"
InRofrWindow(o) == IsOpen(o) /\ offers[o].rofrUntil > now

\* Offers of s that exist: what approving or revoking by hand interferes with.
OffersOf(s) == {o \in Offers : Seller[o] = s /\ offers[o].status # "absent"}

MarketInit ==
    /\ Init
    /\ offers = [o \in Offers |-> NoOffer]
    /\ delegate = [w \in Wallets |-> NoDelegate]
    /\ delegated = [w \in Wallets |-> 0]
    /\ cash = [a \in CashAccounts |-> IF a \in Wallets THEN Cash ELSE 0]
    /\ trades = [o \in Offers |-> NoTrades]
    /\ handled = {}

(***************************************************************************)
(* Token-2022 on a share account: approve replaces whatever delegation     *)
(* there is, revoke clears it, and a transfer by the delegate uses it up,  *)
(* clearing it when nothing is left.                                       *)
(***************************************************************************)
SetDelegate(s, d, n) ==
    /\ delegate' = [delegate EXCEPT ![s] = d]
    /\ delegated' = [delegated EXCEPT ![s] = n]

ClearDelegate(s) == SetDelegate(s, NoDelegate, 0)

SpendDelegation(s, n) ==
    IF delegated[s] = n
    THEN ClearDelegate(s)
    ELSE SetDelegate(s, delegate[s], delegated[s] - n)

\* A slip: a transfer that does not call the mint's hook.
DelegateTransferUnhooked(s, dst, n) ==
    /\ n <= delegated[s]
    /\ MoveShares(s, dst, n)
    /\ SpendDelegation(s, n)

\* transfer_checked signed by the delegate.
DelegateTransfer(s, dst, n) ==
    /\ n <= delegated[s]
    /\ Transfer(s, dst, n)
    /\ SpendDelegation(s, n)

-----------------------------------------------------------------------------
\* Slips: a live delegation replaced, as approve alone would; the address of a
\* closed offer used again, as init_if_needed would.
CreateOfferReplacing(o, amount, price) ==
    LET s == Seller[o] IN
    /\ offers[o].status = "absent"
    /\ ValidTerms(amount, price)
    /\ amount <= balance[s]
    /\ SetDelegate(s, o, amount)
    /\ offers' = [offers EXCEPT ![o] =
          [status |-> "open", amount |-> amount, remaining |-> amount,
           price |-> price, rofrUntil |-> 0]]
    /\ UNCHANGED <<shareVars, cash, trades, handled>>

CreateOfferAgain(o, amount, price) ==
    LET s == Seller[o] IN
    /\ ~ IsOpen(o)
    /\ ValidTerms(amount, price)
    /\ amount <= balance[s]
    /\ delegated[s] = 0
    /\ SetDelegate(s, o, amount)
    /\ offers' = [offers EXCEPT ![o] =
          [status |-> "open", amount |-> amount, remaining |-> amount,
           price |-> price, rofrUntil |-> 0]]
    /\ UNCHANGED <<shareVars, cash, trades, handled>>

\* create_offer.  The address is never used twice (init).  The whole balance
\* may be offered, its locked part too; the delegation must be free.
CreateOffer(o, amount, price) ==
    LET s == Seller[o] IN
    /\ offers[o].status = "absent"
    /\ ValidTerms(amount, price)
    /\ amount <= balance[s]
    /\ delegated[s] = 0
    /\ SetDelegate(s, o, amount)
    /\ offers' = [offers EXCEPT ![o] =
          [status |-> "open", amount |-> amount, remaining |-> amount,
           price |-> price, rofrUntil |-> 0]]
    /\ UNCHANGED <<shareVars, cash, trades, handled>>

\* Slips: the seller's revoke takes whatever delegation there is; the
\* delegation is left behind.
CancelOfferRevokingAny(o) ==
    /\ IsOpen(o)
    /\ ClearDelegate(Seller[o])
    /\ offers' = [offers EXCEPT ![o].status = "cancelled"]
    /\ UNCHANGED <<shareVars, cash, trades, handled>>

CancelOfferKeepingDelegate(o) ==
    /\ IsOpen(o)
    /\ offers' = [offers EXCEPT ![o].status = "cancelled"]
    /\ UNCHANGED <<shareVars, delegate, delegated, cash, trades, handled>>

\* cancel_offer, by the seller: only the offer's own delegation is revoked.
CancelOffer(o) ==
    LET s == Seller[o] IN
    /\ IsOpen(o)
    /\ IF delegate[s] = o
       THEN ClearDelegate(s)
       ELSE UNCHANGED <<delegate, delegated>>
    /\ offers' = [offers EXCEPT ![o].status = "cancelled"]
    /\ UNCHANGED <<shareVars, cash, trades, handled>>

\* Slips: the fee added to what the buyer pays; not collected; the buyer's
\* balance not compared.
PayForOnTop(buyer, seller, payment, fee) ==
    /\ buyer # FeeTreasury
    /\ seller # FeeTreasury
    /\ payment + fee <= cash[buyer]
    /\ cash' = [cash EXCEPT ![buyer] = @ - (payment + fee),
                            ![seller] = @ + payment,
                            ![FeeTreasury] = @ + fee]

PayForFeeless(buyer, seller, payment, fee) ==
    /\ payment <= cash[buyer]
    /\ cash' = [cash EXCEPT ![buyer] = @ - payment, ![seller] = @ + payment]

PayForUnfunded(buyer, seller, payment, fee) ==
    cash' = [cash EXCEPT ![buyer] = @ - payment,
                         ![seller] = @ + (payment - fee),
                         ![FeeTreasury] = @ + fee]

\* Payment of one trade: the buyer's account loses all of it, the seller's
\* gains it less the fee, the platform's gains the fee.  All three accounts
\* are mutable in one instruction, so no two of them may be the same one.
PayFor(buyer, seller, payment, fee) ==
    /\ buyer # FeeTreasury
    /\ seller # FeeTreasury
    /\ payment <= cash[buyer]
    /\ cash' = [cash EXCEPT ![buyer] = @ - payment,
                            ![seller] = @ + (payment - fee),
                            ![FeeTreasury] = @ + fee]

\* The seller's account still backs the offer (else OfferStale).
Backed(o, n) ==
    /\ delegate[Seller[o]] = o
    /\ n <= delegated[Seller[o]]
    /\ n <= balance[Seller[o]]

\* Remaining falls; the offer is filled with the last share.
Fill(o, n) ==
    [status |-> IF offers[o].remaining = n THEN "filled" ELSE offers[o].status,
     amount |-> offers[o].amount,
     remaining |-> offers[o].remaining - n,
     price |-> offers[o].price,
     rofrUntil |-> offers[o].rofrUntil]

RecordTrade(o, n, payment, fee) ==
    trades' = [trades EXCEPT ![o] =
        [shares |-> @.shares + n,
         payment |-> @.payment + payment,
         fee |-> @.fee + fee]]

\* accept_offer: the three transfers, the delegation and the offer, or none
\* of it.  The shares go through the hook like any others.
AcceptOffer(buyer, o, n) ==
    LET s == Seller[o]
        payment == PaymentFor(offers[o].price, n)
        fee == FeeFor(FeeBps, payment)
    IN  /\ IsOpen(o)
        /\ ~ InRofrWindow(o)
        /\ n <= offers[o].remaining
        /\ payment <= U64Max
        /\ Backed(o, n)
        /\ DelegateTransfer(s, buyer, n)
        /\ PayFor(buyer, s, payment, fee)
        /\ offers' = [offers EXCEPT ![o] = Fill(o, n)]
        /\ RecordTrade(o, n, payment, fee)
        /\ UNCHANGED <<now, registryVars, grant, burned, handled>>

-----------------------------------------------------------------------------
\* The seller at the token program, without the platform.
ApproveByHand(s, d, n) ==
    /\ SetDelegate(s, d, n)
    /\ handled' = handled \cup OffersOf(s)
    /\ UNCHANGED <<shareVars, offers, cash, trades>>

RevokeByHand(s) ==
    /\ ClearDelegate(s)
    /\ handled' = handled \cup OffersOf(s)
    /\ UNCHANGED <<shareVars, offers, cash, trades>>

\* A delegate that is no offer moves the shares entrusted to it.
OutsiderTransfer(s, dst, n) ==
    /\ delegate[s] = Outsider
    /\ DelegateTransfer(s, dst, n)
    /\ UNCHANGED <<now, registryVars, grant, burned,
                   offers, cash, trades, handled>>

\* A delegate may burn them as well.
OutsiderBurn(s, n) ==
    /\ delegate[s] = Outsider
    /\ n <= delegated[s]
    /\ HolderBurn(s, n)
    /\ SpendDelegation(s, n)
    /\ UNCHANGED <<offers, cash, trades, handled>>

MarketNext ==
    \/ Next /\ UNCHANGED marketOnlyVars
    \/ \E o \in Offers, n \in Shares, p \in Prices : CreateOffer(o, n, p)
    \/ \E o \in Offers : CancelOffer(o)
    \/ \E b \in Wallets, o \in Offers, n \in Shares : AcceptOffer(b, o, n)
    \/ \E s \in Sellers, d \in Delegates, n \in 0 .. Supply :
          ApproveByHand(s, d, n)
    \/ \E s \in Sellers : RevokeByHand(s)
    \/ \E s \in Sellers, dst \in Accounts, n \in Shares :
          OutsiderTransfer(s, dst, n)
    \/ \E s \in Sellers, n \in Shares : OutsiderBurn(s, n)

MarketSpec == MarketInit /\ [][MarketNext]_marketVars

-----------------------------------------------------------------------------
MarketTypeOK ==
    /\ TypeOK
    /\ offers \in [Offers -> OfferRecord]
    /\ delegate \in [Wallets -> Delegates \cup {NoDelegate}]
    /\ delegated \in [Wallets -> Nat]
    /\ cash \in [CashAccounts -> Nat]
    /\ trades \in [Offers -> [shares : Nat, payment : Nat, fee : Nat]]
    /\ handled \in SUBSET Offers

\* However an offer is bought, in how many parts and by whom, and whatever the
\* seller approves in between: it sells no more than it offered, it is filled
\* exactly when nothing remains, the payments add up to the price with no
\* rounding left over (offer.rs:32-34), and the fees to no more than the
\* platform's nominal share (platform_config.rs:43-46).
TradesSettleTheOffer ==
    \A o \in Offers :
        /\ trades[o].shares + offers[o].remaining = offers[o].amount
        /\ trades[o].payment = offers[o].price * trades[o].shares
        /\ trades[o].fee * Denominator <= trades[o].payment * FeeBps
        /\ (offers[o].remaining = 0) <=> (offers[o].status \in {"absent", "filled"})

\* The platform's account holds the fees of all trades and nothing else: the
\* stablecoin of three accounts is handed round without the fee being paid
\* twice or from somebody else's share (accept_offer.rs).
PlatformKeepsTheFees ==
    cash[FeeTreasury] = SumFunction([o \in Offers |-> trades[o].fee])

\* An offer its seller leaves alone at the token program stays executable as
\* far as the delegation goes: no other offer of the same seller, opened,
\* bought or cancelled, takes the delegation away or eats into it
\* (create_offer.rs:72-76, cancel_offer.rs:38-49).
UntouchedOfferStaysBacked ==
    \A o \in Offers \ handled :
        IsOpen(o) =>
            /\ delegate[Seller[o]] = o
            /\ delegated[Seller[o]] = offers[o].remaining

\* A filled or cancelled offer the seller leaves alone holds no delegation,
\* so the seller can always publish the next one (create_offer.rs:74-75).
ClosedOfferHoldsNoDelegation ==
    \A o \in Offers \ handled :
        offers[o].status \in {"filled", "cancelled"} => delegate[Seller[o]] # o

\* The life of an offer: its terms never change, what remains only falls, and
\* neither a filled nor a cancelled offer is ever bought or published again,
\* with whatever delegation the seller hands it.
OfferLifecycle ==
    [][\A o \in Offers :
          offers'[o] # offers[o] =>
              \/ offers[o].status = "absent" /\ offers'[o].status = "open"
              \/ /\ IsOpen(o)
                 /\ offers'[o].amount = offers[o].amount
                 /\ offers'[o].price = offers[o].price
                 /\ offers'[o].remaining <= offers[o].remaining]_marketVars

\* Delivery against payment (SC-006): stablecoin moves only together with the
\* shares it pays for, at the price of an open offer, and the buyer's account
\* loses exactly what the seller's and the platform's gain.
DeliveryVersusPayment ==
    [][cash' # cash =>
          \E o \in Offers, b \in Wallets :
              LET s == Seller[o]
                  n == offers[o].remaining - offers'[o].remaining
                  paid == cash[b] - cash'[b]
              IN  /\ IsOpen(o)
                  /\ n > 0
                  /\ balance'[s] = balance[s] - n
                  /\ balance'[b] = balance[b] + n
                  /\ paid = n * offers[o].price
                  /\ (cash'[s] - cash[s]) + (cash'[FeeTreasury] - cash[FeeTreasury])
                        = paid
                  /\ \A a \in CashAccounts \ {s, b, FeeTreasury} :
                        cash'[a] = cash[a]]_marketVars

\* With the market on top, the token is still the ShareToken of its own
\* module: a trade is a transfer the seller could have made alone, under the
\* same hook, so everything shown of ShareToken holds here.
ImplementsShareToken == Spec
============================================================================
