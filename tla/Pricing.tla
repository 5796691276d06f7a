------------------------------ MODULE Pricing ------------------------------
(***************************************************************************)
(* What an offer costs and what the platform keeps of it:                  *)
(* programs/caprail/src/state/{offer,platform_config}.rs, with the copies  *)
(* packages/chain/src/tx/{offers,platform}.ts makes for the quote.         *)
(***************************************************************************)
EXTENDS Integers

CONSTANTS
    U64Max,      \* the largest u64; small in the runs, so that it bites
    Denominator  \* BPS_DENOMINATOR, 10 000: hundredths of a percent

ASSUME PricingAssumption ==
    /\ U64Max \in Nat
    /\ Denominator \in Nat \ {0}

\* FEE_BPS_MAX is a tenth of the denominator (1000 of 10 000).
FeeBpsMax == Denominator \div 10

ValidFeeBps(bps) == bps <= FeeBpsMax

\* Offer::validate_terms: something is offered, at a price, and the payment
\* for all of it fits a u64 (checked_mul).
ValidTerms(amount, price) ==
    /\ amount > 0
    /\ price > 0
    /\ amount * price <= U64Max

\* Offer::payment_for, whose answer is None above U64Max.
PaymentFor(price, n) == n * price

\* A slip: the fee rounded up instead of down.
FeeRoundedUp(bps, payment) ==
    (payment * bps + Denominator - 1) \div Denominator

\* PlatformConfig::fee_for and platformFee: rounded down, in u128 (bigint in
\* the quote), so the product never wraps.
FeeFor(bps, payment) == (payment * bps) \div Denominator
============================================================================
