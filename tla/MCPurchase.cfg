\* 2 shares at 20 are more than the buyer has, at 15 they are not, and a fee of
\* a tenth rounds on one of them.  Two policies: the first and another one.
CONSTANTS
    seller = seller
    Wallets = {seller, buyer}
    Buyer = buyer
    MaxTries = 1
    Treasury = treasury
    Keys = {k1, k2}
    NoKey = noKey
    Supply = 2
    Schedules <- MCSchedules
    Expiries = {1}
    MaxTime = 1
    MaxVersion = 2
    U64Max = 50
    Denominator = 10000
    Offers = {o1}
    Seller <- MCSeller
    Prices = {15, 20}
    FeeBps = 1000
    FeeTreasury = feeTreasury
    Cash = 35
    NoDelegate = noDelegate
    Outsider = outsider
SYMMETRY Symmetry
SPECIFICATION PurchaseSpec
INVARIANTS
    VerdictIsTrue
    JournalIsTheLedger
    StorefrontIsTheNetwork
PROPERTY ImplementsShareToken
