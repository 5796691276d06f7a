\* The market alone: nobody is admitted or granted anything and the clock
\* stands still, so an open policy lets shares move and a closed one does not.
\* Supply 3 gives fills in one, two and three parts; at 15 the fee rounds
\* differently for each, and 3 shares at 20 do not fit U64Max.
CONSTANTS
    w1 = w1
    Wallets = {w1, w2}
    Treasury = treasury
    Keys = {k1, k2}
    NoKey = noKey
    Supply = 3
    Schedules = {}
    Expiries = {}
    MaxTime = 0
    MaxVersion = 1
    U64Max = 50
    Denominator = 10000
    Offers = {o1, o2}
    Seller <- MCSeller
    Prices = {15, 20}
    FeeBps = 1000
    FeeTreasury = feeTreasury
    Cash = 45
    NoDelegate = noDelegate
    Outsider = outsider
SYMMETRY Symmetry
SPECIFICATION MarketSpec
INVARIANTS
    TradesSettleTheOffer
    UntouchedOfferStaysBacked
    ClosedOfferHoldsNoDelegation
    PlatformKeepsTheFees
PROPERTIES
    OfferLifecycle
    DeliveryVersusPayment
