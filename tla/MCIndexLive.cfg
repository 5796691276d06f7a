\* Subscription, backfill, one error and one restart, every change with a stamp
\* of its own; the pass under fairness.
CONSTANTS
    NTx = 4
    Slot <- MCLiveSlot
    Parent <- MCLiveParent
    Live = TRUE
    Rpcs = 1
    RecentCapacity = 1
    MaxCrashes = 1
    MaxFailures = 1
    treasury = treasury
    ann = ann
    bob = bob
    Wallets = {treasury, ann, bob}
    Treasury = treasury
    Supply = 3
    TokenTx = 1
    Moves <- MCLiveMoves
    Investors = {ann}
    Events <- MCLiveEvents
SPECIFICATION FairIndexSpec
INVARIANTS
    RowsAreTheJournal
    VerifiedRowIsTheChain
    LastWordWins
    TypeOK
    TakesEffectOnce
PROPERTIES
    CursorOnlyForward
    PassesEnd
\* Everything has landed and is indexed.
CHECK_DEADLOCK FALSE
