\* The backfill alone, with everything else that can go wrong: errors reach a
\* pass, its fallback and the pass after it; one restart falls between any two
\* steps.  No pass is longer than the set of recent signatures.
CONSTANTS
    NTx = 5
    Slot <- MCSlot
    Parent <- MCParent
    Live = FALSE
    Rpcs = 2
    RecentCapacity = 5
    MaxCrashes = 1
    MaxFailures = 3
    treasury = treasury
    ann = ann
    bob = bob
    Wallets = {treasury, ann, bob}
    Treasury = treasury
    Supply = 3
    TokenTx = 1
    Moves <- MCMoves
    Investors = {ann}
    Events <- MCEventsOneSecond
SPECIFICATION FairIndexSpec
INVARIANTS
    NothingBehindTheCursor
    RowsFollowTheChain
PROPERTIES
    EveryRecordIndexed
    SettlesOnTheLastWord
\* Everything has landed and is indexed.
CHECK_DEADLOCK FALSE
