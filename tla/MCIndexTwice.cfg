\* A transfer that comes late, through a pass, after live ones.
CONSTANTS
    NTx = 4
    Slot <- MCLiveSlot
    Parent <- MCLiveParent
    Live = TRUE
    Rpcs = 1
    RecentCapacity = 1
    MaxCrashes = 0
    MaxFailures = 0
    treasury = treasury
    ann = ann
    bob = bob
    Wallets = {treasury, ann, bob}
    Treasury = treasury
    Supply = 3
    TokenTx = 1
    Moves <- MCLiveMoves
    Investors = {ann}
    Events <- MCLiveEvents
SPECIFICATION IndexSpec
INVARIANT NoTransferCountedTwice
\* Everything has landed and is indexed.
CHECK_DEADLOCK FALSE
