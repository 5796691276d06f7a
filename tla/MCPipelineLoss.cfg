\* The same worker with the subscription on, and nothing failing but the
\* socket: one notification lost between two passes is enough.
CONSTANTS
    NTx = 3
    Slot <- MCSlot
    Parent <- MCParent
    Live = TRUE
    Rpcs = 1
    RecentCapacity = 2
    MaxCrashes = 0
    MaxFailures = 0
SPECIFICATION FairSpec
PROPERTY EveryRecordIndexed
CHECK_DEADLOCK FALSE
