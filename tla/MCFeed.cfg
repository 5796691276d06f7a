\* A panel that loses its stream once and an API whose poll fails once.
CONSTANTS
    Histories <- MCHistories
    PolicySlot <- MCPolicySlot
    MaxConns = 2
    MaxFailures = 1
SPECIFICATION FairFeedSpec
INVARIANTS
    FeedTypeOK
    HandedOnce
PROPERTIES
    PanelCatchesUp
