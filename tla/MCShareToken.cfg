\* Two investors, so that shares travel; supply 3, so that a grant can be
\* partly vested and topped up; admissions that end inside the run.
CONSTANTS
    Wallets = {w1, w2}
    Treasury = treasury
    Keys = {k1, k2}
    NoKey = noKey
    Supply = 3
    Schedules <- MCSchedules
    Expiries = {1, 3}
    MaxTime = 2
    MaxVersion = 2
SYMMETRY Symmetry
SPECIFICATION Spec
INVARIANTS
    GrantLocked
    SupplyAccounted
PROPERTIES
    ReceivedOnlyWhileAdmitted
    ImplementsCapTable
