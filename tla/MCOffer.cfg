\* Records in any order, replayed at any time, against a sweep whose node lags.
CONSTANTS
    Amount = 3
    Balance = 3
    MaxSlot = 4
SPECIFICATION FairSpec
INVARIANTS
    ConstraintsHold
    BookIsTheChain
    ReadingStands
PROPERTIES
    RowOnlyShrinks
    ComesToSayWhatIsAvailable
\* Every record is in and every reading expired.
CHECK_DEADLOCK FALSE
