\* Two accounts of investors, two sign-ins at once, one verification delivered twice; three
\* requests in two seconds, nonces and tokens of one second, and one change of
\* roles.
CONSTANTS
    Wallets = {ann, bob}
    NoWallet = noWallet
    Investors = {ann, bob}
    Calls = {c1, c2}
    NonceTtl = 1
    TokenTtl = 1
    Limit = 3
    Window = 2
    MaxTime = 2
    MaxRoleChanges = 1
    MaxCopies = 1
    MaxHits = 2
SYMMETRY Symmetry
SPECIFICATION SessionSpec
INVARIANTS
    SessionTypeOK
    SessionFromItsOwnNonce
    ServedToARoleHolder
    LimitIsExact
    BearerIsTheOneShown
\* The clock and the sign-ins are bounded.
CHECK_DEADLOCK FALSE
