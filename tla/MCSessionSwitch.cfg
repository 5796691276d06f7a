\* Two accounts, one sign-in, and a switch before its answer.
CONSTANTS
    Wallets = {ann, bob}
    NoWallet = noWallet
    Investors = {ann, bob}
    Calls = {c1}
    NonceTtl = 1
    TokenTtl = 1
    Limit = 3
    Window = 1
    MaxTime = 1
    MaxRoleChanges = 0
    MaxCopies = 0
    MaxHits = 2
SPECIFICATION SessionSpec
INVARIANTS
    SignedInAsTheWallet
CHECK_DEADLOCK FALSE
