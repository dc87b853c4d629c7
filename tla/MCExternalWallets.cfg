SPECIFICATION Spec
CONSTANTS
    freighter = freighter
    lobstr = lobstr
    a1 = a1
    a2 = a2
    b = b
    None = None
    here = here
    there = there
    Pages = {here, there}
    Wallets = {freighter, lobstr}
    Addresses = {a1, a2, b}
    Owner <- MCOwner
    Secrets = {a1}
    MaxCalls = 5
SYMMETRY PageSymmetry
INVARIANTS
    TypeOK
    RestoreSettlesSaved
    RemovedStaysRemoved
    WalletIdsAreTrue
CHECK_DEADLOCK FALSE
