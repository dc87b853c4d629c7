SPECIFICATION Spec
CONSTANTS
    Creds = {c1}
    Args = {a1}
    DefaultArgs = a1
    Foreign = Foreign
    TxIds = {h1, h2}
    Tasks = {t1, t2}
    NoCred = NoCred
    NoArgs = NoArgs
    NoTx = NoTx
    SharedDeployer = TRUE
    AtomicUpdate = FALSE
    HasRelayer = TRUE
SYMMETRY Symmetry
INVARIANTS TypeOK ConnectionIsApproved RecordsAreTrue SilentRestoreIsApproved
PROPERTY CreationIsStable
