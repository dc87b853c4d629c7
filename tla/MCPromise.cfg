SPECIFICATION Spec
CONSTANTS
    Creds = {c1, c2}
    Args = {a1}
    DefaultArgs = a1
    Foreign = Foreign
    TxIds = {h1, h2}
    Tasks = {t1}
    NoCred = NoCred
    NoArgs = NoArgs
    NoTx = NoTx
    SharedDeployer = TRUE
    AtomicUpdate = FALSE
    HasRelayer = TRUE
SYMMETRY Symmetry
PROPERTY KeepsPromise
