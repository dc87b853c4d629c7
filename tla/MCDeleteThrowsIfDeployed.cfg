SPECIFICATION Spec
CONSTANTS
    Creds = {c1}
    Args = {a1, a2}
    DefaultArgs = a1
    Foreign = Foreign
    TxIds = {h1, h2}
    Tasks = {t1}
    NoCred = NoCred
    NoArgs = NoArgs
    NoTx = NoTx
    SharedDeployer = FALSE
    AtomicUpdate = TRUE
    HasRelayer = TRUE
SYMMETRY Symmetry
PROPERTY DeleteThrowsIfDeployed
