\* Two ungated transactions on one table.
SPECIFICATION Spec
CONSTANTS
    x1 = x1
    x2 = x2
    r1 = r1
    users = users
    posts = posts
    Nobody = Nobody
    Txs <- MCTxs
    Readers <- MCNoReaders
    Tables <- MCOneTable
    RootOf <- MCOneRoot
    InitRows = 1
    Cap = 2
    MaxPages = 8
    MaxRow = 4
    MaxOps = 2
    Gated = FALSE
INVARIANT NothingLost
CHECK_DEADLOCK FALSE
