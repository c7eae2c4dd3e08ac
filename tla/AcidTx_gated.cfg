\* Two callers through the write gate, two tables, splits, a reader.
SPECIFICATION Spec
CONSTANTS
    x1 = x1
    x2 = x2
    r1 = r1
    users = users
    posts = posts
    Nobody = Nobody
    Txs <- MCTxs
    Readers <- MCReaders
    Tables <- MCTables
    RootOf <- MCRootOf
    InitRows = 2
    Cap = 2
    MaxPages = 8
    MaxRow = 4
    MaxOps = 2
    Gated = TRUE
INVARIANTS TypeOK CountsExact TreesDisjoint CalmReadsFindRows
PROPERTY ImplementsAtomic
CHECK_DEADLOCK FALSE
