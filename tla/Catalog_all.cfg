\* Schema changes racing on the synchronous API; schema and row changes behind the gate.
SPECIFICATION Spec
CONSTANTS
    t1 = t1
    t2 = t2
    users = users
    posts = posts
    NoImage = NoImage
    Threads <- MCThreads
    Names <- MCNames
    Workloads <- MCAll
    Cap = 1
    MaxTables = 3
    MaxPages = 5
    MaxRow = 2
INVARIANTS TypeOK TablesSeparate DdlDurable NoResurrection RowsExact
PROPERTIES TablesNotReplaced CleanReopen
CHECK_DEADLOCK FALSE
