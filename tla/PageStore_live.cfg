\* Immediate durability, a power loss, an operation that fails with its guard open.
SPECIFICATION FairSpec
CONSTANTS
    t1 = t1
    t2 = t2
    r1 = r1
    users = users
    posts = posts
    Nobody = Nobody
    Registry = Registry
    Threads <- MCThreads
    Readers <- MCNoReaders
    Tables <- MCOneTable
    RootOf <- MCOneRoot
    MaxPages = 3
    MaxCommits = 2
    MaxCrashes = 1
    MaxErrors = 1
    PowerLoss = TRUE
    Durability = "immediate"
INVARIANTS AckedSurvives FreshPagesAreFree
PROPERTIES OperationsReturn RecoveryTerminates
CHECK_DEADLOCK FALSE
