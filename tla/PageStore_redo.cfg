\* Two writers on two tables and the registry, a reader filling the cache, one process crash.
SPECIFICATION Spec
CONSTANTS
    t1 = t1
    t2 = t2
    r1 = r1
    users = users
    posts = posts
    Nobody = Nobody
    Registry = Registry
    Threads <- MCThreads
    Readers <- MCReaders
    Tables <- MCTables
    RootOf <- MCRootOf
    MaxPages = 4
    MaxCommits = 2
    MaxCrashes = 1
    MaxErrors = 0
    PowerLoss = FALSE
    Durability = "normal"
SYMMETRY MCSymmetry
INVARIANTS TypeOK RedoCoversAcked UnlockedMeansLogged AppendsOwnPages
PROPERTY ViewNeverRegresses
CHECK_DEADLOCK FALSE
