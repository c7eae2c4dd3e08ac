\* The process dies between two append_page_image calls of one commit.
SPECIFICATION Spec
CONSTANTS
    t1 = t1
    t2 = t2
    r1 = r1
    users = users
    posts = posts
    Nobody = Nobody
    Registry = Registry
    Threads <- MCThreads
    Readers <- MCNoReaders
    Tables <- MCOneTable
    RootOf <- MCOneRoot
    MaxPages = 3
    MaxCommits = 3
    MaxCrashes = 1
    MaxErrors = 0
    PowerLoss = FALSE
    Durability = "normal"
SYMMETRY MCSymmetry
INVARIANT CommitsAreAtomic
CHECK_DEADLOCK FALSE
