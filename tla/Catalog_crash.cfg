\* Rows inserted after the last schema change, then a crash.
SPECIFICATION Spec
CONSTANTS
    t1 = t1
    t2 = t2
    users = users
    posts = posts
    NoImage = NoImage
    Threads <- MCThreads
    Names <- MCNames
    Workloads <- MCSplits
    Cap = 2
    MaxTables = 1
    MaxPages = 5
    MaxRow = 3
INVARIANT CommittedRowsSurvive
CHECK_DEADLOCK FALSE
