\* A death while a freed node is being reused.
SPECIFICATION Spec
CONSTANTS
    t1 = t1
    t2 = t2
    Threads <- MCThreads
    Rows = {1, 2, 3}
    Vectors = {1, 4, 9, 11}
    Levels = {0, 1}
    M = 2
    Capacity = 2
    MaxNodes = 8
    GraphWords = 50
    Workloads <- MCReusing
INVARIANT FreeListSound
CHECK_DEADLOCK FALSE
