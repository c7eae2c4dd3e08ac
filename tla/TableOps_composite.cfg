\* An equality filter on the leading column of a composite index.
SPECIFICATION TxSpec
CONSTANTS
    Names = {"a", "b"}
    Types = {"Integer", "Text"}
    NoDefault = NoDefault
    NoLimit = NoLimit
    Defaults <- OneOrNone
    InitColumns <- AB
    MaxCols = 3
    MaxCounter = 2
    Workloads <- Composite
INVARIANT FindExact
CHECK_DEADLOCK FALSE
