\* Every operation on a table whose schema and indexes change too, and queries of every form.
SPECIFICATION TxSpec
CONSTANTS
    Names = {"a", "b"}
    Types = {"Integer", "Text"}
    NoDefault = NoDefault
    NoLimit = NoLimit
    Defaults <- OneOrNone
    InitColumns <- AB
    MaxCols = 3
    MaxCounter = 2
    Workloads <- MCWorkloads
INVARIANTS TypeOK NameMapExact IndexExact CountsExact UniqueHolds QueriesExact OverlayExact
PROPERTY ReadsStable
CHECK_DEADLOCK FALSE
