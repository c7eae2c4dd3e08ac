\* Splits under a paging client, rows of several sizes with bulk updates, and an index.
SPECIFICATION Spec
CONSTANTS
    MaxId = 5
    Cap = 8
    Checksum = 1
    MaxKeys = 2
    Trailer = 2
    Payload = 4
    MaxPages = 26
    IndexPages = 12
    IndexCap = 2
    IndexKeys = 2
    Workloads <- MCWorkloads
INVARIANTS TypeOK SearchTree ScanTiles LookupsExact ChainIntact OverflowSplitComplete IndexLookupsExact
CHECK_DEADLOCK FALSE
