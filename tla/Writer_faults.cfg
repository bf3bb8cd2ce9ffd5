SPECIFICATION FairSpec
CONSTANTS
    k1 = k1  k2 = k2  v1 = v1  v2 = v2  c1 = c1  n1 = n1
    Keys <- MCKeys
    Vals = {v1}
    NoDoc = NoDoc
    Collections = {c1}
    CollOf <- MCCollOf
    IndexNames = {n1}
    SizeLimited = TRUE
    QueueCap = 2
    MaxBatch = 2
    GroupCommit = TRUE
    Retention = 0
    Faults = {"begin", "savepoint", "io", "commit", "trim"}
    MaxRequests = 3
    MaxCrashes = 1
CHECK_DEADLOCK FALSE
INVARIANTS DocsAreReplay SuccessIsCommitted
PROPERTIES EveryRequestAnswered
