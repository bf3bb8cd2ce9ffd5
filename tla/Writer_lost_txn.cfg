SPECIFICATION Spec
CONSTANTS
    k1 = k1  k2 = k2  v1 = v1  v2 = v2  c1 = c1  n1 = n1
    Keys <- MCKeys
    Vals = {v1, v2}
    NoDoc = NoDoc
    Collections = {c1}
    CollOf <- MCCollOf
    IndexNames = {n1}
    SizeLimited = FALSE
    QueueCap = 3
    MaxBatch = 3
    GroupCommit = TRUE
    Retention = 1
    Faults = {"io"}
    MaxRequests = 3
    MaxCrashes = 0
SYMMETRY Symmetry
CHECK_DEADLOCK FALSE
INVARIANTS FailedCommitLeavesNothing
