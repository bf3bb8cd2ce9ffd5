SPECIFICATION Spec
CONSTANTS
    k1 = k1  k2 = k2  v1 = v1  v2 = v2  c1 = c1  n1 = n1
    Keys <- MCKeys
    Vals = {v1, v2}
    NoDoc = NoDoc
    Collections = {c1}
    CollOf <- MCCollOf
    IndexNames = {n1}
    SizeLimited = FALSE
    QueueCap = 2
    MaxBatch = 2
    GroupCommit = TRUE
    Retention = 1
    Faults = {"begin", "savepoint", "commit"}
    MaxRequests = 4
    MaxCrashes = 1
SYMMETRY Symmetry
CHECK_DEADLOCK FALSE
INVARIANTS TypeOK SeqIsPosition AppliedInOrder RefusalLeavesNothing
    FeedFollowsHistory LogWithinRetention UniqueHolds IndexesInStep
PROPERTIES ImplementsChangeLog ImplementsFeedSource
