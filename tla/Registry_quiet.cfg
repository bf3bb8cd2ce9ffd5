SPECIFICATION FairSpec
CONSTANTS
    p1 = p1  p2 = p2  p3 = p3  u1 = u1
    Procs = {p1, p2}
    Users = {u1}
    Overlap = FALSE
    Faults = {"open", "pool", "unlink", "cancel"}
    MaxFiles = 3
    MaxHandles = 3
    MaxStrays = 1
    MaxWrites = 1
    MaxCreates = 2
    MaxCrashes = 1
CHECK_DEADLOCK FALSE
INVARIANTS TypeOK SingleWriter BornEmpty AckedSurvive 
PROPERTIES RequestsEnd
