SPECIFICATION Spec
CONSTANTS
    p1 = p1  p2 = p2  p3 = p3  u1 = u1
    Procs = {p1, p2}
    Users = {u1}
    Overlap = TRUE
    Faults = {}
    MaxFiles = 3
    MaxHandles = 3
    MaxStrays = 1
    MaxWrites = 2
    MaxCreates = 2
    MaxCrashes = 0
CHECK_DEADLOCK FALSE
INVARIANTS BornEmpty
