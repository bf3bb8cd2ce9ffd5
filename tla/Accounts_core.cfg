SPECIFICATION Spec
CONSTANTS
    p1 = p1  p2 = p2  n1 = n1
    Procs = {p1, p2}
    Names = {n1}
    AccessTTL = 1
    RefreshTTL = 2
    Window = 1
    MaxFails = 1
    Faults = {"issue", "reset"}
    MaxTime = 2
    MaxRequests = 4
    MaxResets = 1
SYMMETRY Symmetry
CHECK_DEADLOCK FALSE
INVARIANTS TypeOK OneAccountPerName OneSessionPerLogin StaleOnlyByOverlap GrantedLast GuardHolds
