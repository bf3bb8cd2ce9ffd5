SPECIFICATION Spec
CONSTANTS
    sys = sys  f1 = f1  f2 = f2
    Files = {sys, f1, f2}
    System = sys
    Faults = {"persist"}
    MayCrash = FALSE
    MaxRekeys = 1
    MaxWrites = 1
SYMMETRY Symmetry
CHECK_DEADLOCK FALSE
INVARIANTS FailureKeepsKey
