SPECIFICATION Spec
CONSTANTS
    sys = sys  f1 = f1  f2 = f2
    Files = {sys, f1, f2}
    System = sys
    Faults = {"backup", "rekey", "verify", "restore", "persist"}
    MayCrash = TRUE
    MaxRekeys = 2
    MaxWrites = 2
SYMMETRY Symmetry
CHECK_DEADLOCK FALSE
INVARIANTS TypeOK Recoverable AbortRestores
PROPERTIES KeyFollowsFiles
