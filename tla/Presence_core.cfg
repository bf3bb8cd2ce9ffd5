SPECIFICATION Spec
CONSTANTS
    k1 = k1  k2 = k2  k3 = k3  c1 = c1  c2 = c2
    Conns = {k1, k2, k3}
    Clients = {c1, c2}
    ClientOf <- MCClientOf
    MayMiss = TRUE
    MaxMessages = 1
    MaxEvents = 5
SYMMETRY Symmetry
CHECK_DEADLOCK FALSE
INVARIANTS TypeOK RosterIsLive ViewIsRoster
