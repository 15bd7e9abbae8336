SPECIFICATION DaemonSafety
CONSTANTS
    c1 = c1
    c2 = c2
    Conns = {c1, c2}
    Sizes = {1}
    MaxSessions = 3
    SockCap = 1
    LenMod = 2
SYMMETRY Symmetry
INVARIANTS
    DaemonTypeOK
    HeldHasOwner
    StopsClean
PROPERTIES
    ImplementsChannel
