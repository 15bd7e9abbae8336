SPECIFICATION SafetySpec
CONSTANTS
    c1 = c1
    Conns = {c1}
    Sizes = {1, 2, 4}
    MaxSessions = 3
    SockCap = 2
    LenMod = 6
INVARIANTS
    SoloIntact
PROPERTIES
    SoloCompleteIsWhole
