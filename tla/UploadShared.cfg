SPECIFICATION SafetySpec
CONSTANTS
    c1 = c1
    c2 = c2
    Conns = {c1, c2}
    Sizes = {1, 2}
    MaxSessions = 3
    SockCap = 1
    LenMod = 4
SYMMETRY Symmetry
INVARIANTS
    TypeOK
    OnlyHeldOpen
    LenCountsSession
    EachByteOnceInOrder
    NoOlderSession
PROPERTIES
    ReplyCountsSession
    ImplementsChannel
