SPECIFICATION DaemonSpec
CONSTANTS
    c1 = c1
    c2 = c2
    Conns = {c1, c2}
    Sizes = {1}
    MaxSessions = 2
    SockCap = 1
    LenMod = 4
PROPERTIES
    Stops
