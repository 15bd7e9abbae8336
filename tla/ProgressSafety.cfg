SPECIFICATION SafetySpec
CONSTANTS
    w1 = w1
    w2 = w2
    Clients = {w1, w2}
    Infos = {"note", "half"}
    Mangled = {"half"}
    ByteMod = 2
    Messages <- MCMessages
    MaxBacklog = 2
SYMMETRY Symmetry
INVARIANTS
    TypeOK
    ShownIsReported
    NothingMissed
PROPERTIES
    FailureReachesAll
