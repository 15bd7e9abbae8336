SPECIFICATION EnvSpec
CONSTANTS
    Symbol <- MCSymbol
    Envs <- MCEnvs
    Queries <- MCQueries
    Var = "var"
    Eq = "="
    And = "&"
    BufLen = 24
    Temp = 4
    PointerSize = 3
    Mod = 64
INVARIANTS
    ContextEnds
    ReadsWhole
    ShowsWhatIsAsked
