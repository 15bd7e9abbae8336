SPECIFICATION Spec
CONSTANTS
    default = default
    plain = plain
    percent = percent
    nested = nested
    misread = misread
    long = long
    Plain <- MCPlain
    Nested <- MCNested
    Misread <- MCMisread
    Long <- MCLong
    Percent <- MCPercent
    Default = default
    Absent = Absent
    Torn = Torn
    TornLong = TornLong
    Factory = Factory
    Garbled = Garbled
    Other = Other
    None = None
INVARIANT
    InterfacesFromValid
