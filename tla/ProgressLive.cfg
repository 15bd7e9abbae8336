SPECIFICATION Spec
CONSTANTS
    w1 = w1
    Clients = {w1}
    Infos = {"note", "half"}
    Mangled = {"half"}
    ByteMod = 2
    Messages <- MCMessages
    MaxBacklog = 2
PROPERTIES
    StatusIsShown
