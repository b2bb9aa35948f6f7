SPECIFICATION Spec
CONSTANTS
    Players = {a, b}
    Items = {}
    Objs = {t1, t2}
    i1 = i1
    i2 = i2
    i3 = i3
    Null = Null
    Restricted <- NoKinds
    Wearable = {}
    Capacity = 1
    MaxInt = 1499999
    Amounts <- SomeAmounts
    LowLevel = {a}
    WealthBound = 700000
SYMMETRY Symmetric
CONSTRAINT Few
CHECK_DEADLOCK TRUE
PROPERTIES
    NewbieLimitKept
