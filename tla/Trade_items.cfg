SPECIFICATION Spec
CONSTANTS
    Players = {a, b, c}
    Items = {i1, i2, i3}
    Objs = {t1, t2, t3}
    i1 = i1
    i2 = i2
    i3 = i3
    Null = Null
    Restricted <- OnlyOne
    Wearable = {i1, i2}
    Capacity = 2
    MaxInt = 2499999
    Amounts <- NoAmounts
    LowLevel = {}
    WealthBound = 0
SYMMETRY Symmetric
CHECK_DEADLOCK TRUE
INVARIANTS
    PartnersAgree
    NothingStranded
    NoDuplicate
    NeverBothConfirmed
PROPERTIES
    ImplementsBarter
    LostOnlyFullOrDouble
