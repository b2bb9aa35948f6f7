SPECIFICATION Spec
CONSTANTS
    p1 = p1
    p2 = p2
    p3 = p3
    k1 = k1
    k2 = k2
    Players = {p1, p2, p3}
    Parties = {k1, k2}
    Inst = {i1, i2}
    Fit = {p1, p2, p3}
    Lineup <- TwoAndOne
    Founder <- FirstLeaders
    MinPlayers = 2
    ComboSize = 2
    LastStage = 3
    MaxChanges = 2
    Null = Null
SYMMETRY AnyInst
CHECK_DEADLOCK FALSE
INVARIANTS
    TypeOK
    StageOrder
    InsideIsListed
    OneParty
    TimeWillBeUp
PROPERTIES
    Onward
