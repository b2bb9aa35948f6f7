SPECIFICATION FairSpec
CONSTANTS
    p1 = p1
    p2 = p2
    p3 = p3
    k1 = k1
    k2 = k2
    Players = {p1, p2, p3}
    Parties = {k1, k2}
    Inst = {i1}
    Fit = {p1, p2, p3}
    Lineup <- TwoAndOne
    Founder <- FirstLeaders
    MinPlayers = 2
    ComboSize = 2
    LastStage = 3
    MaxChanges = 0
    Null = Null
CHECK_DEADLOCK FALSE
PROPERTY
    Reopens
