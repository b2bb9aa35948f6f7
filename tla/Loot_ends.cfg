SPECIFICATION FairSpec
CONSTANTS
    Players = {p, q}
    Drops = {d}
    Kinds = {"meso", "item", "use", "script", "jewel", "pet", "offering"}
    None = None
    Capacity = 1
CHECK_DEADLOCK FALSE
INVARIANTS
    TypeOK
PROPERTIES
    EventuallyGone
    HandlersReturn
