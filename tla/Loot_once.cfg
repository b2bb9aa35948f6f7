SPECIFICATION Spec
CONSTANTS
    Players = {p, q}
    Drops = {d, e}
    Kinds = {"meso", "use", "script", "pet", "offering"}
    None = None
    Capacity = 1
CHECK_DEADLOCK FALSE
SYMMETRY Symmetric
INVARIANTS
    LootedOnce
    MissedOnlyIfTaken
