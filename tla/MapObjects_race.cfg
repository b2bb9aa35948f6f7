SPECIFICATION Spec
CONSTANTS
    Threads = {s, t}
    Objects = {o1, o2, o3, o4}
    c0 = c0
    c2 = c2
    Characters = {c2}
    CharId <- OneId
    None = None
    Start = 0
    Low = 1
    High = 3
SYMMETRY Symmetric
CHECK_DEADLOCK FALSE
INVARIANTS
    NoSameOid
