CONSTANTS
    Plain = {p1, p2}
    Exceptions = {}
    Arrays = {a1}
    Objects = {p1, p2, a1}
    None = None
    Uses = {"array", "arena holds gc"}
    Tries <- CatchAll
    Thresholds = {}
    DefaultThreshold = 1
    MaxDepth = 2
SPECIFICATION Spec
INVARIANTS
    NothingLiveFreed
SYMMETRY Interchangeable
CHECK_DEADLOCK FALSE
