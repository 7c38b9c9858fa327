CONSTANTS
    Plain = {p1}
    Exceptions = {e1}
    Arrays = {a1}
    Objects = {p1, e1, a1}
    None = None
    Uses = {"array"}
    Tries <- SomeFinally
    Thresholds = {0}
    DefaultThreshold = 2
    MaxDepth = 2
SPECIFICATION Spec
INVARIANTS
    TypeOK
    NothingLiveFreed
    CollectorReadsLiveMemory
PROPERTIES
    HeapBounded
CHECK_DEADLOCK FALSE
