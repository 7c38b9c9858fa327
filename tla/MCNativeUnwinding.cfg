CONSTANTS
    Plain = {p1}
    Exceptions = {e1}
    Arrays = {}
    Objects = {p1, e1}
    None = None
    Uses = {"zone", "throw null"}
    Tries <- FinallyOrSome
    Thresholds = {}
    DefaultThreshold = 3
    MaxDepth = 3
SPECIFICATION Spec
INVARIANTS
    NothingLiveFreed
    RuntimeMatchesProgram
PROPERTIES
    BodyFinalizersRun
CHECK_DEADLOCK FALSE
