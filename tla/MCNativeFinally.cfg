CONSTANTS
    Plain = {}
    Exceptions = {e1}
    Arrays = {}
    Objects = {e1}
    None = None
    Uses = {}
    Tries <- TryForms
    Thresholds = {}
    DefaultThreshold = 1
    MaxDepth = 2
SPECIFICATION Spec
PROPERTIES
    FinalizersRun
CHECK_DEADLOCK FALSE
