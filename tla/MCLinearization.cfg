CONSTANTS
    Size = 5
    MaxParents = 3
SPECIFICATION Spec
INVARIANTS
    TypeOK
    ListsEveryAncestorOnce
    OrderIsInherited
    RefusedOnlyIfUnorderable
    CacheIsTransparent
CHECK_DEADLOCK FALSE
