CONSTANTS
    Programs <- MCPrograms
    RuntimeMain <- Rt
    MainAtom = "main"
    InitAtom = "$init"
    ToStringAtom = "toString"
    SetterOf <- Setter
    Object <- Root
    NullPointer <- Npe
    ClassCast <- Cce
    Arithmetic <- Div
SPECIFICATION Spec
INVARIANTS
    TypeOK
    ClosedWhenDone
    SuccessMeansResolved
    DispatchTargetsKept
    NothingSpurious
PROPERTIES
    LinkTerminates
    ResultIsDetermined
CHECK_DEADLOCK FALSE
