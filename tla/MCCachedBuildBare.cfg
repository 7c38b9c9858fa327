CONSTANTS
    app = app
    other = other
    plain = plain
    Builders = {app, other}
    s1 = s1
    s2 = s2
    Sources <- TwoSources
    ActionOf <- BothBinary
    NameParts <- MCNameParts
    OutputOf <- BareNames
    CachesIn = {app, other}
    TemporaryDirectory = "tmp"
    Absent = Absent
    Partial = Partial
    MaxLibrary = 1
    MaxBuilds <- Once
SPECIFICATION Spec
INVARIANTS
    ObjectsMatchKeys
CHECK_DEADLOCK FALSE
