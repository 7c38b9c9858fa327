CONSTANTS
    app = app
    other = other
    plain = plain
    Builders = {app, other, plain}
    s1 = s1
    s2 = s2
    Sources <- OneEdited
    ActionOf <- ThreeActions
    NameParts <- MCNameParts
    OutputOf <- ThreeApart
    CachesIn = {app, other}
    TemporaryDirectory = "tmp"
    Absent = Absent
    Partial = Partial
    MaxLibrary = 2
    MaxBuilds <- FirstTwice
SPECIFICATION Spec
INVARIANTS
    TypeOK
    ObjectsMatchKeys
    BinariesMatchKeys
    FinishedBuildsAreRight
CHECK_DEADLOCK FALSE
