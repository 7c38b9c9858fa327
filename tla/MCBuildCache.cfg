CONSTANTS
    LlvmKey = LlvmKey
    ObjectKey = ObjectKey
    Keys <- MCKeys
    Clients = {c1, c2}
    Offers <- MCOffers
    Optimized = {LlvmKey}
    NoReport = NoReport
    Absent = Absent
    Torn = Torn
    NoKey = NoKey
    Miss = Miss
    SilentLoss = FALSE
SPECIFICATION Spec
INVARIANTS
    TypeOK
    ManifestVouches
    StoresAreDurable
    EntriesAreWhole
PROPERTIES
    HitPartsWereOffered
    CacheKeepsPromise
