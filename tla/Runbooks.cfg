SPECIFICATION SearchSpec
CONSTANTS
    Runbooks = {r1, r2}
    Services = {s1, s2}
    Texts = {x1, x2}
    Labels = {l1}
    MaxObjects = 3
    MaxVersions = 3
    MaxTime = 2
    MaxResults = {1, 2}
    AnyService = AnyService
    NotIndexed = NotIndexed
SYMMETRY Symmetry
INVARIANTS
    StoreTypeOK
    SupersededStaysOut
    UpgradeIsHonoured
    ServedAreCurrent
    IndexedAreFound
CHECK_DEADLOCK FALSE
