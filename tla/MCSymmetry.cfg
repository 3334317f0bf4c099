CONSTANTS
    z1 = z1
    z2 = z2
    a1 = a1
    a2 = a2
    s1 = s1
    s2 = s2
    web = web
    any = any
    Zone = {z1, z2}
    Address = {a1, a2}
    Service = {s1, s2}
    Application = {web}
    User = {u1}
    AnyApplication = any
    DefaultServices <- MCDefaultServices
    Acls <- MCAcls
SPECIFICATION FairSpec
INVARIANTS
    TypeOK
    PairsExact
    CacheIsSymmetrical
PROPERTIES
    SymmetryEnds
    SymmetryInterruptHonoured
CHECK_DEADLOCK FALSE
