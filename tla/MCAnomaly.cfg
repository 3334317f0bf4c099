CONSTANTS
    Packet = {p1, p2, p3}
    MaxRules = 3
    Acls <- MCAcls
SPECIFICATION Spec
SYMMETRY PacketSymmetry
INVARIANTS
    TypeOK
    StateIsFirstMatch
    MaskedIffDecidesNothing
    ShadowedGetsOpposite
    MaskedRulesRemovable
    ConflictsReported
    NamedRulesExplain
    SilenceMeansObeyed
    MissingDenyAllExact
PROPERTIES
    ImplementsVerdicts
    InterruptHonoured
CHECK_DEADLOCK FALSE
