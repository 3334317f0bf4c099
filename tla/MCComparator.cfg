CONSTANTS
    Packet = {p1, p2}
    MaxRules = 2
    RuleLists <- MCRuleLists
SPECIFICATION Spec
SYMMETRY PacketSymmetry
INVARIANTS
    TypeOK
    ComputedIsFirstMatch
    EquivalentExact
    RelationsExact
CHECK_DEADLOCK FALSE
