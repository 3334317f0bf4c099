CONSTANTS
    Packet = {p1, p2, p3}
    MaxRules = 3
    Acls <- MCAcls
SPECIFICATION Spec
SYMMETRY PacketSymmetry
INVARIANT RedundantRemovable
CHECK_DEADLOCK FALSE
