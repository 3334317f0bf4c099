CONSTANTS
    z1 = z1
    z2 = z2
    a1 = a1
    a2 = a2
    s1 = s1
    s2 = s2
    web = web
    dns = dns
    any = any
    Zone = {z1, z2}
    Address = {a1, a2}
    Service = {s1, s2}
    Application = {web, dns}
    User = {u1}
    AnyApplication = any
    NoZone = NoZone
    DefaultServices <- MCDefaultServices
    Acls <- MCAcls
    Tests <- MCTests
SPECIFICATION Spec
INVARIANTS
    DiagramsBlur
    ExactForOnePacket
    RuleAnswersForAll
CHECK_DEADLOCK FALSE
