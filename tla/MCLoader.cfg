CONSTANTS
    Hosts <- MCHosts
    HostAddress <- MCHostAddress
    UsableAddress <- MCUsable
    Answers <- MCAnswers
    Literals <- MCLiterals
    Policies <- MCPolicies
    StoreFiles <- MCStoreFiles
    MaxId = 3
    SizeMax = 16
    MaxLoads = 2
    MaxStoreLoads = 2
SPECIFICATION Spec
INVARIANTS
    TypeOK
    RulesAreTheRows
    StatusExact
    IdsDistinct
PROPERTY HostAnswersStable
CHECK_DEADLOCK FALSE
