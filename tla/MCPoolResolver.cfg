CONSTANTS
    Names <- MCNames
    Dictionaries <- MCDictionaries
SPECIFICATION MCSpec
INVARIANTS
    ResolutionExact
    LoopExact
    MembersBeforePool
    TraversalIsLoop
PROPERTY ResolverEnds
CHECK_DEADLOCK FALSE
