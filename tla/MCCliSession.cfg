CONSTANTS
    Names <- MCNames
    Pointers <- MCPointers
    Files <- MCFiles
    Unreadable <- MCUnreadable
    Scripts <- MCScripts
    Commands <- MCCommands
    MaxStreams = 2
SPECIFICATION Spec
INVARIANTS
    TypeOK
    CurrentIsLive
    CtrlCIsForThisCommand
PROPERTIES
    ImplementsPolicies
    PromptReturns
CHECK_DEADLOCK FALSE
