CONSTANTS
    Width = 5
    ShortDisplay = 9
SPECIFICATION Spec
INVARIANTS
    ReadsWhatIsMeant
    DisplayReadsBack
CHECK_DEADLOCK FALSE
