SPECIFICATION Spec
CONSTANTS
    Limit = 2
    Length = 3
    Programs <- SmallPrograms
INVARIANTS
    StaticsAreRight
    LegalityVerdict
    EarliestFailure
CHECK_DEADLOCK FALSE
