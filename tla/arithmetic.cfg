SPECIFICATION Spec
CONSTANTS
    HostWidth = 4
    IntTypes <- MCIntTypes
    Bool = "bool"
    Signed <- MCSigned
    Width <- MCWidth
    None = None
INVARIANTS
    AgreeUntilNarrowed
PROPERTIES
    ResultsAreExact
    BitwiseIsExact
    ConversionsAreExact
CHECK_DEADLOCK FALSE
