SPECIFICATION FairWalkSpec
CONSTANTS
    MaxNode = 3
    Slots = {1}
    Params = {}
    Graphs <- SmallGraphs
INVARIANTS
    AboveEverySolution
    VerdictIsPathVerdict
    NextReadsAreWritten
PROPERTIES
    Terminates
