SPECIFICATION Spec
CONSTANTS
    Scalars = {0, 1}
    Structs = {"S", "R"}
    CellCount <- MCCellCount
    Memblocks = {"M", "N", "K"}
    Element <- MCElement
    Count <- MCCount
    UsizeRange = 4
    Vars = {"s", "t", "m", "n", "i"}
    Lets = {"c", "d", "e"}
    TypeOf <- MCTypeOf
    LetValue <- MCLetValue
    Pointers = {"ps", "pt", "pi"}
    Pointee <- MCPointee
    Unset = Unset
    Null = Null
    Statics = {"s", "m"}
    Handles = {1, 2, 3, 4, 5, 6, 7, 8}
    LetBlock <- MCLetBlock
    Bytes <- MCBytes
    FirstStruct = "S"
    Holds <- MCHolds
    Mistaken = {"t"}
    MaxAssigning = 1
VIEW View
CONSTRAINT FewAfterSharing
INVARIANTS TypeOK OwnedBlocks StaysInside LetsNeverChange
PROPERTIES ImplementsValueStore
CHECK_DEADLOCK FALSE
