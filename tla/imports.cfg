SPECIFICATION Spec
CONSTANTS
    Entry = E
    Names = {E, A, B, C}
    MaxImports = 2
    FirstCap = 2
    Worlds <- SmallWorlds
INVARIANTS
    CollectsTheNeeded
    CycleVerdict
    ImporteesFirst
PROPERTY
    Resolves
