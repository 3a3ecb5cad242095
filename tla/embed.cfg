SPECIFICATION Spec
CONSTANTS
    Declared = 2
    TmpMin = 5
    MaxDepth = 3
    Values = {0, 1}
    Uninit = 0
    Funcs = {"f", "g"}
    ParamSlots <- Slots1
    SizeRange = 16
    MaxCount = 2
INVARIANTS RegionsNest OpenDataIntact
