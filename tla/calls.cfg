SPECIFICATION Spec
CONSTANTS
    FuncCount = 3
    MaxCalls = 2
    MaxActive = 4
    ArgValues = {1, 2}
    CallPrograms <- SmallCallPrograms
INVARIANTS RecursionVerdict ParamsArePrivate ContextIsInnermost
CONSTRAINT Shallow
