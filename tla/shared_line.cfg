SPECIFICATION Spec
CONSTANTS
    FuncCount = 2
    MaxCalls = 2
    MaxActive = 4
    ArgValues = {1, 2}
    CallPrograms <- SharedLines
INVARIANT ArgsReachTheirCallee
CONSTRAINT Shallow
