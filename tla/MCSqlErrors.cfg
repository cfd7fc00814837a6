SPECIFICATION Spec
CONSTANTS
    Fields = 1
    Tables = {}
    Data = {}
    MaxParams = 0
    MaxCalls = 2
    Null = Null
INVARIANTS
    NegativeMeansError
CHECK_DEADLOCK FALSE
