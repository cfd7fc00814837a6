SPECIFICATION Spec
CONSTANTS
    Width = 6
    MaxSize = 20
INVARIANTS
    SizesArePowersOfTwo
CHECK_DEADLOCK FALSE
