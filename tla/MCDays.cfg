SPECIFICATION Spec
CONSTANTS
    SummerBegins = 73
    SummerEnds = 217
    Moments = {23, 24, 47, 48, 60, 72, 73, 95, 96, 120, 216, 217, 240}
    SignificandSize = 3
    DiySize = 10
    Values = {}
    Lanes = {}
    Words = {}
    HexBits = {}
    Doubles = {}
    Factors = {}
    Exponents = {}
    Intervals = {}
    Bits = 5
    Decimals = {}
    Arguments = {}
    MaxArguments = 0
    MaxLength = 0
    Options = {}
INVARIANTS
    DaysAreLocal
CHECK_DEADLOCK FALSE
