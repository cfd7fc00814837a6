CONSTANTS
    SignificandSize = 3
    DiySize = 10
    SummerBegins = 73
    SummerEnds = 217
    Values <- MCValues
    Lanes <- MCLanes
    Words <- MCWords
    HexBits = {8, 12}
    Doubles <- MCDoubles
    Factors <- MCFactors
    Exponents <- MCExponents
    Intervals <- MCIntervals
    Bits = 5
    Decimals <- MCDecimals
    Arguments <- MCArguments
    MaxArguments = 3
    MaxLength = 6
    Moments <- MCMoments
    Options <- MCOptions
    Key = {1, 2, 3, 4}
    Value = {a, b}
    NoValue = NoValue
    class <- MCclass
    File = {f, g}
    MaxVersion = 2
    MaxTime = 3
    NoDoc = NoDoc
    NoFile = NoFile
    Second = 3
    Lag = 1
    MaxClock = 10
    Fields = 2
    Tables <- MCTables
    Data <- MCData
    MaxParams = 3
    MaxCalls = 2
    Null = Null
    Handler = {1, 2, 3}
    interest <- MCinterest
    InitSize = 2
    Descriptor = {0, 1, 2, 3}
SPECIFICATION LibrarySpec
INVARIANTS
    ConversionsMatch
    GrisuStepsMatch
    CacheFollowsFiles
    SqlIsTold
    KnotesFollowHandlers
    ForeignCloses
PROPERTIES
    ImplementsDictionary
    StampFollowsClock
CHECK_DEADLOCK FALSE
