SPECIFICATION RunSpec
CONSTANTS
    MaxThreads = 8
    ExpectedSize = 1024
    Acceptors = {}
    Clients = {}
    MaxEpollSize = 128
INVARIANTS
    PollOnlyIfAskedFor
CHECK_DEADLOCK FALSE
