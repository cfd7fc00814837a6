SPECIFICATION PartsSpec
CONSTANTS
    MaxThreads = 3
    ExpectedSize = 1024
    Acceptors = {a1, a2}
    Clients = {c1}
    MaxEpollSize = 128
    Handler <- Four
    Fd <- Descriptors
    fd <- FdOf
    None <- NoHandler
    Timer = {t1, t2}
    Deleted = Deleted
    SlotSize = 2
    Interval = 2
    Requests <- WheelRequests
    Clock <- WheelClock
    Width = 6
    MaxSize = 20
INVARIANTS
    DeletedLoopsAreUnused
    IndexAgrees
    EventsStayWithHandler
    WheelConsistent
    NoDeadlineMissed
    BitsAreArithmetic
PROPERTIES
    TerminalEndsRun
    PollReportsAll
    ImplementsTimerService
    UpdateReturns
CHECK_DEADLOCK FALSE
