SPECIFICATION Spec
CONSTANTS
    Conn = {c1, c2}
    Fd = {1, 2}
    NLoops = 2
    Acceptor = acceptor
    None = none
SYMMETRY ConnSymmetry
INVARIANTS
    EventsReachTheirOwner
    FiredHandlersAreAlive
    ShutdownOutlivedOnlyByUpdate
    AnnouncedBeforeDismissed
    StaleEntryOnlyIfLate
    ClosedOnlyAfterWriteError
