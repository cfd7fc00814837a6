CONSTANTS
    Thread = {t1, t2}
    NoThread = NoThread
    Name = {A, B}
    LogFileCache = 1
    MaxEntries = 3
    MaxFiles = 3
SPECIFICATION Spec
SYMMETRY Symmetry
INVARIANTS
    NothingLost
    BackupOutlivesOneRotation
    ThreadsInOrder
    CrashOnlyDuringRotation
CHECK_DEADLOCK FALSE
