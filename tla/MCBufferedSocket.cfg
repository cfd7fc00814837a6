CONSTANTS
    Garbage = Garbage
    NoSender = NoSender
    Sender = {s1, s2}
    Lengths = {1, 3}
    MaxMessages = 3
    SendSize = 2
    RetrieveSize = 2
    MaxBytes = 8
    BufferSize = 3
    ExtraSize = 2
    Handler = {h1, h2}
    Command <- MCCommand
    MaxRequests = 3
    NoAnswer = NoAnswer
    Datum = {d1, d2}
    Zero = Zero
    InitSize = 2
    MaxFields = 3
    Element = {a, b}
    Size = 4
    Wraps = 3
SPECIFICATION SocketSpec
INVARIANTS
    NoSlotRace
    StreamIntact
    ReceivedInOrder
    AnsweredInOrder
    FieldsStay
PROPERTIES
    ImplementsFifo
    PublishedIsPopped
    EverythingIsWritten
    GrowthIsBacklog
CHECK_DEADLOCK FALSE
