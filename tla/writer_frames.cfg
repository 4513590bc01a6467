SPECIFICATION Spec
CONSTANTS
    a = a
    b = b
    None = None
    Conn = {a, b}
    Openers = {a}
    Radix = 2
    AddrSize = 1
    MaxBytes = 4
    MaxChunk = 2
    CanBreak = TRUE
    MaxBroken = 2
    DropDuringShutdown = FALSE
    CancelHandshake = FALSE
    Diligent = {}
INVARIANTS
    StreamInv
    IInv
    LocksReleased
    TypeOK
    FramesIntact
    NeverPoisoned
    StreamOrder
    CleanClose
    ShutdownDelivers
PROPERTIES
    OpenWhileDelivering
CHECK_DEADLOCK FALSE
