SPECIFICATION Spec
CONSTANTS
    a = a
    b = b
    None = None
    Conn = {a, b}
    Openers = {}
    Radix = 2
    AddrSize = 1
    MaxBytes = 5
    MaxChunk = 4
    CanBreak = FALSE
    MaxBroken = 2
    DropDuringShutdown = FALSE
    CancelHandshake = FALSE
    Diligent = {}
INVARIANTS
    DeliveredMatchesSent
CHECK_DEADLOCK FALSE
