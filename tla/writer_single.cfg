SPECIFICATION Spec
CONSTANTS
    a = a
    None = None
    Conn = {a}
    Openers = {a}
    Radix = 3
    AddrSize = 2
    MaxBytes = 12
    MaxChunk = 11
    CanBreak = FALSE
    MaxBroken = 2
    DropDuringShutdown = FALSE
    CancelHandshake = FALSE
    Diligent = {}
INVARIANTS
    NumberInv
    FramesIntact
    DeliveredMatchesSent
CHECK_DEADLOCK FALSE
