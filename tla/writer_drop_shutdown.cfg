SPECIFICATION Spec
CONSTANTS
    a = a
    b = b
    None = None
    Conn = {a, b}
    Openers = {}
    Radix = 2
    AddrSize = 1
    MaxBytes = 2
    MaxChunk = 2
    CanBreak = FALSE
    MaxBroken = 2
    DropDuringShutdown = TRUE
    CancelHandshake = FALSE
    Diligent = {}
INVARIANTS
    FramesIntact
CHECK_DEADLOCK FALSE
