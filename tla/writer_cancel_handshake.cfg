SPECIFICATION Spec
CONSTANTS
    a = a
    b = b
    None = None
    Conn = {a, b}
    Openers = {a}
    Radix = 2
    AddrSize = 1
    MaxBytes = 1
    MaxChunk = 2
    CanBreak = FALSE
    MaxBroken = 2
    DropDuringShutdown = FALSE
    CancelHandshake = TRUE
    Diligent = {}
INVARIANTS
    CleanClose
CHECK_DEADLOCK FALSE
