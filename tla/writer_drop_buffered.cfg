SPECIFICATION Spec
CONSTANTS
    a = a
    b = b
    None = None
    Conn = {a, b}
    Openers = {}
    Radix = 2
    AddrSize = 1
    MaxBytes = 2
    MaxChunk = 2
    CanBreak = FALSE
    MaxBroken = 2
    DropDuringShutdown = FALSE
    CancelHandshake = FALSE
    Diligent = {}
INVARIANTS
    DropDelivers
CHECK_DEADLOCK FALSE
