SPECIFICATION FairSpec
CONSTANTS
    a = a
    b = b
    None = None
    Conn = {a, b}
    Openers = {}
    Radix = 2
    AddrSize = 1
    MaxBytes = 1
    MaxChunk = 1
    CanBreak = FALSE
    MaxBroken = 2
    DropDuringShutdown = FALSE
    CancelHandshake = FALSE
    Diligent = {b}
PROPERTIES
    ShutdownCompletes
CHECK_DEADLOCK FALSE
