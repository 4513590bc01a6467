SPECIFICATION FairSpec
CONSTANTS
    a = a
    b = b
    None = None
    Conn = {a, b}
    Openers = {a}
    Radix = 2
    AddrSize = 1
    MaxBytes = 2
    MaxChunk = 1
    CanBreak = FALSE
    MaxBroken = 2
    DropDuringShutdown = TRUE
    CancelHandshake = TRUE
    Diligent = {a, b}
INVARIANTS
    MutexInv
PROPERTIES
    ShutdownCompletes
    DropCompletes
CHECK_DEADLOCK FALSE
