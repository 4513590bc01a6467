SPECIFICATION FairSpec
CONSTANTS
    Session = {1, 2}
    Radix = 2
    AddrSize = 6
    ZeroLen = 1
    MarkLen = 1
    V4Len = 2
    Scopes = {0, 1}
    Settings <- Addresses
    Opener <- Openers
    None = None
    MaxSent = 1
    ReopenAfter <- Settled
    MayDrop = TRUE
    MayUnlisten = TRUE
INVARIANTS
    MuxInv
    TypeOK
    ToggleAgrees
    SessionsApart
    MapSettled
    OneIdentifier
    AddressReported
PROPERTY
    AddressFreed
CHECK_DEADLOCK FALSE
