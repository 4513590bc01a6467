SPECIFICATION FairSpec
CONSTANTS
    Entry = {1, 2}
    Addr = {1, 2}
    None = None
    Capacity = 1
    HeaderSize = 1
    QueueCap = 1
    MaxSent = 2
    MaxFrame = 2
    Settings <- LiveSettings
INVARIANT
    NoLostWakeup
PROPERTY
    EventuallyRead
CHECK_DEADLOCK FALSE
