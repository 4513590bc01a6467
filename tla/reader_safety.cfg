SPECIFICATION Spec
CONSTANTS
    Entry = {1, 2}
    Addr = {1, 2}
    None = None
    Capacity = 2
    HeaderSize = 2
    QueueCap = 1
    MaxSent = 3
    MaxFrame = 3
    Settings <- SafetySettings
INVARIANTS
    WakeInv
    TypeOK
    EosComplete
    DataWakes
    RoomWakes
    AcceptWakes
    MapAgrees
PROPERTY
    Demultiplexed
CHECK_DEADLOCK FALSE
