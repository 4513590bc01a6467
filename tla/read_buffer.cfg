SPECIFICATION BufferSpec
CONSTANTS
    Capacity = 4
    MaxStream = 10
    Uninit = Uninit
INVARIANTS
    OffsetsOrdered
    InitializedWritten
    NothingLost
    FullHasBytes
    BufferInv
PROPERTIES
    FifoSpec
