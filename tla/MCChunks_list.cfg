SPECIFICATION FairSpec
CONSTANTS
    Thread = {p, q}
    MaxChunks = 5
    CHUNK_SIZE = 2
    Sizes <- MCSizes
    AllocOps = {"alloc"}
    NoThread = NoThread
INVARIANTS TypeOK Partition SelfCheck RoomToPush
PROPERTIES ImplementsAllocator CallsReturn
CHECK_DEADLOCK FALSE
