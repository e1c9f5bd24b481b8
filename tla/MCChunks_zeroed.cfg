SPECIFICATION Spec
CONSTANTS
    Thread = {p}
    MaxChunks = 2
    CHUNK_SIZE = 2
    Sizes = {1, 3}
    AllocOps = {"alloc", "alloc_zeroed"}
    NoThread = NoThread
INVARIANTS ZeroedIsZero
CHECK_DEADLOCK FALSE
