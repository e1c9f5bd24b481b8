SPECIFICATION FairSpec
CONSTANTS
    NANOS = 3
    Ops = {"try_lock_for", "try_lock_until", "wait_for", "wait_until"}
    Offsets = {2, 6}
    MaxTarget = 6
    MaxDeadline = 8
    MaxTime = 12
INVARIANTS TypeOK NeverEarly PanicNeedsPast
PROPERTIES CallEnds
CHECK_DEADLOCK FALSE
