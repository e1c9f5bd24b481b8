SPECIFICATION Spec
CONSTANTS
    NANOS = 3
    Ops = {"try_lock_until"}
    Offsets = {6}
    MaxTarget = 6
    MaxDeadline = 8
    MaxTime = 12
INVARIANTS DeadlineKept
CHECK_DEADLOCK FALSE
