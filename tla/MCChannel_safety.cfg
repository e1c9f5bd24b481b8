SPECIFICATION Spec
CONSTANTS
    Local = {m, a}
    Remote = {r}
    Main = m
    Item = {i1, i2}
    Capacity = 1
    MaxCapacity = 2
    Ops = {"receive", "try_receive_until", "try_receive_once", "wait_for_message_until", "try_send", "try_send_until", "try_send_once"}
    CanCrash = TRUE
    NoThread = NoThread
    NoItem = NoItem
INVARIANTS TypeOK LockDiscipline NoOrphanedLock CountersMatchHandles CreatorNeverDangles EmptyHandedTellsTruth
SYMMETRY Symmetry
PROPERTIES LeakNeedsRemoteUser ImplementsFifo
CHECK_DEADLOCK FALSE
