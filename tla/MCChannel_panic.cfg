SPECIFICATION Spec
CONSTANTS
    Local = {m, a}
    Remote = {r}
    Main = m
    Item = {i1}
    Capacity = 1
    MaxCapacity = 1
    Ops = {"try_receive_until", "try_send"}
    CanCrash = FALSE
    NoThread = NoThread
    NoItem = NoItem
INVARIANTS WaitedForSomething
CHECK_DEADLOCK FALSE
