SPECIFICATION Spec
CONSTANTS
    Local = {m}
    Remote = {r}
    Main = m
    Item = {i1}
    Capacity = 1
    MaxCapacity = 1
    Ops = {"receive", "try_send"}
    CanCrash = FALSE
    NoThread = NoThread
    NoItem = NoItem
INVARIANTS SoleReferenceAtFree
CHECK_DEADLOCK FALSE
