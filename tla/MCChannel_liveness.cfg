SPECIFICATION FairSpec
CONSTANTS
    Local = {m, a}
    Remote = {r}
    Main = m
    Item = {i1, i2}
    Capacity = 1
    MaxCapacity = 1
    Ops = {"receive", "try_send"}
    CanCrash = TRUE
    NoThread = NoThread
    NoItem = NoItem
INVARIANTS NoStrandedItem NoStrandedSpace
PROPERTIES ReceiverServed CloseCompletes
CHECK_DEADLOCK FALSE
