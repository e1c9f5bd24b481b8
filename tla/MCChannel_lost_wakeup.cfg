SPECIFICATION FairSpec
CONSTANTS
    Local = {m, a}
    Remote = {r}
    Main = m
    Item = {i1}
    Capacity = 1
    MaxCapacity = 1
    Ops = {"receive", "try_send"}
    CanCrash = FALSE
    NoThread = NoThread
    NoItem = NoItem
PROPERTIES LastSenderWakesReceivers
CHECK_DEADLOCK FALSE
