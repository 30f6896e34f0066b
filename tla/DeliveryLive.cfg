CONSTANTS
    MaxEvents = 2
    Kinds <- Escalating
    NetObjects = {"n"}
    ProseObjects = {}
    Reservations = {r1}
    Settle = 1
    LeaseTtl = 2
    RecapMax = 1
SPECIFICATION FairSpec
PROPERTY PendingIsTold
CHECK_DEADLOCK FALSE
