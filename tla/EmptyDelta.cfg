CONSTANTS
    MaxEvents = 2
    Kinds <- HighOnly
    NetObjects = {"n"}
    ProseObjects = {}
    FirstSeen = {}
    Reservations = {r1}
    Settle = 1
    LeaseTtl = 2
    RecapMax = 10
SPECIFICATION CSpec
INVARIANT DeltaSaysSomething
CHECK_DEADLOCK FALSE
