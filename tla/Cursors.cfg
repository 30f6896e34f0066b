CONSTANTS
    MaxEvents = 3
    Kinds <- HighOnly
    NetObjects = {"n"}
    ProseObjects = {"n"}
    FirstSeen = {"n"}
    Reservations = {r1}
    Settle = 1
    LeaseTtl = 2
    RecapMax = 10
SPECIFICATION CSpec
INVARIANTS
    FreshDeltaMovesForward
    AwayKeepsItsBaseline
CHECK_DEADLOCK FALSE
