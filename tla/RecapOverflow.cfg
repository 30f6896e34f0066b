CONSTANTS
    MaxEvents = 2
    Kinds <- Escalating
    NetObjects = {}
    ProseObjects = {}
    Reservations = {r1}
    Settle = 1
    LeaseTtl = 2
    RecapMax = 1
SPECIFICATION Spec
INVARIANT ClaimedIsRendered
CHECK_DEADLOCK FALSE
