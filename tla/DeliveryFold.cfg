CONSTANTS
    MaxEvents = 3
    Kinds <- Escalating
    NetObjects = {"n"}
    ProseObjects = {}
    Reservations = {r1}
    Settle = 1
    LeaseTtl = 2
    RecapMax = 1
SPECIFICATION Spec
INVARIANTS
    TypeOK
    ClaimedWasTold
    DiagnosisMatchesClaim
    FoldedHasSurvivor
CHECK_DEADLOCK FALSE
