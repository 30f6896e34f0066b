CONSTANTS
    MaxEvents = 2
    Kinds <- AllBands
    NetObjects = {"n"}
    ProseObjects = {"p"}
    Reservations = {r1, r2}
    Settle = 1
    LeaseTtl = 2
    RecapMax = 1
SPECIFICATION Spec
SYMMETRY Symmetry
INVARIANTS
    LeasesDisjoint
    AdvertisedIsClaimable
PROPERTY KeepsPromise
CHECK_DEADLOCK FALSE
