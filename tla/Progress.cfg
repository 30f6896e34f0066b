CONSTANTS
    w1 = w1
    w2 = w2
    Tokens = {w1, w2}
    MaxVersion = 2
    MaxChain = 2
    MaxRestarts = 1
    Packages <- PackageDirs
    MaxRelease = 1
    Settle = 1
    DetectCap = 2
    Budget = 2
    Dormancy = 6
    MaxFaults = 2
SPECIFICATION MCSpec
INVARIANT DoneMeansDone
PROPERTIES
    BaselineNeverRewinds
    AlwaysDriven
    HeldIsEmitted
    Reconciles
    LeavesNoTrace
CHECK_DEADLOCK FALSE
