CONSTANTS
    MaxProcs = 2
    MaxFaults = 1
    Detached = {}
SPECIFICATION Spec
INVARIANT NeverTwoDaemons
CHECK_DEADLOCK FALSE
