CONSTANTS
    Ticks = {loop, ipc}
    MaxChanges = 2
    MaxFaults = 1
    MaxAge = 1
    Horizon = 2
    Kinds = {"normal", "high", "gated"}
    Strategies = {"default", "debounce", "throttle", "rollup"}
    Interval = 1
    Settle = 1
    Suppress = 1
    Period = 2
    Base = "normal"
    Top = "high"
SPECIFICATION ESpec
INVARIANTS
    Conserved
    IngestedOnce
    ChainInOrder
    FineMeansNothingHeld
CHECK_DEADLOCK FALSE
