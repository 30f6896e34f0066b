CONSTANTS
    Sessions = {s1, s2}
    Leads = {s1}
    Watches = {w1, w2}
    Ticks = {loop, ipc}
    Dormancy = 2
    Evaluations = {"loop"}
    Limit = 3
    MaxRows = 7
    Hooks = {"h1", "h2", "h3"}
    MaxFaults = 2
    Rows = {1, 2, 3}
    Sizes = {1, 2, 5}
    Cap = 4
    Marker = 1
    Footer = 1
    Attempts = 3
    Keys = {"k1", "k2"}
    Compared = "k1"
    Versions = {0, 1, 2}
    Pieces = {1, 2, 3}
    MaxConcurrency = 2
    MaxBody = 2
    MaxTotal = 6
    Hosts = {"s1", "s2"}
    MaxBeats = 2
    MaxChanges = 1
    Procs = {"p1", "p2"}
    Items = {"i1"}
    NoItem = "none"
    MaxMoves = 6
    Routes = {"r1", "r2"}
    EnvelopeSizes = {1, 2}
    MaxRecords = 3
    MaxBytes = 4
    Batches = 2
    Workspaces = {"w1", "w2"}
    Monitors = {"m1"}
    Observations = {1, 2, 3}
SPECIFICATION MCSpec
INVARIANTS
    Types
    WatchesEndWithTheirSession
    RecordedIsShown
    ObservationsAddUp
    VerdictsAreTrue
    TransactionsAreWhole
    NoStepSkipped
    ComputationsAgree
PROPERTIES
    ReleasedIsSilent
    ReportsAreNews
CHECK_DEADLOCK FALSE
