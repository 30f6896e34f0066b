CONSTANTS
    MaxProcs = 3
    MaxFaults = 1
    Detached = {1}
    Calls = {1, 2}
    Foreign = {1}
    MaxBytes = 2
    Cap = 2
    Writers = {"p1", "p2"}
    Loop = "p1"
    MaxChanges = 1
    MaxVisits = 2
    Hosts = {"s1", "s2"}
    Channels = {"c1", "c2"}
    TTL = 2
    ReapAfter = 1
    BootGrace = 2
    MaxBoots = 1
    MaxMisses = 1
    Interval = 4
    Margin = 1
    Settles = {0, 5}
    ClaimSettle = 2
    BootTimeout = 2
    CommandCap = 3
    MaxMishaps = 1
SPECIFICATION MCSpec
INVARIANTS
    WhatIsToldIsTrue
    OneDaemon
    RunIsClean
PROPERTIES
    SomeoneServes
    AttachedKeepsAlive
    DesertedIsReleased
    AdmittedIsAnswered
    NothingHangs
    FilesCatchUp
    EnabledIsWired
CHECK_DEADLOCK FALSE
