SPECIFICATION FairSpec
CONSTANTS
    Loop = Loop
    Server = Server
    Sched = Sched
    Rotator = Rotator
    byLoop = byLoop
    bySched = bySched
    bySched2 = bySched2
    Op = Op
    Components = {Loop, Sched}
    Passes <- TwoPasses
    HostOf <- Hosts
    Requests = {"sched", "restart", "stoploop"}
    MaxRestarts = 1
    Events = {"crash", "dies", "ps_fails", "hang", "hour", "disk"}
    MaxRequests = 1
    MaxFaults = 1
    MaxSlips = 1
    MaxCopies = 2
INVARIANTS OperatorWins CrashLoopEnds
PROPERTIES HealthyIsLeftAlone WatchRevives
