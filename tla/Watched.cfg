SPECIFICATION FairSpec
CONSTANTS
    btc = btc
    mu = mu
    xyz = xyz
    main = main
    Coins <- OneCoin
    Sides <- BothSides
    Dexes <- TwoDexes
    Main = main
    DexOf <- OneOnDex
    Events = {"heartbeat_gap", "close_gap", "main_gap", "kill", "stop_fill", "manual_open", "mcp", "reject", "lost_answer", "unpriced", "partial_fill", "crash"}
    Slots = 1
    MaxOpens = 1
    MaxCloses = 2
    MaxCrashes = 1
PROPERTIES EveryPositionWatched NoOrphanTracker
