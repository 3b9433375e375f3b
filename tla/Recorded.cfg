SPECIFICATION Spec
CONSTANTS
    btc = btc
    mu = mu
    xyz = xyz
    main = main
    Coins <- TwoCoins
    Sides <- OneSide
    Dexes <- TwoDexes
    Main = main
    DexOf <- OnDex
    Events = {"heartbeat_gap", "reject", "partial_fill", "manual_open"}
    Slots = 2
    MaxOpens = 1
    MaxCloses = 1
    MaxCrashes = 0
INVARIANTS EveryCloseRecorded
