SPECIFICATION Spec
CONSTANTS
    btc = btc
    mu = mu
    xyz = xyz
    main = main
    Coins <- TwoCoins
    Sides <- OneSide
    Dexes <- TwoDexes
    Main = main
    DexOf <- OnDex
    Events = {"heartbeat_gap", "stop_fill", "manual_open", "reject", "lost_answer", "unpriced", "crash"}
    Slots = 2
    MaxOpens = 2
    MaxCloses = 1
    MaxCrashes = 1
INVARIANTS NoPhantomClose PolicyKept NeverStacksOwnPosition
PROPERTIES ImplementsBook
