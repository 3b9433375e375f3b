SPECIFICATION FairSpec
CONSTANTS
    btc = btc
    mu = mu
    Coins <- TwoCoins
    Native <- OneNative
    LoopBooks <- OfLoop
    Order <- InOrder
    Late <- LateBook
    SnapOnly <- Momentum
    Eager <- SavesAlways
    Threads = {"late"}
    Events = {"gap", "main_gap", "lost_answer", "stop_fill", "manual_open", "crash"}
    MaxOpens = 2
    MaxCrashes = 1
INVARIANTS EnteredOnce OpenStaysClaimed
PROPERTIES ImplementsBook ClaimsComeFree
