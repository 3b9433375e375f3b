SPECIFICATION FairAccountSpec
CONSTANTS
    main = main
    xyz = xyz
    Dexes <- TwoDexes
    Main = main
    StartEquity <- TwoAndOne
    LossPct = 50
    LossUsd = 100
    SpikePct = 40
    SpikeTicks = 2
    MissAccept = 1
    Events = {"trade", "transfer", "external_close", "gap", "ledger_lag",
              "close_fails", "restart"}
    MaxOutage = 2
    MaxDays = 2
    MaxMoves = 2
    MaxTransfers = 1
    MaxRestarts = 1
INVARIANTS NoPhantomFlatten PnlIsTrading
PROPERTIES BaselineOncePerDay BreachIsFlattened
