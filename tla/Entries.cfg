SPECIFICATION Spec
CONSTANTS
    a1 = a1
    a2 = a2
    a3 = a3
    btc = btc
    Analyses = {a1, a2}
    CoinOf <- OneCoin
    Events = {"crash", "lost_answer", "unpriced", "vanish", "server"}
    Cooldown = 1
    LossCooldown = 2
    Window = 2
    Cap = 1
    Recent = 10
    MaxTrades = 100
    MaxTime = 3
    MaxEntries = 2
    MaxCrashes = 1
INVARIANTS ReentryCapped ExecutedOnce
PROPERTIES LossBlocksReentry RowsMatchEntries
SYMMETRY Swap
