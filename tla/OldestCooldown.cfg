SPECIFICATION Spec
CONSTANTS
    a1 = a1
    a2 = a2
    a3 = a3
    btc = btc
    Analyses = {a1, a2, a3}
    CoinOf <- OneCoin
    Events = {}
    Cooldown = 2
    LossCooldown = 0
    Window = 2
    Cap = 0
    Recent = 10
    MaxTrades = 100
    MaxTime = 3
    MaxEntries = 3
    MaxCrashes = 0
PROPERTIES CooldownKept
