SPECIFICATION Spec
CONSTANTS
    Prices <- Marks
    Leverages = {1, 5}
    Atrs = {0, 2}
    MaxLossPct = 8
    MaxLossRoePct = 30
    ProtectPct = 3
    RetracePct = 30
    Tiers <- TwoTiers
    BreakevenLock = 1
    AtrStop = TRUE
    AtrMult = 3
    AtrFloor = 1
    AtrCeiling = 5
    NoiseMult = 1
    Policies <- TwoPolicies
    HardTimeout = 1
    StaleTimeout = 1
    Events = {"add", "leverage", "restart"}
    MaxAdds = 1
    MaxRestarts = 1
CHECK_DEADLOCK FALSE
INVARIANTS TypeOK LockedAboveEntry WinnerNotHeldForLong
PROPERTIES FloorRatchets WinnerNeverHeldAtLoss
