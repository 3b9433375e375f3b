SPECIFICATION FairSpec
CONSTANTS
    alerts = alerts
    cycle = cycle
    backup = backup
    Jobs = {alerts, cycle, backup}
    Order <- JobsInOrder
    Fast <- OfMinutes
    ByHand = {cycle}
    MaxConcurrent = 2
    Events = {"crash", "disk", "force"}
    MaxFaults = 1
INVARIANTS OncePerOccurrence OkIsEarned
PROPERTIES NothingMissed
