SPECIFICATION FairSpec
CONSTANTS
    b1 = b1
    r1 = r1
    r2 = r2
    Torn = torn
    Books = {b1}
    NeverPromote = {}
    Requests = {r1, r2}
    Events = {"api", "mcp", "cycle", "die"}
    MaxUpdates = 2
    MaxTurns = 1
    MaxDeaths = 1
INVARIANTS OffHolds LiveIsEarned TornOnlyInPlace
PROPERTIES BleedStops
