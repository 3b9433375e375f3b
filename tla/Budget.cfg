SPECIFICATION FairSpec
CONSTANTS
    t1 = t1
    t2 = t2
    t3 = t3
    Threads <- TwoThreads
    Capacity = 4
    Refill = 1
    Weights = {1, 3}
    MaxWait = 4
    MaxNap = 2
    MaxLag = 4
    MaxWindow = 3
INVARIANTS TypeOK WindowBound
PROPERTIES ImplementsBudget RefusedOnlyWhenContended EveryCallReturns
