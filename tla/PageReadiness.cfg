SPECIFICATION FairSpec
CONSTANTS
    Requests = {r1, r2, r3}
    MaxHops = 1
    Threshold = 2
INVARIANTS TypeOK ObserverRemoved
PROPERTIES CounterIsSound ReadinessEnds
CHECK_DEADLOCK FALSE
