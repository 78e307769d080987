SPECIFICATION FairSpec
CONSTANTS
    Requests = {r1, r2, r3}
    MaxHops = 1
    MaxRequests = 2
    Filtered <- Filtered_
    NoEntry = NoEntry
INVARIANTS TypeOK RecordIsTrue
PROPERTIES StaleGoes
CHECK_DEADLOCK FALSE
