SPECIFICATION FairSpec
CONSTANTS
    Sockets = {s1, s2, s3}
    Calls = {c1, c2}
    NoSocket = NoSocket
    Options <- Options_
    MaxReconnects = 2
    MaxMissedPongs = 3
INVARIANTS TypeOK NothingLeaks
PROPERTIES NoCollateralReject CallersAreServed
CHECK_DEADLOCK FALSE
