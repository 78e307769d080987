SPECIFICATION FairSpec
CONSTANTS
    Clis = {c1, c2, c3}
    Daemons = {d1, d2, d3}
    Absent = Absent
    Scenarios <- Scenarios_
INVARIANTS TypeOK OneReachableDaemon LeftoversAreHarmless
PROPERTIES EveryLaunchEnds
CHECK_DEADLOCK FALSE
