SPECIFICATION Spec
CONSTANTS
    Clis = {c1, c2, c3}
    Daemons = {d1, d2, d3}
    Absent = Absent
    Scenarios <- Tidy
INVARIANTS OneDaemon
CHECK_DEADLOCK FALSE
