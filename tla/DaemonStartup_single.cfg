SPECIFICATION Spec
CONSTANTS
    Clis = {c1, c2}
    Daemons = {d1, d2}
    Absent = Absent
    Scenarios <- Race
INVARIANTS OneDaemon
CHECK_DEADLOCK FALSE
