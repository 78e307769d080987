SPECIFICATION MCSpec
CONSTANTS
    Sessions <- MCSessions
    Ports = {p1, p2}
    Runs = {k1, k2, k3}
    Configs <- AllConfigs
INVARIANTS TypeOK BrowserIsAccounted StopIsComplete ChromeTypeOK OrphanIsNamed
PROPERTIES WorkerEnds OwnBrowser
CHECK_DEADLOCK FALSE
