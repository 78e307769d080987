SPECIFICATION WorkerSpec
CONSTANTS
    Sessions <- MCSessions
    Ports = {p1, p2}
    Runs = {k1, k2}
    Configs <- AllConfigs
INVARIANTS StopWritesOutput
CHECK_DEADLOCK FALSE
