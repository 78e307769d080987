SPECIFICATION FairSpec
CONSTANTS
    Requests = {r1, r2}
    Workers = {w1, w2}
    Kinds = {"handshake", "status", "peek", "command", "start", "stop"}
    NoWorker = NoWorker
    NoRequest = NoRequest
PROPERTIES ClientsSettle Refinement
CHECK_DEADLOCK FALSE
