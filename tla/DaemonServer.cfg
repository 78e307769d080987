SPECIFICATION Spec
CONSTANTS
    Requests = {r1, r2, r3}
    Workers = {w1, w2}
    Kinds = {"handshake", "status", "peek", "command", "start", "stop"}
    NoWorker = NoWorker
    NoRequest = NoRequest
SYMMETRY Symmetry
INVARIANTS TypeOK OneOwnerOneReply PendingCanEnd
PROPERTIES NoSilentDrop
CHECK_DEADLOCK FALSE
