SPECIFICATION Spec
CONSTANTS
    b1 = b1  b2 = b2  b3 = b3  b4 = b4  b5 = b5  b6 = b6
    p1 = p1  p2 = p2  w1 = w1  w2 = w2
    Batch = {b1, b2}
    Producer = {p1}
    Worker = {w1}
    QueueSize = 1
    SpoolChSize = 1
    DrainWindow = 2
    TrimInterval = 1
    TrimChunk = 1
    WriteBatch = 2
    SpoolCap = 1
    SpoolEnabled = TRUE
    PoisonPolicy = TRUE
    NarrowPolicy = TRUE
    Backstop = TRUE
    DbFaultOps = {"insert", "fetch", "delete", "trim"}
    MaxDbFaults = 1
    MaxRestarts = 0
    MaxRows = 2
    Conflict <- NoConflict
    Refused = {b2}
    RejectDisconnects = FALSE
    MaxFaults = 1
INVARIANTS OneCustodian
PROPERTIES KeepsCustody BlameIsIsolated ReplayInOrder
CHECK_DEADLOCK FALSE
