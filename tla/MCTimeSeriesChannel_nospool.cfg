SPECIFICATION Spec
CONSTANTS
    b1 = b1  b2 = b2  b3 = b3  b4 = b4  b5 = b5  b6 = b6
    p1 = p1  p2 = p2  w1 = w1  w2 = w2
    Batch = {b1, b2, b3}
    Producer = {p1, p2}
    Worker = {w1, w2}
    QueueSize = 1
    SpoolChSize = 1
    DrainWindow = 2
    TrimInterval = 1
    TrimChunk = 1
    WriteBatch = 2
    SpoolCap = 2
    SpoolEnabled = FALSE
    PoisonPolicy = TRUE
    NarrowPolicy = TRUE
    Backstop = TRUE
    DbFaultOps = {}
    MaxDbFaults = 0
    MaxRestarts = 0
    MaxRows = 2
    Conflict <- FirstTwoConflict
    Refused = {b3}
    RejectDisconnects = FALSE
    MaxFaults = 1
INVARIANT DroppedExact
CHECK_DEADLOCK FALSE
