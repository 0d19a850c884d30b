SPECIFICATION Spec
CONSTANTS
    b1 = b1  b2 = b2  b3 = b3  b4 = b4  b5 = b5  b6 = b6
    p1 = p1  p2 = p2  w1 = w1  w2 = w2
    Batch = {b1, b2, b3}
    Producer = {p1}
    Worker = {w1}
    QueueSize = 1
    SpoolChSize = 1
    DrainWindow = 2
    TrimInterval = 2
    TrimChunk = 1
    WriteBatch = 2
    SpoolCap = 1
    SpoolEnabled = TRUE
    PoisonPolicy = TRUE
    NarrowPolicy = TRUE
    Backstop = TRUE
    DbFaultOps = {"seed"}
    MaxDbFaults = 1
    MaxRestarts = 1
    MaxRows = 2
    Conflict <- NoConflict
    Refused = {}
    RejectDisconnects = FALSE
    MaxFaults = 0
INVARIANTS NothingVanishes CountIsRows
SYMMETRY Symmetry
CHECK_DEADLOCK FALSE
