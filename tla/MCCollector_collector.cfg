SPECIFICATION Spec
CONSTANTS
    rtu = rtu  tcp = tcp  fast = fast  slow = slow  w1 = w1  w2 = w2
    http = http  api = api  watcher = watcher
    Device = {rtu, tcp}
    Serial = {rtu}
    Group = {fast, slow}
    Points <- Both
    Worker = {w1, w2}
    QueueSize = 1
    Batches = 2
    Caller = {http}
    Manager = {api, watcher}
    Watcher = watcher
    MaxTasks = 8
    MaxConf = 1
    Plans <- SmallPlans
INVARIANTS TypeOK DriverSafe MarksMatch 
PROPERTY OpsReturn
CHECK_DEADLOCK FALSE
