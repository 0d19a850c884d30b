SPECIFICATION Spec
CONSTANTS
    dev = dev  chan = chan  hook1 = hook1  hook2 = hook2
    Device = {dev}
    Channel = {chan}
    Threshold <- Twice
    MaxRows = 3
    Hook = {hook1, hook2}
    IngressSize = 1
    QueueSize = 1
    MaxAttempts = 2
    MaxWorkers = 3
    MaxStarts = 2
    Plans <- SmallPlans
INVARIANTS TypeOK ListIsTrue EdgesAlternate Accounted QuietAfterStop
CHECK_DEADLOCK FALSE
