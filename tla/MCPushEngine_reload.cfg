SPECIFICATION FairSpec
CONSTANTS
    k1 = k1  k2 = k2  s1 = s1  s2 = s2  c1 = c1  v1 = v1  v2 = v2  a1 = a1
    Chan = {k1}
    Sig = {s1, s2}
    Collector = {}
    Value = {v1}
    Accepts <- AllAccept
    Api = {a1}
    Keepalive = FALSE
    MaxEdits = 2
    MaxCalls = 1
    MaxToggles = 0
    MaxDbFaults = 1
INVARIANTS Accounted StopStopsAll
PROPERTIES FollowsTable
CHECK_DEADLOCK FALSE
