SPECIFICATION Spec
CONSTANTS
    k1 = k1  k2 = k2  s1 = s1  s2 = s2  c1 = c1  v1 = v1  v2 = v2  a1 = a1
    Chan = {k1, k2}
    Sig = {s1, s2}
    Collector = {c1}
    Value = {v1, v2}
    Accepts <- OnlyFirst
    Api = {}
    Keepalive = TRUE
    MaxEdits = 1
    MaxCalls = 0
    MaxToggles = 2
    MaxDbFaults = 0
INVARIANTS TypeOK NoValueWithheld
CHECK_DEADLOCK FALSE
