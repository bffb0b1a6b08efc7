SPECIFICATION Spec
CONSTANTS
    Requests = {r1, r2, r3}
    WebSockets = {r3}
    Labs = {l1, l2}
    SessionTTL = 2
    SessionRefreshInterval = 1
    MaxTime = 2
    None = None
INVARIANTS
    OneManagerPerLab
    UsedLabsKept
    ResolvedLabKept
PROPERTIES
    AcquireAnswered
    ExpiredLabsGo
