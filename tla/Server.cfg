SPECIFICATION ServerSpec
CONSTANTS
    Requests = {r1, r2}
    WebSockets = {r1}
    Labs = {l1, l2}
    SessionTTL = 2
    SessionRefreshInterval = 1
    MaxTime = 2
    None = None
INVARIANTS
    StoreClosedLast
    EveryHubClosed
PROPERTIES
    ShutdownCompletes
