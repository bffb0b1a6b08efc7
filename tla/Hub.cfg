SPECIFICATION Spec
CONSTANTS
    Clients = {c1, c2}
    MaxTicks = 2
    MaxVersion = 1
INVARIANTS
    TypeOK
    NewestKept
    CloseLeavesNothing
PROPERTIES
    NeverGoesBack
    LatestDelivered
    CloseAlwaysReturns
