SPECIFICATION Spec
CONSTANTS
    Requests = {r1, r2}
    EmergencyDuration = 1
    MaxTime = 2
    MaxDraws = 1
    MaxCrashes = 1
    MaxFailures = 1
    MaxStepsBack = 1
INVARIANTS
    TypeOK
    RandomMatchesState
PROPERTIES
    TimeNeverRunsBack
    LedgerKept
    EveryCallerAnswered
