SPECIFICATION SafetySpec
CONSTANTS
    Requests = {r1, r2, r3}
    EmergencyDuration = 2
    MaxTime = 4
    MaxDraws = 0
    MaxCrashes = 1
    MaxFailures = 1
    MaxStepsBack = 0
SYMMETRY Interchangeable
INVARIANTS
    MemoryMatchesStore
    OverrideEndsOnce
