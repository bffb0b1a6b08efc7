SPECIFICATION LogSpec
CONSTANTS
    PlaneCount = 1
    ObserverCount = 1
    MaxActivePortals = 2
    SpawnDelayMin = 1
    SpawnDelayMax = 1
    NaturalTTLMin = 5
    NaturalTTLMax = 5
    PortalEnergyMin = 4
    PortalEnergyMax = 4
    PortalDecayMin = 1
    PortalDecayMax = 1
    UnstablePercent = 35
    InstabilityMinLifetime = 4
    InstabilityCloseMargin = 1
    CreatureMax = 0
    CreatureTransit = 1
    CreatureClearanceMargin = 1
    ObserverTransitMin = 1
    ObserverTransitMax = 1
    ResearchDuration = 1
    LabEnergyMax = 3
    LabRegenPerSec = 1
    CloseCost = 1
    StabilizeCost = 2
    ExtractionCost = 2
    StabilizeBoost = 2
    StabilizeMaxStartEnergy = 2
    ExtractionEnergyMin = 4
    ExtractionEnergyMax = 4
    ExtractionTTLMin = 4
    ExtractionTTLMax = 4
    ExtractionSync = 1
    EmergencyDuration = 2
    RiskSafeHorizon = 3
    RiskInstabilityPenalty = 20
    MaxTime = 7
    MaxPortals = 3
INVARIANTS
    LogAccountsForState
    HistoryWithinLife
