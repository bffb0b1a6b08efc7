SPECIFICATION Spec
CONSTANTS
    PlaneCount = 1
    ObserverCount = 1
    MaxActivePortals = 2
    SpawnDelayMin = 1
    SpawnDelayMax = 1
    NaturalTTLMin = 4
    NaturalTTLMax = 4
    PortalEnergyMin = 3
    PortalEnergyMax = 3
    PortalDecayMin = 1
    PortalDecayMax = 1
    UnstablePercent = 35
    InstabilityMinLifetime = 1
    InstabilityCloseMargin = 1
    CreatureMax = 1
    CreatureTransit = 1
    CreatureClearanceMargin = 1
    ObserverTransitMin = 1
    ObserverTransitMax = 2
    ResearchDuration = 1
    LabEnergyMax = 4
    LabRegenPerSec = 1
    CloseCost = 1
    StabilizeCost = 2
    ExtractionCost = 3
    StabilizeBoost = 2
    StabilizeMaxStartEnergy = 2
    ExtractionEnergyMin = 4
    ExtractionEnergyMax = 4
    ExtractionTTLMin = 4
    ExtractionTTLMax = 4
    ExtractionSync = 1
    EmergencyDuration = 2
    RiskSafeHorizon = 2
    RiskInstabilityPenalty = 20
    MaxTime = 5
    MaxPortals = 3
INVARIANTS
    TypeOK
    TickNeverFails
    OverrideTracksLatestCollapse
    EnergyOnlyRegenerates
PROPERTIES
    LostExactlyByEarlierEnd
    HistoryFrozen
    PausedExactlyAtCapacity
