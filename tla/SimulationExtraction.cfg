SPECIFICATION Spec
CONSTANTS
    PlaneCount = 1
    ObserverCount = 2
    MaxActivePortals = 3
    SpawnDelayMin = 3
    SpawnDelayMax = 3
    NaturalTTLMin = 6
    NaturalTTLMax = 6
    PortalEnergyMin = 8
    PortalEnergyMax = 8
    PortalDecayMin = 1
    PortalDecayMax = 1
    UnstablePercent = 0
    InstabilityMinLifetime = 1
    InstabilityCloseMargin = 1
    CreatureMax = 0
    CreatureTransit = 1
    CreatureClearanceMargin = 1
    ObserverTransitMin = 1
    ObserverTransitMax = 2
    ResearchDuration = 1
    LabEnergyMax = 4
    LabRegenPerSec = 1
    CloseCost = 1
    StabilizeCost = 2
    ExtractionCost = 2
    StabilizeBoost = 2
    StabilizeMaxStartEnergy = 2
    ExtractionEnergyMin = 4
    ExtractionEnergyMax = 4
    ExtractionTTLMin = 4
    ExtractionTTLMax = 4
    ExtractionSync = 1
    EmergencyDuration = 2
    RiskSafeHorizon = 2
    RiskInstabilityPenalty = 20
    MaxTime = 9
    MaxPortals = 3
INVARIANTS
    TickNeverFails
    TransitIntegrity
PROPERTIES
    ExplorationDatedOnce
    SynchronizationServesLongest
