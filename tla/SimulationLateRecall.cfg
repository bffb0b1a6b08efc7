SPECIFICATION Spec
CONSTANTS
    PlaneCount = 1
    ObserverCount = 2
    MaxActivePortals = 3
    SpawnDelayMin = 2
    SpawnDelayMax = 2
    NaturalTTLMin = 8
    NaturalTTLMax = 8
    PortalEnergyMin = 9
    PortalEnergyMax = 9
    PortalDecayMin = 1
    PortalDecayMax = 1
    UnstablePercent = 0
    InstabilityMinLifetime = 1
    InstabilityCloseMargin = 1
    CreatureMax = 0
    CreatureTransit = 1
    CreatureClearanceMargin = 1
    ObserverTransitMin = 1
    ObserverTransitMax = 1
    ResearchDuration = 2
    LabEnergyMax = 4
    LabRegenPerSec = 1
    CloseCost = 1
    StabilizeCost = 2
    ExtractionCost = 3
    StabilizeBoost = 2
    StabilizeMaxStartEnergy = 2
    ExtractionEnergyMin = 6
    ExtractionEnergyMax = 6
    ExtractionTTLMin = 6
    ExtractionTTLMax = 6
    ExtractionSync = 1
    EmergencyDuration = 2
    RiskSafeHorizon = 2
    RiskInstabilityPenalty = 20
    MaxTime = 9
    MaxPortals = 3
PROPERTIES
    ReturnFollowsResearch
