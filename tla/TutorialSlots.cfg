SPECIFICATION SlotsSpec
CONSTANTS
    PlaneCount = 1
    ObserverCount = 4
    MaxActivePortals = 4
    SpawnDelayMin = 4
    SpawnDelayMax = 4
    NaturalTTLMin = 2
    NaturalTTLMax = 60
    PortalEnergyMin = 20
    PortalEnergyMax = 200
    PortalDecayMin = 1
    PortalDecayMax = 1
    UnstablePercent = 35
    InstabilityMinLifetime = 1
    InstabilityCloseMargin = 1
    CreatureMax = 1
    CreatureTransit = 1
    CreatureClearanceMargin = 1
    ObserverTransitMin = 1
    ObserverTransitMax = 1
    ResearchDuration = 4
    LabEnergyMax = 100
    LabRegenPerSec = 5
    CloseCost = 5
    StabilizeCost = 20
    ExtractionCost = 30
    StabilizeBoost = 30
    StabilizeMaxStartEnergy = 170
    ExtractionEnergyMin = 200
    ExtractionEnergyMax = 200
    ExtractionTTLMin = 12
    ExtractionTTLMax = 12
    ExtractionSync = 1
    EmergencyDuration = 4
    RiskSafeHorizon = 9
    RiskInstabilityPenalty = 20
    TutorialEnergy = 200
    TutorialDecay = 1
    TutorialTTL = 24
    TutorialCreatures = 1
    UnstableEnergy = 50
    UnstableDecay = 10
    UnstableCollapse = 23
    CriticalTTL = 2
    MaxTime = 13
    MaxPortals = 8
INVARIANT ScenarioRepaired
