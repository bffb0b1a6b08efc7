SPECIFICATION TutorialSpec
CONSTANTS
    PlaneCount = 1
    ObserverCount = 2
    MaxActivePortals = 3
    SpawnDelayMin = 1
    SpawnDelayMax = 1
    NaturalTTLMin = 4
    NaturalTTLMax = 4
    PortalEnergyMin = 9
    PortalEnergyMax = 9
    PortalDecayMin = 1
    PortalDecayMax = 1
    UnstablePercent = 35
    InstabilityMinLifetime = 1
    InstabilityCloseMargin = 1
    CreatureMax = 1
    CreatureTransit = 1
    CreatureClearanceMargin = 1
    ObserverTransitMin = 1
    ObserverTransitMax = 1
    ResearchDuration = 1
    LabEnergyMax = 1
    LabRegenPerSec = 0
    CloseCost = 1
    StabilizeCost = 0
    ExtractionCost = 1
    StabilizeBoost = 2
    StabilizeMaxStartEnergy = 7
    ExtractionEnergyMin = 9
    ExtractionEnergyMax = 9
    ExtractionTTLMin = 5
    ExtractionTTLMax = 5
    ExtractionSync = 1
    EmergencyDuration = 2
    RiskSafeHorizon = 5
    RiskInstabilityPenalty = 20
    TutorialEnergy = 9
    TutorialDecay = 1
    TutorialTTL = 5
    TutorialCreatures = 1
    UnstableEnergy = 3
    UnstableDecay = 1
    UnstableCollapse = 4
    CriticalTTL = 1
    MaxTime = 6
    MaxPortals = 6
INVARIANTS
    TargetOffered
    ReturnAwaited
    TutorialTickNeverFails
