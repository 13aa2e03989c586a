SPECIFICATION Spec
CONSTANTS
    PenaltyPer429 = 2
    MaxPenalty = 3
    DecayInterval = 2
    CooldownTicks = 3
INVARIANTS
    TypeOK
PROPERTIES
    CooldownSurvivesRestart
    RestartNeverAddsPenalty
    ForgivenEventually
