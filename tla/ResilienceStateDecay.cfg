SPECIFICATION Spec
CONSTANTS
    PenaltyPer429 = 2
    MaxPenalty = 4
    DecayInterval = 4
    CooldownTicks = 3
PROPERTIES
    PenaltySurvivesRestart
