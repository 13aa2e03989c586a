SPECIFICATION Spec
CONSTANTS
    r1 = r1  r2 = r2
    own = own  platform = platform
    s1 = s1  s2 = s2
    k1 = k1  k2 = k2  k3 = k3
    chat = chat
    NoSession = NoSession  NoStep = NoStep  NoKey = NoKey
    Requests = {r1, r2}
    Channels = {own, platform}
    Steps = {s1, s2}
    Enterprise = {own}
    ChannelOf <- MCChannelOf
    KeysOf <- MCKeysOf
    MaxConcurrent <- MCMaxConcurrent
    Plans <- MCPlans
    UnhealthySets <- MCUnhealthySets
    SessionOf <- MCSessionOf
    Failures = {"rate", "auth", "network"}
    CooldownTicks = 1
    MaxFailures = 1
    ResetTimeout = 1
    PenaltyPer429 = 1
    MaxPenalty = 1
    DecayInterval = 1
    StickyEnabled = TRUE
    HealthCheckEnabled = TRUE
    PenaltyEnabled = TRUE
    CooldownEnabled = TRUE
PROPERTIES
    NoKeyPassedOver
