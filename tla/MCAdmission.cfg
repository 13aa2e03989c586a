SPECIFICATION Spec
CONSTANTS
    r1 = r1  r2 = r2  slow = slow  other = other  Global = Global
    Requests = {r1, r2}
    Channels = {slow, other}
    Overridden = {slow}
    RPM <- MCRPM
    TPM <- MCTPM
    MinInterval <- MCMinInterval
    MaxWait = 1
    MaxConcurrent = 1
    CostLimit = 2
    Minute = 1
INVARIANTS
    TypeOK
    ConcurrencyExact
    CostOvershootBounded
PROPERTIES
    RequestEnds
