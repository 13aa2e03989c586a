SPECIFICATION Spec
CONSTANTS
    Requests = {r1, r2, r3}
    Limits = {0, 1, 2}
INVARIANTS
    TypeOK
    NoPhantomSlot
PROPERTIES
    SlotsSpec
