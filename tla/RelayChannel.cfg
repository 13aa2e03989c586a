SPECIFICATION Spec
CONSTANTS
    Handlers = {h1, h2}
    Pinned = {h1}
    Operators = {o1}
INVARIANTS
    TypeOK
    DurableAtRest
PROPERTIES
    OutageNoticed
    OutageForgotten
