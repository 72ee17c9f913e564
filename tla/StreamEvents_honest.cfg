CONSTANTS
    Event <- HonestEvents
    Authentic <- HonestEvents
    Unstorable <- HonestUnstorable
    Filters <- OneFilter
    StartTime = 1
    EndTime = 4
    Limit = 3
    RelayCap = 2
    RelayKind = "honest"
SPECIFICATION Spec
INVARIANTS
    PrefixComplete
PROPERTY ImplementsOrderedDelivery
