CONSTANTS
    Event <- SlowEvents
    Authentic <- SlowEvents
    Unstorable <- None
    Filters <- SlowFilter
    StartTime = 1
    EndTime = 2
    Limit = 2
    RelayCap = 2
    RelayKind = "slow"
SPECIFICATION Spec
INVARIANT PrefixComplete
