CONSTANTS
    Event <- ArbitraryEvents
    Authentic <- ArbitraryAuthentic
    Unstorable <- ArbitraryUnstorable
    Filters <- ArbitraryFilters
    StartTime = 1
    EndTime = 4
    Limit = 3
    RelayCap = 2
    RelayKind = "arbitrary"
SPECIFICATION FairSpec
INVARIANTS
    TypeOK
    AscendingOrder
    OnlyWanted
    RangeCovered
PROPERTY Termination
