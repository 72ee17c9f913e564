CONSTANTS
    r1 = r1
    r2 = r2
    r3 = r3
    n1 = n1
    n2 = n2
    Relay = {r1, r2, r3}
    Network = {n1, n2}
    NetworkOf <- MCNetwork
    MaxTasks <- OneTask
    History <- MCHistory
    BatchSize = 2
    ChunkSize = 1
    MaxEnd = 2
    MaxFaults = 2
SPECIFICATION FairSpec
INVARIANTS
    TypeOK
    CursorSafe
    NothingLeftBehind
PROPERTIES
    CursorNeverBack
    EventuallySynced
