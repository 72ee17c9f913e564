CONSTANTS
    r1 = r1
    r2 = r2
    u1 = u1
    u2 = u2
    u3 = u3
    s1 = s1
    s2 = s2
    Relay = {r1, r2}
    EventId = {1, 2}
    Url = {u1, u2, u3}
    Mentions <- PairMentions
    Source = {s1, s2}
    Configured = {s1}
    Enabled = {s1}
    Lists <- MCLists
    Cooldown = 1
    ScanSize = 1
    BatchSize = 2
    Parallel = 1
    ChunkSize = 1
    SplitSeconds = FALSE
    MaxTime = 2
    MaxFaults = 1
SPECIFICATION FairSpec
INVARIANTS
    TypeOK
    CursorCovers
PROPERTIES
    EventuallyFound
