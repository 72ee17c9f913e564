CONSTANTS
    r1 = r1
    r2 = r2
    r3 = r3
    t1 = t1
    Found <- MCFound
    Network <- MCNetwork
    Target <- MCTarget
    Keys <- MCKeys
    Discovery = TRUE
    Compute = {"nip11_info", "nip66_geo"}
    Store = {"nip11_info"}
    Retries <- MCRetries
    MaxTasks <- MCMaxTasks
    MaxRelays = 2
    ChunkSizes = {1, 2}
    BatchSize = 1
    Interval = 0
    KeyInterval = 1
    MaxNow = 2
    MaxFaults = 1
SPECIFICATION FairSpec
PROPERTIES
    DownloadFailureTolerated
