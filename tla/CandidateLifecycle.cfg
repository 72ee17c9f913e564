CONSTANTS
    u1 = u1
    u2 = u2
    seeder = seeder
    finder = finder
    Url = {u1, u2}
    Enabled = {u1, u2}
    Inserter = {seeder, finder}
    Seeder = seeder
    ToValidate = {TRUE, FALSE}
    CleanupEnabled = TRUE
    MaxFailures = 2
    Interval = 1
    PageSize = 1
    MaxCandidates = 0
    BatchSize = 1
    MaxFaults = 1
SPECIFICATION FairSpec
INVARIANTS
    NoCandidateLost
    OnlyAnsweringPromoted
    ResetsLimited
PROPERTIES
    ProbedOnce
    EventuallyDecided
