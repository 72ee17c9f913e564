CONSTANTS
    j1 = j1
    j2 = j2
    Job = {j1, j2}
    Requests <- MCRequests
    Relations <- MCRelations
    Enabled <- MCEnabled
    Price <- MCPrice
    MaxPageSize = 2
    DefaultPage = 1
    MaxProcessed = 2
    MaxDelay = 1
    MaxAhead = 1
    MaxNow = 3
    MaxFaults = 1
SPECIFICATION FairSpec
PROPERTIES
    ReplaysLimited
    JobsTaken
