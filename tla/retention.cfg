CONSTANTS
    a1 = a1
    a2 = a2
    NoGeneration = NoGeneration
    NoStatus = NoStatus
    NoRaw = NoRaw
    JobCount = 2
    MaxBatch = 1
    MaxDelta = 1
    SeededMemory = TRUE
    Articles <- TwoArticles
    Publication <- OneStory
    Archives <- Names3
    LegacyQueue <- NoJobs
    Events <- Retention
SPECIFICATION AliasSpec
INVARIANTS DeliveryBetweenCommits NeededIsKept CompletedIsDelivered
PROPERTIES PointerNeverPassesStaged
SYMMETRY Alike
CHECK_DEADLOCK FALSE
