CONSTANTS
    a1 = a1
    a2 = a2
    NoGeneration = NoGeneration
    NoStatus = NoStatus
    NoRaw = NoRaw
    JobCount = 2
    MaxBatch = 2
    MaxDelta = 0
    SeededMemory = TRUE
    Articles <- OneArticle
    Publication <- OwnStories
    Archives <- Names2
    LegacyQueue <- NoJobs
    Events <- Recovering
SPECIFICATION FairSpec
PROPERTIES QueueDrains ImplementsDelivery
CHECK_DEADLOCK FALSE
