CONSTANTS
    a1 = a1
    a2 = a2
    NoGeneration = NoGeneration
    NoStatus = NoStatus
    NoRaw = NoRaw
    JobCount = 2
    MaxBatch = 2
    MaxDelta = 1
    SeededMemory = TRUE
    Articles <- OneArticle
    Publication <- OwnStories
    Archives <- Names3
    LegacyQueue <- NoJobs
    Events <- NoEvents
SPECIFICATION Spec
INVARIANTS CompletedIsDelivered
CHECK_DEADLOCK FALSE
