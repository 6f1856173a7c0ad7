CONSTANTS
    a1 = a1
    a2 = a2
    NoGeneration = NoGeneration
    NoStatus = NoStatus
    NoRaw = NoRaw
    JobCount = 1
    MaxBatch = 2
    MaxDelta = 0
    SeededMemory = TRUE
    Articles <- OneArticle
    Publication <- OwnStories
    Archives <- Names3
    LegacyQueue <- NoJobs
    Events <- Operated
SPECIFICATION Spec
INVARIANTS PointerRestorable ListedBodiesExist
CHECK_DEADLOCK FALSE
