CONSTANTS
    r1 = r1
    r2 = r2
    i1 = i1
    i2 = i2
    None = None
    Requests <- TwoRequests
    Instances <- TwoInstances
    Kinds <- AllKinds
    Slots = 1
    PendingLimit = 1
    Chunks = 2
    MaxCrashes = 1
SPECIFICATION Spec
SYMMETRY Symmetry
INVARIANTS TypeOK DescriptorsAreComplete AnswersAreWhole TasksAreTracked
CHECK_DEADLOCK FALSE
