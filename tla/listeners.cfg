CONSTANTS
    r1 = r1
    r2 = r2
    i1 = i1
    i2 = i2
    None = None
    Requests <- TwoRequests
    Instances <- OneInstance
    Kinds <- Listening
    Slots = 1
    PendingLimit = 2
    Chunks = 1
    MaxCrashes = 0
SPECIFICATION FairSpec
PROPERTIES EveryRequestEnds InstancesComeToRest
CHECK_DEADLOCK FALSE
