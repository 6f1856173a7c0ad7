CONSTANTS
    i1 = i1
    i2 = i2
    i3 = i3
    daily = daily
    frequent = frequent
    NoOne = NoOne
    Minute = 2
    LeaseLength = 3
    RunLimit = 2
    Tasks <- BothKinds
    Invocations <- ThreeTicks
    MaxAttempts <- Attempts
    RetryDelay <- Delays
    Period <- Slots
    Catchup <- Slots
    MaxClock = 4
SPECIFICATION OneKindSpec
SYMMETRY Symmetry
INVARIANTS TypeOK OneWorker DispatchesAreCounted
PROPERTIES RetriesFollowFailures ReceiptsMoveOn
CHECK_DEADLOCK FALSE
