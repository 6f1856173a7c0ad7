CONSTANTS
    Period = 2
    Grace = 1
    Window = 1
    FailureLimit = 2
    DispatchLimit = 2
    Budget = 2
    Retain = 20
    MaxTime = 7
    MaxFaults = 1
    None = None
SPECIFICATION Spec
INVARIANTS OlderSuccessDoesNotHide
CHECK_DEADLOCK FALSE
