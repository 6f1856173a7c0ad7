CONSTANTS
    Period = 2
    Grace = 1
    Window = 1
    FailureLimit = 2
    DispatchLimit = 2
    Budget = 1
    Retain = 2
    MaxTime = 6
    MaxFaults = 1
    None = None
SPECIFICATION Spec
INVARIANTS TypeOK SignalsAgree FailuresAreDistinct SilenceAlarms
PROPERTIES IncidentsAreReal
CHECK_DEADLOCK FALSE
