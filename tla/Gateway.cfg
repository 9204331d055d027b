SPECIFICATION Spec
CONSTANTS
    rxBackoffMin = 20
    rxBackoffMax = 500
    MaxFailures = 6
INVARIANTS
    TypeOK
    BackoffSchedule
    ReadyHonest
    ExitClean
PROPERTIES
    SignalExits
    FailureStops
    NoStaleAdvert
