SPECIFICATION Spec
CONSTANTS
    rxBackoffMin = 20
    rxBackoffMax = 500
    MaxFailures = 6
INVARIANT
    ReadyMeansBackendUp
