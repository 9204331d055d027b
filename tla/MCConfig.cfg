SPECIFICATION Spec
CONSTANTS
    Options <- MCOptions
    Kind <- MCKind
    Default <- MCDefault
    CommandLines <- MCCommandLines
    Environments <- MCEnvironments
    Absent = "absent"
INVARIANT
    RunsAsConfigured
