CONSTANTS
    IdSize = 2
    MaxLen = 2
    LenMask = 8
    MaxExpiries = 2
    MaxItems = 3
    Scripts <- MCScripts
SPECIFICATION Spec
INVARIANTS DecodedInOrder EndReported
PROPERTIES ReaderEnds
\* A reader that has ended, with nothing left to arrive, takes no more steps.
CHECK_DEADLOCK FALSE
