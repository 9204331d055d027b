CONSTANTS
    Clients = {c1, c2}
    OutBufSize = 2
    MaxFrames = 4
SPECIFICATION Spec
SYMMETRY Symmetry
INVARIANTS ClosedOnce LossAccounted
PROPERTIES ImplementsHub
\* The bounded run ends when every client is removed and all frames are sent.
CHECK_DEADLOCK FALSE
