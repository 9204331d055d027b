CONSTANTS
    IdSize = 1
    MaxDlc = 2
    Pre0 = 45
    Pre1 = 212
    ByteMod = 256
    CompactMin = 16
    CompactRatio = 4
    MinAlloc = 1
    Reclaim = 256
    ReadBufSize = 64
    MaxPieces = 20
    Lines <- Burst
INIT Init
NEXT Next
INVARIANTS CompactionHarmless
\* A device that has sent its line is silent.
CHECK_DEADLOCK FALSE
