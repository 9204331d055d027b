CONSTANTS
    IdSize = 1
    MaxDlc = 3
    Pre0 = 45
    Pre1 = 212
    ByteMod = 256
    CompactMin = 3
    CompactRatio = 2
    MinAlloc = 4
    Reclaim = 16
    ReadBufSize = 9
    MaxPieces = 3
    Lines <- MCLines
SPECIFICATION Spec
INVARIANTS ChunkInvariant FramesDecoded ResidueBounded
PROPERTIES DecodeReturns
\* A device that has sent its line is silent.
CHECK_DEADLOCK FALSE
