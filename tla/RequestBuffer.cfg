\* Three requests in any pieces, in a buffer that pipelined requests overrun.
SPECIFICATION FairSpec
CONSTANTS
    Shapes <- RequestShapes
    LengthFields <- Lengths
    MaxRequests = 3
    BufferSize = 13
INVARIANTS
    HandledAsSent
    BufferKept
    DroppedWhenFull
PROPERTY
    ArrivedIsHandled
CHECK_DEADLOCK FALSE
