\* A buffer of six packets, in units of 91 bytes.
SPECIFICATION FairSpec
CONSTANTS
    Header = 2
    Preferred = 11
    Max = 16
    Limit = 96
    FrameSizes <- AllSizes
    Junk = Junk
INVARIANTS
    TypeInv
    StreamIntact
    MarkerEndsPicture
    HalfBufferFree
PROPERTY
    PacketIsSent
