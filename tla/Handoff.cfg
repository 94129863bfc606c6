\* Streams created, described, played and closed, in any order.
SPECIFICATION FairSpec
CONSTANTS
    Packets = {none, p1}
    NoPacket = none
    NumTriggers = 2
    MaxFragments = 1
    MaxNesting = 1
    MaxSends = 2
    MaxSources = 2
INVARIANTS
    TypeInv
    HandoffInv
    LoopNeverWaitsForEncode
    SinkKeepsPulling
    NoLostWakeup
PROPERTIES
    MailboxSpec
    EncoderReleased
    ReaderServed
