\* The call of a source that has been deleted.
SPECIFICATION Spec
CONSTANTS
    Packets = {none, p1}
    NoPacket = none
    NumTriggers = 2
    MaxFragments = 1
    MaxNesting = 1
    MaxSends = 2
    MaxSources = 2
INVARIANT
    DeliverToLiveSource
