\* The abort in getNextFrame().
SPECIFICATION Spec
CONSTANTS
    Packets = {none, p1}
    NoPacket = none
    NumTriggers = 2
    MaxFragments = 1
    MaxNesting = 1
    MaxSends = 2
    MaxSources = 1
INVARIANT
    NeverReadTwice
