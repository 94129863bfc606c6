\* Two clients; the stream ends for good with a connection that is freed under its descriptor.
SPECIFICATION FairSpec
CONSTANTS
    c1 = c1
    c2 = c2
    Conns = {c1, c2}
    NoConn = NoConn
    Frames <- OneSendsRtp
    BufferSize = 3
    MaxUnread <- OneGoesOn
    MaxOld <- OneComesBack
    SendMixed = FALSE
INVARIANTS
    FramingKept
    WholeUnlessMixed
    SomeoneReads
    RecordsMatch
    PlayersAreSent

    
CHECK_DEADLOCK FALSE
