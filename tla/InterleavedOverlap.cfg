\* Two clients whose reports may arrive in part at the same time.
SPECIFICATION Spec
CONSTANTS
    c1 = c1
    c2 = c2
    Conns = {c1, c2}
    NoConn = NoConn
    Frames <- Reports
    BufferSize = 3
    MaxUnread <- OneGoesOn
    MaxOld <- NoneComesBack
    SendMixed = FALSE
INVARIANT WholeUnlessDropped
CHECK_DEADLOCK FALSE
