\* Three sessions; restarted clients may come back to their old ports.
SPECIFICATION Spec
CONSTANTS
    s1 = s1
    s2 = s2
    s3 = s3
    d1 = d1
    d2 = d2
    d3 = d3
    i1 = i1
    i2 = i2
    Sessions = {s1, s2, s3}
    Dests = {d1, d2, d3}
    Streams = {i1, i2}
    NoSession = noSession
    NoDest = noDest
    NoStream = noStream
    Timeout = 2
    PortReuse = TRUE
SYMMETRY Symmetry
INVARIANTS
    TypeInv
    OneSharedStream
    ReportersAreOpen
    NothingSentAstray
PROPERTY
    SharedStreamSpec
