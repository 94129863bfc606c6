\* Two sessions, every client at ports of its own; with fairness.
SPECIFICATION FairSpec
CONSTANTS
    s1 = s1
    s2 = s2
    s3 = s3
    d1 = d1
    d2 = d2
    d3 = d3
    i1 = i1
    i2 = i2
    Sessions = {s1, s2}
    Dests = {d1, d2, d3}
    Streams = {i1, i2}
    NoSession = noSession
    NoDest = noDest
    NoStream = noStream
    Timeout = 2
    PortReuse = FALSE
INVARIANTS
    PlayedAreSent
    ReclaimedOnlyWhenSilent
PROPERTIES
    AbandonedReclaimed
    UnusedStreamDeleted
