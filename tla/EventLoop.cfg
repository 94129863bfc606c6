\* The server's socket, three connections and the two sockets of a stream.
SPECIFICATION FairSpec
CONSTANT MaxFd = 6
INVARIANTS
    SelectsOpenSockets
PROPERTY WaitingHandled
