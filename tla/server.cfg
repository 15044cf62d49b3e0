\* A client that waits for its replies and one that sends ahead.
SPECIFICATION FairSpec
CONSTANTS
    Clients = {c1, c2}
    Pipelining = {c2}
    FrameLen = 2
    Frames = 2
    SockBuf = 3
    MaxEvents = 2
    AwaitClients = FALSE
    DeadlineCanPass = TRUE
CHECK_DEADLOCK FALSE
INVARIANTS
    TypeOK
    PendingWritesWatched
    NoByteLost
    NoFrameStranded
    EventsReachTheirConnection
    StoppedIsDrained
PROPERTIES
    DrainEnds
    DeadlineEndsServer
