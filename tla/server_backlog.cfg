\* A connected client that is still in the backlog.
SPECIFICATION Spec
CONSTANTS
    Clients = {c1}
    Pipelining = {}
    FrameLen = 1
    Frames = 1
    SockBuf = 1
    MaxEvents = 2
    AwaitClients = TRUE
    DeadlineCanPass = FALSE
CHECK_DEADLOCK FALSE
INVARIANTS
    ConnectedAreServed
