\* Connect mode against a well-behaved server that may close the connection.
CONSTANTS
    h1 = h1  h2 = h2  p1 = p1  p2 = p2
    NONE = NONE  Garbage = Garbage
    Passive = FALSE
    HostMsgs <- MCHostMsgs
    PeerMsgs <- MCPeerMsgs
    BadBodyMsgs = {}
    BadMagicMsgs = {}
    MaxConns = 1
    PeerMayAbort = TRUE
    AcceptMayFail = FALSE
    BodySize <- MCBodySize
    NotifyCap <- MCNotifyCap
SPECIFICATION Spec
INVARIANTS
    TypeOK
    
    ReceivedInSendOrder
    OutgoingFramedInOrder
    SentBeforeShutdownWritten
    WorkerEndAnnounced
