\* Connect mode: the server sends a frame whose body Message.Unflatten rejects.
CONSTANTS
    h1 = h1  h2 = h2  p1 = p1  p2 = p2
    NONE = NONE  Garbage = Garbage
    Passive = FALSE
    HostMsgs <- MCHostMsgs1
    PeerMsgs <- MCPeerMsgs1
    BadBodyMsgs = {p1}
    BadMagicMsgs = {}
    MaxConns = 1
    PeerMayAbort = FALSE
    AcceptMayFail = FALSE
    BodySize <- MCBodySize
    NotifyCap <- MCNotifyCap
SPECIFICATION Spec
INVARIANT
    WorkerEndAnnounced
