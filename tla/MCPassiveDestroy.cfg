\* Accept mode, Destroy called while no client is connected.
CONSTANTS
    h1 = h1  h2 = h2  p1 = p1  p2 = p2
    NONE = NONE  Garbage = Garbage
    Passive = TRUE
    HostMsgs <- MCHostMsgs1
    PeerMsgs <- MCPeerMsgs1
    BadBodyMsgs = {}
    BadMagicMsgs = {}
    MaxConns = 1
    PeerMayAbort = FALSE
    AcceptMayFail = FALSE
    BodySize <- MCBodySize
    NotifyCap <- MCNotifyCap
SPECIFICATION Spec
PROPERTY
    DestroyReturns
CHECK_DEADLOCK FALSE
