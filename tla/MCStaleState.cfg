\* Accept mode: a client resets or closes in the middle of a frame in
\* either direction, and a second client connects.
CONSTANTS
    h1 = h1  h2 = h2  p1 = p1  p2 = p2
    NONE = NONE  Garbage = Garbage
    Passive = TRUE
    HostMsgs <- MCHostMsgs1
    PeerMsgs <- MCPeerMsgs1
    BadBodyMsgs = {}
    BadMagicMsgs = {}
    MaxConns = 2
    PeerMayAbort = TRUE
    AcceptMayFail = FALSE
    BodySize <- MCBodySize
    NotifyCap <- MCNotifyCap
SPECIFICATION Spec
PROPERTY
    FreshConnection
CHECK_DEADLOCK FALSE
