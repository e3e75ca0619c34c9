\* Accept mode, two clients one after the other, each well-behaved: it
\* writes whole frames and closes its socket normally.
CONSTANTS
    h1 = h1  h2 = h2  p1 = p1  p2 = p2
    NONE = NONE  Garbage = Garbage
    Passive = TRUE
    HostMsgs <- MCHostMsgs1
    PeerMsgs <- MCPeerMsgs
    BadBodyMsgs = {}
    BadMagicMsgs = {}
    MaxConns = 2
    PeerMayAbort = FALSE
    AcceptMayFail = FALSE
    BodySize <- MCBodySize
    NotifyCap <- MCNotifyCap
SPECIFICATION Spec
INVARIANTS
    ConnectionEventOrder
CHECK_DEADLOCK FALSE
