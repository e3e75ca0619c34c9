\* Accept mode under two faults, each of which alone breaks the event order:
\* accept() raises after select() reported the listening socket ready, and
\* __mainsocket is full (the host has not read the byte already waiting).
CONSTANTS
    h1 = h1  h2 = h2  p1 = p1  p2 = p2
    NONE = NONE  Garbage = Garbage
    Passive = TRUE
    HostMsgs <- MCHostMsgs1
    PeerMsgs <- MCPeerMsgs1
    BadBodyMsgs = {}
    BadMagicMsgs = {}
    MaxConns = 1
    PeerMayAbort = FALSE
    AcceptMayFail = TRUE
    BodySize <- MCBodySize
    NotifyCap <- MCNotifyCapFull
SPECIFICATION Spec
INVARIANT
    ConnectionEventOrder
CHECK_DEADLOCK FALSE
