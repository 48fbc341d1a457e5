CONSTANTS
    c1 = c1  c2 = c2
    w1 = w1
    Conn <- OneConn
    Fd <- Fds
    Worker <- Workers
    None = None
    Flaky <- OneConn
    Unasked = {"REPORT"}
    MaxMsgs = 3
    MaxNodes = 1
    Events = {"signal", "timeout"}
SPECIFICATION ClusterSpec
PROPERTIES
    NodesArePeers
    HandshakeEnds
    ExitedNodeForgotten
