CONSTANTS
    c1 = c1  c2 = c2
    w1 = w1
    Conn <- Conns
    Fd <- Fds
    Worker <- Workers
    None = None
    Flaky <- Nobody
    Unasked = {"REPORT"}
    MaxMsgs = 3
    MaxNodes = 1
    Events = {}
SPECIFICATION ClusterSpec
PROPERTY HandshakeEnds
