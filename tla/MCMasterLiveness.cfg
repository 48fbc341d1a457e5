CONSTANTS
    c1 = c1  c2 = c2
    w1 = w1
    Conn <- Conns2
    Fd <- OneFd
    Worker <- OneWorker
    None = None
    Unasked = {}
    MaxMsgs = 0
    MaxNodes = 1
    Events = {"signal", "timeout", "error"}
SPECIFICATION Spec
PROPERTIES
    StopReturns
    PeerGoneReleased
    SilentReaped
