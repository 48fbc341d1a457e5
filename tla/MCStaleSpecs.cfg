CONSTANTS
    c1 = c1  c2 = c2
    w1 = w1
    Conn <- Conns2
    Fd <- OneFd
    Worker <- OneWorker
    None = None
    Unasked = {"REPORT"}
    MaxMsgs = 1
    MaxNodes = 1
    Events = {}
SPECIFICATION SafetySpec
SYMMETRY Symmetry
INVARIANTS
    EntryDescribesItsNode
