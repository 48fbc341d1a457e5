CONSTANTS
    c1 = c1  c2 = c2
    w1 = w1
    Conn <- Conns2
    Fd <- TwoFds
    Worker <- OneWorker
    None = None
    Unasked = {"EMPTY"}
    MaxMsgs = 1
    MaxNodes = 1
    Events = {"timeout"}
SPECIFICATION SafetySpec
SYMMETRY Symmetry
INVARIANTS
    TypeOK
    NoOrphanEntry
    NoDescriptorLeak
    OwnershipUntilReap
PROPERTY ImplementsMembership
