CONSTANTS
    c1 = c1  c2 = c2  c3 = c3
    Client <- Clients
    Fd <- Fds
    nSocket = 3
    Slots = 2
    Lengths <- LineLengths
    MaxLines <- Limits
    Killable <- Mortal
    None = None
SPECIFICATION Spec
INVARIANTS
    TypeOK
    SlotsMatchSockets
    NeverBlocksInRecv
    OrderlyClientsHarmless
PROPERTIES
    ServedClientAnswered
    GoneClientReleased
