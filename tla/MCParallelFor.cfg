CONSTANTS
    a = a  b = b
    MinChunk = 2
    Width = 2
    Caller <- MCCaller
    Task <- MCTask
    Plans <- MCPlans
SPECIFICATION Spec
INVARIANTS
    TypeOK
    EachOnce
    NoSharedElement
    FirstExceptionWins
PROPERTIES
    Returns
