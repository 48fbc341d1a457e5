CONSTANTS
    Interval <- MCInterval
    Timeout <- MCTimeout
    Work <- MCWork
    Jitter <- MCJitter
    Delay <- MCDelay
    Horizon <- MCHorizon
SPECIFICATION Spec
INVARIANTS
    TypeOK
    LiveNodeKept
    SilentReapedInTime
