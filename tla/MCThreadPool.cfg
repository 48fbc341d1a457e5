CONSTANTS
    w1 = w1  w2 = w2
    t1 = t1  t2 = t2  t3 = t3
    Worker <- MCWorker
    Task <- MCTask
    NoTask = NoTask
SPECIFICATION Spec
INVARIANTS
    TypeOK
    FifoNoLoss
    TakenOnce
    NoLostWakeup
    DrainedAtDestroy
PROPERTIES
    AcceptedRuns
    StopReturns
    ImplementsExecutor
