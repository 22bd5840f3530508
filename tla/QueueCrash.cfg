SPECIFICATION Spec
CONSTANTS
    Tasks = {t1, t2}
    Workers = {w1, w2}
    MaxRetries = 1
    MaxFaults = 0
    NoWorker = NoWorker
SYMMETRY Symmetry
INVARIANTS
    TypeOK
    SingleOwner
    AttemptsInOrder
    AckedIsLast
    StuckIsPending
PROPERTIES
    VerdictIsKept
    ImplementsLifecycle
CHECK_DEADLOCK FALSE
