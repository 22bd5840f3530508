SPECIFICATION FairFaultSpec
CONSTANTS
    Tasks = {t1}
    Workers = {w1, w2}
    MaxRetries = 3
    MaxFaults = 2
    NoWorker = NoWorker
INVARIANTS
    DeadLetterIsFinal
    ClaimNamesHolder
PROPERTIES
    ImplementsLifecycle
    EveryTaskRests
    EveryTaskSettles
CHECK_DEADLOCK FALSE
