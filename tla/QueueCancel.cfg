SPECIFICATION Spec
CONSTANTS
    Tasks = {t1}
    Workers = {w1, w2}
    MaxRetries = 1
    MaxFaults = 0
    NoWorker = NoWorker
PROPERTIES
    CancelledIsFinal
CHECK_DEADLOCK FALSE
