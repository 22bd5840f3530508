SPECIFICATION FairCrashSpec
CONSTANTS
    Tasks = {t1}
    Workers = {w1, w2}
    MaxRetries = 1
    MaxFaults = 0
    NoWorker = NoWorker
PROPERTIES
    CrashedTaskRecovers
CHECK_DEADLOCK FALSE
