SPECIFICATION FairSpec
CONSTANTS
    Tasks = {t1}
    Clients = {c1}
    NoTask = NoTask
PROPERTIES
    StreamsOfEndedTasksStop
CHECK_DEADLOCK FALSE
