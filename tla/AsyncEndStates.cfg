SPECIFICATION Spec
CONSTANTS
    Tasks = {t1}
    Clients = {c1}
    NoTask = NoTask
PROPERTIES
    EndStatesAreFinal
CHECK_DEADLOCK FALSE
