SPECIFICATION FairSpec
CONSTANTS
    Tasks = {t1, t2}
    Clients = {c1, c2}
    NoTask = NoTask
INVARIANTS
    TypeOK
    RegistryIsExact
    OneTerminalEvent
PROPERTIES
    EarlyCancelHolds
    EveryRunEnds
    ListenersAreServed
CHECK_DEADLOCK FALSE
