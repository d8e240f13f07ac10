CONSTANTS
    Thread = {t1, t2}
    MaxSessions = 2
    MaxCallbacks = 2
    MaxNotifs = 2
    Supervision = FALSE
SPECIFICATION Spec
PROPERTIES
    StreamsEnd
    RemovedSessionFreed
CHECK_DEADLOCK FALSE
