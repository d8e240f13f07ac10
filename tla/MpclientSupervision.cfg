CONSTANTS
    Thread = {t1, t2}
    MaxSessions = 1
    MaxCallbacks = 2
    MaxNotifs = 1
    Supervision = TRUE
SPECIFICATION Spec
PROPERTIES
    StreamsEnd
CHECK_DEADLOCK FALSE
