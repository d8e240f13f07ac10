\* Three gRPC threads, two sessions, supervision on.
CONSTANTS
    Thread = {t1, t2, t3}
    MaxSessions = 2
    MaxCallbacks = 2
    MaxNotifs = 2
    Supervision = TRUE
SPECIFICATION Spec
SYMMETRY ThreadSymmetry
INVARIANTS
    TypeOK
    WriterAlive
    SessionAlive
    NothingOutlivesSession
PROPERTIES
    IterationValid
\* All threads may wait for ever on sessions that stay connected.
CHECK_DEADLOCK FALSE
