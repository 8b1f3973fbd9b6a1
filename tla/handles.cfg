SPECIFICATION HandleSpec
CONSTANTS
    Tasks = {t1, t2, t3}
    SocketTasks = {t1, t2}
    App = app
INVARIANT UsedHalfIsThere
PROPERTIES
    NoneIsAnnounced
    LendsBody
    CloseWakesReads
    AbortEndsCalls
    CloseInterruptsCalls
CHECK_DEADLOCK FALSE
