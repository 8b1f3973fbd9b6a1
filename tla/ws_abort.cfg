SPECIFICATION Spec
CONSTANTS
    Tasks = {t1}
    App = app
INVARIANTS
    AbortReleasesSocket
