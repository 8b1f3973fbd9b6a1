SPECIFICATION Spec
CONSTANTS
    Tasks = {r1, r2}
    App = app
PROPERTIES
    NoneMeansEof
CHECK_DEADLOCK FALSE
