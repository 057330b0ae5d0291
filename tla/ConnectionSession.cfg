CONSTANTS
    app = app
    other = other
    worker = worker
    NoThread = NoThread
    Threads <- MCThreads3
    Worker = worker
    Timeouts = 1
    TimeoutsMod = 2
    Garbage <- MCGarbage
    MaxActivity = 2
SPECIFICATION Spec
INVARIANTS
    TypeOK
    EndAccounted
    Serialised
PROPERTIES
    SessionSpec
    FatalReturnEnds
