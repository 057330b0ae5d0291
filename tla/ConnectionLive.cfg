CONSTANTS
    app = app
    other = other
    worker = worker
    NoThread = NoThread
    Threads <- MCThreads
    Worker = worker
    Timeouts = 2
    TimeoutsMod = 3
    Garbage <- MCGarbage
    MaxActivity = 2
SPECIFICATION FairSpec
INVARIANT
    TimeoutsSinceSuccess
PROPERTIES
    EndIsReported
    CallsReturn
