\* stop() may block for ever in trigger(), see StopReturns: the system really may stop.
CHECK_DEADLOCK FALSE
CONSTANTS
    f1 = f1
    f2 = f2
    f3 = f3
    FDs = {f1, f2, f3}
    Trigger = Trigger
    NoFD = NoFD
    MaxTriggers = 2
    MaxClients = 3
    Rebinds = FALSE
SPECIFICATION FairSpec
INVARIANT
    RegisteredIsPolled
PROPERTIES
    StopReturns
    EventuallyServed
