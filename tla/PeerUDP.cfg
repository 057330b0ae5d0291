\* stop() may block for ever in trigger(), see StopReturns: the system really may stop.
CHECK_DEADLOCK FALSE
CONSTANTS
    FDs = {"f1", "f2"}
    Trigger = "trigger"
    NoFD = "none"
    Invalid = "invalid"
    MaxTriggers = 2
    MaxQueue = 2
SPECIFICATION FairSpec
INVARIANTS
    QuietAfterStop
    BoundIsPolled
PROPERTIES
    StopReturns
    EventuallyRead
