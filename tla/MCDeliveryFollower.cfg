SPECIFICATION Spec
CONSTANTS
    s1 = s1
    s2 = s2
    Sinks = {s1}
    Protocols <- MCNotIdempotent
    Routings <- MCFirstRouted
    MaxMessages = 2
    MaxStarts = 1
    MaxFailures = 0
    MaxCrashes = 1
CHECK_DEADLOCK FALSE
PROPERTIES
    AllConsumed
    PendingIsAttempted
    WaitersEnter
