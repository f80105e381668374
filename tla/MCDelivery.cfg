SPECIFICATION Spec
CONSTANTS
    s1 = s1
    s2 = s2
    Sinks = {s1, s2}
    Protocols <- MCAnyProtocol
    Routings <- MCAnyRouting
    MaxMessages = 1
    MaxStarts = 2
    MaxFailures = 1
    MaxCrashes = 1
CHECK_DEADLOCK FALSE
INVARIANTS
    SentOnce
    SelectionCovered
PROPERTIES
    SettledStays
    WithdrawnUnsent
