SPECIFICATION FairSpec
CONSTANTS
    once = once
    daily = daily
    Jobs <- MCJobs
    Every <- MCDaily
    Soft <- MCDaily
    Interval = 1
    Grace = 0
    MaxActive = 1
    MaxAdds = 1
    MaxTime = 1
    MaxErrors = 1
    MaxReplays = 1
    MaxStops = 2
CHECK_DEADLOCK FALSE
INVARIANTS
    SchedInv
PROPERTIES
    CancelledUnsent
    DueTimesPass
    CancelledWithdrawn
