SPECIFICATION Spec
CONSTANTS
    inline = inline
    detached = detached
    Jobs <- MCJobs
    Background <- MCBackground
    MaxActive = 1
    MaxErrors = 1
    MaxCancels = 1
    MaxStops = 1
CHECK_DEADLOCK FALSE
INVARIANTS
    JobInv
PROPERTIES
    OutcomesHold
    JobsSettle
