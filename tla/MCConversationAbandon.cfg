SPECIFICATION Spec
CONSTANTS
    MaxSteps = 1
    MaxCalls = 1
    Moves = {"abandon"}
    MaxInputs = 2
    MaxControls = 1
    MaxCrashes = 0
CHECK_DEADLOCK FALSE
INVARIANTS
    AbandonLeavesNewWorkAlone
