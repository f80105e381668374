SPECIFICATION Spec
CONSTANTS
    MaxSteps = 2
    MaxCalls = 1
    Moves = {"abandon", "gate"}
    MaxInputs = 1
    MaxControls = 1
    MaxCrashes = 1
CHECK_DEADLOCK FALSE
INVARIANTS
    CallsAnsweredFirst
PROPERTIES
    AbandonedCallsSettle
