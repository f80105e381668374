SPECIFICATION Spec
CONSTANTS
    MaxSteps = 1
    MaxCalls = 0
    Moves = {"report", "pause", "resume"}
    MaxInputs = 2
    MaxControls = 2
    MaxCrashes = 1
CHECK_DEADLOCK FALSE
PROPERTIES
    InputsSettle
    ReportsEnd
