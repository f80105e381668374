SPECIFICATION Spec
CONSTANTS
    MaxSteps = 1
    MaxCalls = 1
    Moves = {"control", "abandon"}
    MaxInputs = 2
    MaxControls = 1
    MaxCrashes = 1
CHECK_DEADLOCK FALSE
INVARIANTS
    OutputsWereWanted
    FailuresBlameSeenWork
    StepBudget
PROPERTIES
    EffectsWanted
