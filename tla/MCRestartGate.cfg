SPECIFICATION FairSpec
CONSTANTS
    channel = channel
    control = control
    Settings = Settings
    NoRequest = NoRequest
    Turns <- MCTurns
    Programmatic <- MCProgrammatic
    Tooled <- MCTooled
    MaxBoots = 2
INVARIANTS RestartInterruptsNothing RestartAfterDelivery RestartsAccounted
PROPERTIES GateReopens WantedStarts
CHECK_DEADLOCK FALSE
