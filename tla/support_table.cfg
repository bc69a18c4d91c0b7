SPECIFICATION Spec
CONSTANTS
    NONE = NONE
    Task = {t1, t2}
    Models <- MCModels
    Several <- MCSeveral
    Shared <- MCShared
    Pins <- MCPins
    MaxCalls = 2
    MaxTurns = 1
SYMMETRY Alike
CHECK_DEADLOCK FALSE
INVARIANT SupportedCanBeSent
