SPECIFICATION Spec
CONSTANTS
    NONE = NONE
    Task = {t1, t2}
    Models <- MCModels
    Several <- MCSeveral
    Shared <- MCShared
    Pins <- MCPins
    MaxCalls = 2
    MaxTurns = 1
SYMMETRY Alike
INVARIANT OracleAgrees
INVARIANT OneCredential
INVARIANT RefusalsAreHonest
INVARIANT NoLeak
PROPERTY GuardedDelete
PROPERTY KeepsPromise
CHECK_DEADLOCK FALSE
