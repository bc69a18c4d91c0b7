SPECIFICATION FairSpec
CONSTANTS
    p1 = p1
    p2 = p2
    a = a
    b = b
    Port = {p1, p2}
    Vlan = {1, 2}
    Found <- FoundMC
    Caller = {a, b}
    Protected = {p2}
    Operations <- OperationsMC
    Retries = 1
    MaxPolls = 1
    MaxLoss = 1
    MaxOps = 1
    MaxEvents = 1
INVARIANT NeverTwice
INVARIANT NoSilentSuccess
PROPERTY OnlyNamedMoves
PROPERTY ProtectedKept
PROPERTY RenameKeepsAddress
PROPERTY CallsEnd
CHECK_DEADLOCK FALSE
