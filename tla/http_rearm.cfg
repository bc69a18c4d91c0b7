SPECIFICATION Spec
CONSTANTS
    p1 = p1
    p2 = p2
    a = a
    b = b
    Port = {p1, p2}
    Vlan = {1, 2}
    Found <- FoundRearm
    Caller = {a, b}
    Protected = {p2}
    Operations <- OperationsRearm
    Retries = 1
    MaxPolls = 1
    MaxLoss = 0
    MaxOps = 1
    MaxEvents = 0
INVARIANT PowerWasCut
CHECK_DEADLOCK FALSE
