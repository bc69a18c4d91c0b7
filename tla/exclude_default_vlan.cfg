SPECIFICATION Spec
CONSTANTS
    v1 = v1
    v2 = v2
    v3 = v3
    p1 = p1
    p2 = p2
    lag = lag
    w1 = w1
    w2 = w2
    n1 = n1
    n2 = n2
    Port = {p1, p2}
    Physical = {p1, p2}
    Vlan = {v1, v2, v3}
    Name = {n1}
    NoName = n1
    DefaultVlan = v1
    SwitchportModel = TRUE
    AutoUntag = FALSE
    CanCreateVlan = TRUE
    Seeds <- SwitchportSeeds
    Writer = {w1}
    Protected = {}
    Forces = {FALSE}
    Kind = {"membership"}
    PortsOf <- AllPorts
    SplitWrites = FALSE
    Retries = 1
    MaxLoss = 0
    MaxOps = 1
INVARIANT RequestHonoured
CHECK_DEADLOCK FALSE
