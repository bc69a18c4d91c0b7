SPECIFICATION Spec
CONSTANTS
    v1 = v1
    v2 = v2
    v3 = v3
    p1 = p1
    p2 = p2
    lag = lag
    w1 = w1
    w2 = w2
    n1 = n1
    n2 = n2
    Port = {p1, p2, lag}
    Physical = {p1, p2}
    Vlan = {v1, v2}
    Name = {n1, n2}
    NoName = n1
    DefaultVlan = v1
    SwitchportModel = FALSE
    AutoUntag = FALSE
    CanCreateVlan = FALSE
    Seeds <- NoStaticRowSeeds
    Writer = {w1}
    Protected = {}
    Forces = {FALSE}
    Kind = {"membership", "create"}
    PortsOf <- AllPorts
    SplitWrites = FALSE
    Retries = 1
    MaxLoss = 0
    MaxOps = 1
PROPERTY OnlyNamedPortMoves
CHECK_DEADLOCK FALSE
