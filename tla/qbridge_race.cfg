SPECIFICATION FairSpec
CONSTANTS
    v1 = v1
    v2 = v2
    v3 = v3
    p1 = p1
    p2 = p2
    lag = lag
    w1 = w1
    w2 = w2
    n1 = n1
    n2 = n2
    Port = {p1, p2, lag}
    Physical = {p1, p2}
    Vlan = {v1, v2}
    Name = {n1}
    NoName = n1
    DefaultVlan = v1
    SwitchportModel = FALSE
    AutoUntag = TRUE
    CanCreateVlan = TRUE
    Seeds <- QbridgeUplinkSeeds
    Writer = {w1, w2}
    Protected = {p2}
    Forces = {FALSE}
    Kind = {"membership", "create", "delete", "pvid"}
    PortsOf <- AllPorts
    SplitWrites = FALSE
    Retries = 1
    MaxLoss = 1
    MaxOps = 2
INVARIANT TypeOK
INVARIANT ProtectedInv
PROPERTY ProtectedKept
PROPERTY CallsEnd
CHECK_DEADLOCK FALSE
