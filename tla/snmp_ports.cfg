SPECIFICATION AgentSpec
CONSTANTS
    p1 = p1
    p2 = p2
    w1 = w1
    w2 = w2
    h1 = h1
    h2 = h2
    address = address
    gateway = gateway
    label = label
    Port = {p1, p2}
    Host = {h1, h2}
    NoHost = NoHost
    Index = {1, 2, 3}
    Found <- FoundMC
    Writer = {w1, w2}
    Protected = {p2}
    Socket = {p1}
    Forced = {"address", "clear"}
    Kind <- KindMC
    Retries = 1
    MaxPolls = 1
    MaxLoss = 1
    MaxOps = 1
    MaxEvents = 1
    Col = {address, gateway, label}
    Field <- FieldMC
    Pdus <- FieldMC
    Foreign = Foreign
    MaxPdus = 2
INVARIANT PowerWasCut
INVARIANT NoPortLeftOff
INVARIANT RemovedMeansGone
INVARIANT WholeOrNothing
INVARIANT ClientsSeeWhole
PROPERTY OnlyNamedRowGoes
PROPERTY CallsEnd
CHECK_DEADLOCK FALSE
