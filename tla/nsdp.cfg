SPECIFICATION Spec
CONSTANTS
    v1 = v1
    v2 = v2
    p1 = p1
    p2 = p2
    w1 = w1
    w2 = w2
    Writer = {w1, w2}
    Port = {p1, p2}
    Vlan = {v1, v2}
    DefaultVlan = v1
    Protected = {p2}
    Forces = {FALSE, TRUE}
    Auth = {"v1", "v2"}
    SilenceAt = 0
    Tables <- MCTables
    MaxOps = 2
    MaxFaults = 1
PROPERTY ProtectedKept
PROPERTY RefusedOnlyByRival
INVARIANT NoSilentSuccess
PROPERTY OnlyNamedPortMoves
SYMMETRY Clients
CHECK_DEADLOCK FALSE
