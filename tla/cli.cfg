SPECIFICATION FairSpec
CONSTANTS
    v1 = v1
    v2 = v2
    p1 = p1
    p2 = p2
    h1 = h1
    h2 = h2
    Vlan = {v1, v2}
    Port = {p1, p2}
    Host = {h1, h2}
    DefaultVlan = v1
    NoVlan = NoVlan
    NoPort = NoPort
    NoHost = NoHost
    HasModes = TRUE
    AsksPassword = TRUE
    ExecAddress = FALSE
    Prestuff = FALSE
    MaxLate = 2
    Kind = {"create", "delete", "membership", "pvid", "description", "speed", "admin",
            "poe", "cycle", "clearFault", "hostname", "logging", "address",
            "collect", "uncollect", "reboot", "deploy"}
    Forced = {"address", "reboot"}
    Protected = {p2}
    MaxCalls = 2
    MaxPolls = 1
INVARIANT InStep
INVARIANT NoSilentSuccess
INVARIANT NotParkedInStep
PROPERTY ProtectedKept
PROPERTY OnlyNamedHostGoes
PROPERTY CallsEnd
CHECK_DEADLOCK FALSE
