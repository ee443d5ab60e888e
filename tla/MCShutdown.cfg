SPECIFICATION DeadlineSpec
CONSTANTS
    c1 = c1
    c2 = c2
    None = None
    Conns = {c1}
    Names = {"a"}
    Ids = {"alice", "bob"}
    Configs <- ShutdownConfigs
    NameOf <- MCNameOf
    CertOf <- MCCertOf
    Proxied = {c1}
    OpenLimit = 3
    MaxGen = 1
    Events = {"shutdown", "cancel"}
INVARIANTS
    ChannelClosedOnce
    InFlightIsExact
    TrackedUntilRemoved
PROPERTIES
    StopClosesAll
    ShutdownReturns
CHECK_DEADLOCK FALSE
