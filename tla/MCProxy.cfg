SPECIFICATION Spec
CONSTANTS
    c1 = c1
    c2 = c2
    None = None
    Conns = {c1, c2}
    Names = {"a"}
    Ids = {"alice", "bob"}
    Configs <- MCConfigs
    NameOf <- MCNameOf
    CertOf <- MCCertOf
    Proxied = {c2}
    OpenLimit = 3
    MaxGen = 2
    Events = {"echError"}
INVARIANTS
    TypeOK
    ChannelClosedOnce
    InFlightIsExact
    DrainedBackendIsReleased
    TrackedUntilRemoved
    StaleConnIsPermitted
PROPERTIES
    ImplementsAdmission
CHECK_DEADLOCK FALSE
