SPECIFICATION Spec
CONSTANTS
    c1 = c1
    c2 = c2
    None = None
    Conns = {c1}
    Names = {"a"}
    Ids = {"alice", "bob"}
    Configs <- ClientAuthConfigs
    NameOf <- MCNameOf
    CertOf <- MCCertOf
    Proxied = {}
    OpenLimit = 3
    MaxGen = 2
    Events = {}
INVARIANTS
    StaleConnIsVerified
CHECK_DEADLOCK FALSE
