SPECIFICATION FairSpec
CONSTANTS
    c1 = c1
    c2 = c2
    None = None
    Conns = {c1}
    Names = {"a"}
    Ids = {"alice", "bob"}
    Configs <- ShutdownConfigs
    NameOf <- MCNameOf
    CertOf <- MCCertOf
    Proxied = {}
    OpenLimit = 3
    MaxGen = 1
    Events = {"shutdown", "cancel"}
PROPERTIES
    ShutdownSeesLastClose
CHECK_DEADLOCK FALSE
