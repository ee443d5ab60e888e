SPECIFICATION Spec
CONSTANTS
    p1 = p1  p2 = p2  v1 = v1  v2 = v2
    None = None
    Procs = {p1, p2}
    Verifiers = {v1, v2}
    CRLRefreshPeriod = 2
    FetchDelay = 1
    DelegateLifetime = 4
    MaxNumCRL = 1
    MaxCerts = 1
    MaxActive = 2
    MaxWork = 4
    MaxFaults = 1
    MaxTime = 3
SYMMETRY Symmetry
INVARIANTS
    TypeOK
    RevocationIsDurable
    CRLIsCurrent
    RevokedIsNotLetInLate
PROPERTIES
    CRLNumbersGrow
CHECK_DEADLOCK FALSE
