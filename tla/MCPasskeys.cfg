SPECIFICATION Spec
CONSTANTS
    u1 = u1  u2 = u2  b1 = b1  b2 = b2  k1 = k1  k2 = k2
    None = None
    Users = {u1, u2}
    Browsers = {b1, b2}
    Keys = {k1, k2}
    ChallengeLife = 1
    ManageLife = 1
    RefreshInterval = 1
    MaxChallenges = 3
    MaxLogins = 2
    MaxFaults = 1
    MaxTime = 2
    Leap = 2
SYMMETRY Symmetry
INVARIANTS
    TypeOK
    LoginIsSound
    RegistrationIsKept
CHECK_DEADLOCK FALSE
