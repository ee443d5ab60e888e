SPECIFICATION Spec
CONSTANTS
    b1 = b1  b2 = b2  u1 = u1  u2 = u2  ha = ha  hb = hb  hc = hc  h1 = h1  h2 = h2
    This = This  OtherClient = OtherClient  None = None
    Browsers = {b1, b2}
    Hosts = {ha, hb, hc}
    Users = {u1, u2}
    Clients = {This, OtherClient}
    Handlers = {h1, h2}
    Provider <- MCProvider
    ACL <- MCACL
    ForceReAuth <- MCForceReAuth
    GenerateIDTokens = {hb}
    MayLogIn <- MCMayLogIn
    CodeLife = 1
    StateLife = 1
    SessionLife = 2
    MaxAuths = 2
    MaxLogins = 2
    MaxTime = 2
SYMMETRY Symmetry
INVARIANTS
    TypeOK
    TokensAreSingleUse
    OneSessionPerLogin
    SessionHasStateAndCode
    LoginIsHonoured
    ForwardIsAuthorised
CHECK_DEADLOCK FALSE
