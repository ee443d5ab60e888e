SPECIFICATION Spec
CONSTANTS
    KeyTypes <- MCKeyTypes
    NewAfter = 2
    SettleFor = 1
    CacheFor = 1
    TokenLife = 2
    MaxLag = 2
    MaxUnsaved = 1
    MaxUnparsed = 2
    RetainFor = 6
    MaxTime = 8
    None = None
INVARIANTS
    TypeOK
    TokenOutlivesRotation
    CachesKnowNewTokens
    CanSign
CHECK_DEADLOCK FALSE
