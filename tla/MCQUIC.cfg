SPECIFICATION Spec
CONSTANTS
    c1 = c1  c2 = c2
    None = None
    Conns = {c1, c2}
    Modes = {"h3", "http", "tcp", "dial"}
    NAddrs = 2
    MaxOpen = 3
SYMMETRY Symmetry
INVARIANTS
    TypeOK
    ConnsAreCounted
    DialTriesAll
CHECK_DEADLOCK FALSE
