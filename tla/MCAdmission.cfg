SPECIFICATION Spec
CONSTANTS
    Conns = {c1, c2, c3, c4}
    MaxOpen = 3
SYMMETRY Symmetry
INVARIANTS
    TypeOK
    AdmittedBelowMaxOpen
    CountsAreRanks
CHECK_DEADLOCK FALSE
