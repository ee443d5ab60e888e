SPECIFICATION Spec
CONSTANTS
    MaxData <- MCMaxData
    Window = 1
INVARIANTS
    TypeOK
    EOFIsLast
    ClosedForAReason
PROPERTIES
    BridgeEnds
CHECK_DEADLOCK FALSE
