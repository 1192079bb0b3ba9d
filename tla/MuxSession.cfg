SPECIFICATION Spec
CONSTANTS
    EventDepth = 2
    CoreDepth = 2
    RxDepth = 2
    UartPreempts = FALSE
    MaxChunks = 7
INVARIANTS
    TypeOK
    ModesAgree
PROPERTIES
    SessionEnds
    DestroyReturns
CHECK_DEADLOCK FALSE
