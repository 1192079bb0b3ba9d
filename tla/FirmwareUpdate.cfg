SPECIFICATION Spec
CONSTANTS
    Slots <- MCSlots
    NextPartition <- MCNextPartition
    FileSize = 2
    None = None
    MaxUpdates = 3
    MaxCrashes = 2
INVARIANTS
    TypeOK
    BootImageValid
    NextUpdateCanBegin
    ErrorKeepsBoot
PROPERTIES
    SwitchOnlyToSentImage
    OkRestarts
    HandlerReturns
CHECK_DEADLOCK FALSE
