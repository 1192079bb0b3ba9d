SPECIFICATION Spec
CONSTANTS
    Size = 16
    Block = 8
    MaxBytes = 22
    Lengths <- MCLengths
    MaxFailures = 1
    Byte <- MCByte
INVARIANTS
    TypeOK
    ReceivesWrittenIfSent
    OneBlockLent
    NeverRefused
PROPERTIES
    CompleteMeansRead
    RingIsQueue
    AllRead
    DestroyReturns
CHECK_DEADLOCK FALSE
