SPECIFICATION Spec
CONSTANTS
    Size = 16
    Block = 8
    MaxBytes = 22
    Lengths <- MCLengths
    MaxFailures = 1
    Byte <- MCByte
INVARIANT ReceivesWritten
CHECK_DEADLOCK FALSE
