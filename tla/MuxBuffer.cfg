SPECIFICATION Spec
CONSTANTS
    Size = 4
    CoreDepth = 1
    MaxBytes = 7
    MaxResets = 1
    Byte <- MCByte
    FrameLengths <- MCFrameLengths
    ReadLengths <- MCReadLengths
INVARIANTS
    ReadInOrderUnlessMet
PROPERTIES
    RingIsQueue
    RefusedOnlyTorn
    AllRead
CHECK_DEADLOCK FALSE
