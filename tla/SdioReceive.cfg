SPECIFICATION Spec
CONSTANTS
    Buffer = {b1, b2, b3}
    Null = Null
    CoreDepth = 1
    MaxBytes = 7
    PacketLengths <- MCPacketLengths
    ReadLengths <- MCReadLengths
INVARIANTS
    TypeOK
    ReadInOrder
    OneOwner
    DataCounted
    CoreKnows
PROPERTIES
    AllRead
CHECK_DEADLOCK FALSE
