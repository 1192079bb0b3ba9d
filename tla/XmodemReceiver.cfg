SPECIFICATION Spec
CONSTANTS
    FileSize = 5
    SohSize = 2
    StxSize = 3
    NumMod = 3
    NCG_INTERVAL = 1
    SEND_TIMEOUT = 1
    PACKET_TIMEOUT = 3
    MAX_NCG_RETRY_COUNT = 3
    MAX_PACKET_RETRY_COUNT = 2
    SEND_CAN_COUNT = 3
    RECV_CAN_COUNT = 2
    Data <- MCData
    NoPacket = NoPacket
INVARIANTS
    TypeOK
    StaysInPacket
    WrittenIsPrefix
    AtMostOnePacketTooMany
PROPERTIES
    Termination
    TransferSpec
CHECK_DEADLOCK FALSE
