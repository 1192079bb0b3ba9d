SPECIFICATION TransferSafely
CONSTANTS
    FileSize = 8
    SohSize = 2
    StxSize = 3
    NumMod = 3
    NCG_INTERVAL = 1
    SEND_TIMEOUT = 1
    PACKET_TIMEOUT = 2
    MAX_NCG_RETRY_COUNT = 3
    MAX_PACKET_RETRY_COUNT = 2
    SEND_CAN_COUNT = 3
    RECV_CAN_COUNT = 2
    Data <- MCData
    NoPacket = NoPacket
    MaxFaults = 4
    MaxEarlyTimeouts = 1
    Prompt = FALSE
INVARIANTS
    WrittenIsVerified
    WrittenInOrder
    DriftBounded
    EotAckMeansDone
CHECK_DEADLOCK FALSE
