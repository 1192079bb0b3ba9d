SPECIFICATION TransferFairly
CONSTANTS
    FileSize = 8
    SohSize = 2
    StxSize = 3
    NumMod = 2
    NCG_INTERVAL = 1
    SEND_TIMEOUT = 1
    PACKET_TIMEOUT = 2
    MAX_NCG_RETRY_COUNT = 3
    MAX_PACKET_RETRY_COUNT = 2
    SEND_CAN_COUNT = 3
    RECV_CAN_COUNT = 2
    Data <- MCData
    NoPacket = NoPacket
    MaxFaults = 2
    MaxEarlyTimeouts = 0
    Prompt = TRUE
PROPERTIES
    Completes
CHECK_DEADLOCK FALSE
