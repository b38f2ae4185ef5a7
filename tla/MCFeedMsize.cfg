SPECIFICATION MCSpec
CONSTANTS
    N = 8
    HeaderSize = 2
    MaxMsgSize = 4
    MsgSizes = {1, 2, 3, 4}
    SockCap = 2
    MaxRecords = 4
INVARIANT MsizeInRange
