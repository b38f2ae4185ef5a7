SPECIFICATION WindingSpec
CONSTANTS
    MaxInits = 2
    MaxRecords = 2
    Capacity = 1
    SockCap = 1
    CallsWait = FALSE
INVARIANTS TypeOK WakeupKept SeqnRestarts EndsOnlyOverlap SleeperHeard
PROPERTIES CallbackReturns ChannelSpec
