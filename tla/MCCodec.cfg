SPECIFICATION Spec
CONSTANTS
    MapSize = 19
    Bits = 3
    Own <- OwnObjects
    Depth <- Nesting
    MaxDepth = 4
    Foreign <- OthersMessages
INVARIANTS RoundTrip NothingAltered OwnReadable ForeignIntegersKept
CHECK_DEADLOCK FALSE
