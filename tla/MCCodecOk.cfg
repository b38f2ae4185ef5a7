SPECIFICATION Spec
CONSTANTS
    MapSize = 19
    Bits = 3
    Own <- Forgotten
    Depth <- Nesting
    MaxDepth = 4
    Foreign <- NoMessages
INVARIANT OkMeansComplete
CHECK_DEADLOCK FALSE
