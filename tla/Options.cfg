SPECIFICATION Spec
CONSTANTS
    Names = {1, 2}
    Ints = {7, 1234}
    TryKeys = {"user", "connectretries", "usegss", "schema", "solaceloglevel"}
    MaxPairs = 2
INVARIANTS TypeOK OptionsAsGiven GetoptsTellsSession
CHECK_DEADLOCK FALSE
