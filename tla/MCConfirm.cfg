SPECIFICATION MCSpec
CONSTANTS
    Topics = {t1, t2}
    Capacity = 2
    MaxCalls = 3
    MaxMsgs = 4
INVARIANTS TypeOK SettledAgrees
PROPERTIES CallbackResumes ChannelSpec
