CONSTANT MaxCalls = 1
SPECIFICATION Spec
INVARIANT SentWereSent
