CONSTANTS
  Topics = {t1, t2, t3}
  MaxTopicCount = 2
  MaxSessions = 2
SYMMETRY TopicSymmetry
SPECIFICATION Spec
INVARIANTS CheckconnectTellsStatus
