CONSTANTS
  Topics = {t1, t2, t3}
  MaxTopicCount = 2
  MaxSessions = 3
SYMMETRY TopicSymmetry
SPECIFICATION Spec
INVARIANTS TypeOK OneRowPerTopic NoUseAfterFree NoSessionForgotten StatusAgrees DownIsSeen
PROPERTY ConnectionSpec
