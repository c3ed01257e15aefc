SPECIFICATION Spec
CONSTANTS
  Nodes = {1, 2, 3}
  MaxEdges = 3
  HopLimits = {1, 2, 3}
  VisitedLimits = {2, 3, 4}
  QueueLimits = {1, 3}
  ResultLimits = {1, 4}
  ExaminedLimits = {1, 2, 4}
  MaxTight = 2
  MaxTightShared = 0
  MaxEdgesShared = 2
  MaxAsked = 2
INVARIANTS CacheIsExact AnswersAreHonest
PROPERTIES AnswersAreOfActive
CHECK_DEADLOCK FALSE
