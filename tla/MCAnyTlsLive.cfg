SPECIFICATION MCFairSpec
CONSTANTS
  Opener = {o1, o2}
  MaxSequence = 1
  MaxSid = 1
  MaxStreams = 1
  Credits = 1
  QueueSize = 1
  MaxData = 2
PROPERTIES
  GuardReleased
  DrainEnds
  DrainReturns
CHECK_DEADLOCK FALSE
