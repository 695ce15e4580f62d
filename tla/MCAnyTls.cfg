SPECIFICATION MCSpec
CONSTANTS
  Opener = {o1, o2}
  MaxSequence = 2
  MaxSid = 2
  MaxStreams = 2
  Credits = 1
  QueueSize = 1
  MaxData = 1
INVARIANTS
  OneUser
  IdleListExact
  GuardCoversStream
  
  FlushedIsWritten
  CleanEndIsComplete
CHECK_DEADLOCK FALSE
