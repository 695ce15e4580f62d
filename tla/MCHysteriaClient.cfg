SPECIFICATION HysteriaFairSpec
CONSTANTS
  Caller = {c1, c2, c3}
  QueueSize = 1
  MaxManager = 4
  MaxSession = 4
INVARIANTS
  SharedConnection
  FailureHasCause
PROPERTIES
  LastUserRetires
  CallReturns
CHECK_DEADLOCK FALSE
