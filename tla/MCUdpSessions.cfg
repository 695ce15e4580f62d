SPECIFICATION UdpFairSpec
CONSTANTS
  Target = {t1, t2}
  MaxSessions = 1
  MaxGeneration = 3
INVARIANTS
  OpenIsListed
PROPERTIES
  NoStaleRemoval
  SlotsAreFreed
CHECK_DEADLOCK FALSE
