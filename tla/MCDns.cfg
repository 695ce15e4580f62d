SPECIFICATION MCSpec
CONSTANTS
  Query = {q1, q2}
  Upstreams = {"tcp", "udp"}
  TcpFallback = TRUE
  Timeout = 1
  MaxTime = 4
  MaxGeneration = 3
  Key = {k1}
  MaxTtl = 2
  TicksPerSecond = 2
  MaxAge = 5
INVARIANTS
  OneConnecting
  
PROPERTIES
  NoStaleEviction
  QueryEnds
CHECK_DEADLOCK FALSE
