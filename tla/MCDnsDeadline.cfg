SPECIFICATION MCSpec
CONSTANTS
  Query = {q1, q2}
  Upstreams = {"tcp", "udp"}
  TcpFallback = TRUE
  Timeout = 2
  MaxTime = 4
  MaxGeneration = 3
  Key = {k1}
  MaxTtl = 2
  TicksPerSecond = 2
  MaxAge = 5
INVARIANT DeadlineHolds
CHECK_DEADLOCK FALSE
