SPECIFICATION MCFairSpec
CONSTANTS
  EntryPoint = {}
  Dialer = {d1}
  DnsService = {}
  Caller = {c1}
  Deadlines = {}
  None = None
  PolicyCall = {k1}
  Capacity = 1
PROPERTY
  ShutdownCompletes
CHECK_DEADLOCK FALSE
