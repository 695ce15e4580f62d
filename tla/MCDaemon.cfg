SPECIFICATION MCSpec
CONSTANTS
  EntryPoint = {i1}
  Dialer = {d1}
  DnsService = {}
  Caller = {}
  Deadlines = {1}
  None = None
  PolicyCall = {k1, k2}
  Capacity = 1
INVARIANTS
  AllReleasedIsEmpty
  ServicesDrainLast
  FailureReported
  HooksBeforeDrain
  DrainedIsClean
CHECK_DEADLOCK FALSE
