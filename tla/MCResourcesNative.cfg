SPECIFICATION MCSpec
CONSTANTS
  EntryPoint = {}
  Dialer = {d1}
  DnsService = {}
  Caller = {c1}
  Deadlines = {}
  None = None
INVARIANT
  NativeDestroyedFirst
CHECK_DEADLOCK FALSE
