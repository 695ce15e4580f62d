SPECIFICATION MCSpec
CONSTANTS
  EntryPoint = {i1}
  Dialer = {d1}
  DnsService = {s1}
  Caller = {c1}
  Deadlines = {1}
  None = None
INVARIANTS
  TypeOK
  UseCount
  CarriersStayOpen
  ReleasedIsQuiet
PROPERTIES
  EndedIsReleased
