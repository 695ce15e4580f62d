SPECIFICATION MCSpec
CONSTANTS
  Producer = {p1, p2}
  First = p1
  Costs = {1, 3}
  Targets = {2}
  MaxSend = 1
  MaxReplay = 1
  Batch = 2
  Thread = {r, p1, p2}
  Receiver = r
  Initial = 1
  Delay = 4
  Interval = 2
  MaxUsize = 7
  Bits = 3
  Amounts = {1, 3}
  MaxTime = 4
  MaxCount = 2
INVARIANTS
  CreditConservation
  OversizeIsAlone
  ClosedKeepsNothing
PROPERTIES
  
  ReceiverProceeds
  SenderProceeds
  ImplementsCapacity
CHECK_DEADLOCK FALSE
