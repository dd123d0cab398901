SPECIFICATION MCSpec
CONSTANTS
  c1 = c1
  c2 = c2
  Callers = {c1, c2}
  SendCap = 2
  FrameCap = 3
  ReaderCap = 4
  Tunnels = {1, 2}
  Conns = {1, 2}
INVARIANTS
  CallsMatch
  EventsInOrder
PROPERTIES
  SendReturns
  ReadersEnd
  TeardownDrains
CHECK_DEADLOCK FALSE
