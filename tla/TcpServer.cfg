SPECIFICATION TcpSpec
CONSTANTS
  c1 = c1
  MaxSocks = 2
  Conns = {c1}
  Threads = 2
  MaxFails = 1
  MaxStarts = 2
  MaxStops = 2
INVARIANTS NoSecondWaiter StoppedIsClosed
PROPERTIES StopEndsAccept AcceptsAll
CHECK_DEADLOCK FALSE
