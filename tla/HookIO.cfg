SPECIFICATION Spec
CONSTANTS
  f1 = f1
  f2 = f2
  Fibers = {f1, f2}
  None = None
  Fds <- FdTwo
  Prepared <- FdOne
  MaxGen = 2
  Workers = 2
  Ops <- EveryOp
  MaxCalls = 2
  EpollFails = TRUE
INVARIANTS OwnTimeout
PROPERTIES BlocksOnlyIf LimitedReturns
CHECK_DEADLOCK FALSE
