CONSTANTS
  c1 = c1
  c2 = c2
  w1 = w1
  w2 = w2
  Clients = {c1, c2}
  Workers = {w1, w2}
  Fds = {2, 3}
  Kinds = {"READ", "WRITE"}
  Uses <- Split
  InitSize = 2
  Errors = {3}
  MayDrop = TRUE
  MaxGen = 2
  None = none
SPECIFICATION FairSpec
INVARIANTS WaiterHeldOnce PendingExact KernelAgrees AbortNeedsRace CancelFinds
PROPERTIES WaitServed
CHECK_DEADLOCK FALSE
