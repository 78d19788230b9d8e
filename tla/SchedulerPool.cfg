CONSTANTS
  t1 = t1
  t2 = t2
  c1 = c1
  c2 = c2
  f1 = f1
  f2 = f2
  f3 = f3
  f4 = f4
  Threads = {t1}
  Root = t2
  UseCaller = TRUE
  Fibers = {f1, f2, f3}
  UserFibers = {}
  Cbs = {c1, c2}
  Pin <- PinFirst
  AnyThread = anythread
  None = none
  IO = FALSE
  MaySwitch = {"ready"}
  MaxYields = 2
  MaxDup = 0
SPECIFICATION FairSpec
INVARIANTS TypeOK OneRunner NoLostFiber AllDone
PROPERTIES StopTerminates
