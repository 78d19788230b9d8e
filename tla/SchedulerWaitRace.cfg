CONSTANTS
  t1 = t1
  t2 = t2
  c1 = c1
  c2 = c2
  f1 = f1
  f2 = f2
  f3 = f3
  f4 = f4
  Threads = {t1}
  Root = t2
  UseCaller = TRUE
  Fibers = {f1, f2, f3, f4}
  UserFibers = {}
  Cbs = {c1, c2}
  Pin <- NoPins
  AnyThread = anythread
  None = none
  IO = TRUE
  MaySwitch = {"event"}
  MaxYields = 1
  MaxDup = 0
SPECIFICATION Spec
SYMMETRY FiberSymmetry
INVARIANT ExecWhileRunning
