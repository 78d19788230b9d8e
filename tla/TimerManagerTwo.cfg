CONSTANTS
  w1 = w1
  w2 = w2
  Timers = {1, 2}
  Recurring = {2}
  Periods = {1, 3}
  Workers = {w1, w2}
  MAX_TIMEOUT = 2
  MaxTime = 2
SPECIFICATION Spec
SYMMETRY Symmetry
INVARIANTS TypeOK CbInSet CancelExcludesFiring OnTime
