CONSTANTS
  Ticks = {t1}
  Manual = {m1}
  NoDream = NoDream
  MaxDays = 1
  MaxObs = 2
  MaxCrashes = 0
SPECIFICATION Spec
INVARIANT MarkedWasRead
CHECK_DEADLOCK FALSE
