CONSTANTS
  Ticks = {t1, t2}
  Manual = {m1}
  NoDream = NoDream
  MaxDays = 2
  MaxObs = 1
  MaxCrashes = 1
SPECIFICATION Spec
INVARIANTS TypeOK MarksWithinFiles LostOnlyLate LockIsTheTick
PROPERTIES MarksAdvance LockIsReleased
CONSTRAINT TwoDreams
CHECK_DEADLOCK FALSE
