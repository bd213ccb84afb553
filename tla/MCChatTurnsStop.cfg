CONSTANTS
  Convs = {c1}
  MaxTurns = 1
  MaxDeltas = 1
  ChanCap = 1
  MaxCrashes = 0
SPECIFICATION Spec
INVARIANTS StopMarksPartial
CHECK_DEADLOCK FALSE
