CONSTANTS
  Event = {e1, e2}
  Viewers = {v1}
  OutCap = 1
  MaxEvents = 2
  MaxDrops = 1
SPECIFICATION Spec
INVARIANTS NothingSkipped
