CONSTANTS
  Event = {e1, e2}
  Viewers = {v1}
  OutCap = 1
  MaxEvents = 4
  MaxDrops = 3
SPECIFICATION Spec
INVARIANTS TypeOK NoLostWakeup
PROPERTIES ImplementsFeed EveryViewerIsServed NoLeak
