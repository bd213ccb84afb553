CONSTANTS
  Convs = {c1}
  MaxTurns = 2
  MaxDeltas = 1
  ChanCap = 1
  MaxCrashes = 1
SPECIFICATION Spec
INVARIANTS TypeOK NewestRunReachable SupersededRunsCancelled HistoryMatchesStream RunningHasOwner ResumedSessionIsSettled
PROPERTIES SettledForGood SessionsAdvance EveryTurnEnds
CHECK_DEADLOCK FALSE
