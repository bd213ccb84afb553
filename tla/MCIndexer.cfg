CONSTANTS
  Repos = {r1}
  Declared = {r1}
  Paths = {p1, p2}
  Blobs = {b1, bin}
  Unchunked = {bin}
  NoBlob = NoBlob
  Sched = Sched
  Requests = {q1}
  MaxCommits = 2
  MaxMishaps = 1
  MaxRemovals = 1
SPECIFICATION Spec
INVARIANTS TypeOK OnePassAtATime RecordsMatchPoints PassMatchesTree DocPointsMatchDocs RemovalLeavesNothing
CONSTRAINT RaceOrMishap
CHECK_DEADLOCK FALSE
PROPERTIES CommitNeverGoesBack ScheduledReposFollow
