CONSTANTS
  Repos = {r1}
  Declared = {r1}
  Paths = {p1}
  Blobs = {b1}
  Unchunked = {}
  NoBlob = NoBlob
  Sched = Sched
  Requests = {q1}
  MaxCommits = 1
  MaxMishaps = 0
  MaxRemovals = 1
SPECIFICATION Spec
INVARIANTS NothingOrphaned
CHECK_DEADLOCK FALSE
