CONSTANTS
  Repos = {r1}
  Declared = {}
  Paths = {p1}
  Blobs = {b1, b2}
  Unchunked = {}
  NoBlob = NoBlob
  Sched = Sched
  Requests = {q1}
  MaxCommits = 2
  MaxMishaps = 0
  MaxRemovals = 0
SPECIFICATION Spec
PROPERTIES RegisteredReposFollow
CHECK_DEADLOCK FALSE
