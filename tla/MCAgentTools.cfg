CONSTANTS
  Root <- MCRoot
  Jobs <- MCJobs
  Indexer = "index"
  Offer <- MCOffer
  MaxResults = 2
  Calls = {c1}
  Web = {w1}
  Registered <- MCRegistered
  GitHubRepos = {"g1"}
  Contents <- MCContents
  Queries <- MCQueries
  MaxGlob = 2
  MaxGrep = 4
  TTL = 2
  CheckTime = 1
  WindowLines = 3
  Overlap = 1
  BatchItems = 2
  BatchTokens = 4
  InputMax = 3
  FetchFactor = 2
  FetchFloor = 2
  FetchCap = 5
  TextFloor = 1
SPECIFICATION Spec
INVARIANTS TypeOK SetupServesJob AnswersAreComplete
PROPERTIES GateIsFresh CallsAreAnswered
CHECK_DEADLOCK FALSE
