CONSTANTS
  Runs = {j1}
  MaxMessages = 7
  MaxBlocks = 2
SPECIFICATION Spec
INVARIANTS TypeOK EveryoneCanFollow NobodyWaitsForNothing
PROPERTIES BodyCloses
CHECK_DEADLOCK FALSE
