\* A panic ends the system.
SPECIFICATION FairSpec
CONSTANTS
  Readers = {"r1", "r2"}
  Pollers = {"g1", "g2"}
  FsUsers = {"fs"}
  initproc = "init"
  DataBlocks <- MCDataBlocks
  Calls <- MCCalls
  BLOCK_CACHE_SIZE = 2
  Values = {1, 2}
  Scenarios <- MCScenarios
CHECK_DEADLOCK FALSE
INVARIANTS SessionsMasked CacheTransparent WritesDurable EventGetAnswers
PROPERTIES InputDelivered FsCallsReturn
