\* Two users of files.
SPECIFICATION FairSpec
CONSTANTS
  Readers = {}
  Pollers = {}
  FsUsers = {"fs1", "fs2"}
  initproc = "init"
  DataBlocks <- MCDataBlocks
  Calls <- MCCalls
  BLOCK_CACHE_SIZE = 2
  Values = {1}
  Scenarios <- TwoFsUsers
CHECK_DEADLOCK FALSE
PROPERTY SleeperContinues
