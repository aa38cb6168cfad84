SPECIFICATION FairSpec
CONSTANTS
  p1 = p1
  p2 = p2
  Bytes = {0, 1, 2, 3, 4}
  RING_BUFFER_SIZE = 2
  Procs = {p1, p2}
  Creator = p1
  Tasks <- MCTasks
  NoTask = NoTask
  MaxFds = 2
  ReadSizes = {0, 2}
  Buffers <- MCBuffers
  MaxSent = 3
PROPERTY ImplementsFifo ReaderSeesEnd PipeProgress
CHECK_DEADLOCK FALSE
