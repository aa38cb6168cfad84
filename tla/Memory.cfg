\* A process needs 8 frames, a thread 2 more: memory runs out when both
\* processes run a second thread.  A panic ends the system.
SPECIFICATION Spec
CONSTANTS
  Procs = {1, 2}
  initproc = 1
  Frames = 20
  Fanout = 6
  ImageSizes = {1, 2}
  USER_STACK_PAGES = 1
  MaxThreads = 3
  MaxCalls = 7
  Stored <- MCStored
  Values = {"a"}
  PAGE_SIZE = 2
  RefSizes = {1, 2}
CHECK_DEADLOCK FALSE
INVARIANTS FramesOwned PagesMapped AssertionsHold BuffersTranslated
PROPERTY ImplementsSpaces
