SPECIFICATION Spec
CONSTANTS
  init = init
  p1 = p1
  p2 = p2
  Procs = {init, p1, p2}
  InitProc = init
  NoProc = NoProc
  NoTcb = NoTcb
  MaxTid = 1
  MaxKstack = 3
INVARIANT StacksFreedWithProcess
CHECK_DEADLOCK FALSE
