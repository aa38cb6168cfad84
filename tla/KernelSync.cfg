\* Three threads beside the init process, one object of each kind, sleeps of 0
\* and 1 ms up to time 2.
SPECIFICATION Spec
CONSTANTS
  t1 = t1
  t2 = t2
  t3 = t3
  ip = ip
  mb = mb
  ms = ms
  s1 = s1
  c1 = c1
  NoTask = NoTask
  NoObj = NoObj
  Tasks = {t1, t2, t3, ip}
  InitProc = ip
  Mutexes = {mb, ms}
  SpinMutexes = {ms}
  Sems = {s1}
  Condvars = {c1}
  ResCounts = {0, 1}
  SleepTimes = {0, 1}
  MaxCount = 1
  MaxTime = 2
SYMMETRY ThreadSymmetry
INVARIANTS NoTaskLost NoTaskTwice MutualExclusion SemaphoreAccounting
PROPERTIES NoBarging DeadlineOrder
