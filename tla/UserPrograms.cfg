\* Seven programs with two or three threads each; the threads of an adder go
\* through their loop twice, a thread of the barrier meets two barriers, and two
\* producers put two items each into a ring of two, which is full, empty, and
\* wraps around.
SPECIFICATION ProgramSpec
CONSTANTS
  w1 = w1
  w2 = w2
  w3 = w3
  ip = ip
  t0 = t0
  NoTask = NoTask
  NoObj = NoObj
  Tasks = {w1, w2, w3, ip, t0}
  InitProc = ip
  Main = t0
  Workers <- ThreeWorkers
  Mutexes = {"blocking", "spin", "AB.mutex", "BC.mutex"}
  SpinMutexes = {"spin", "AB.mutex", "BC.mutex"}
  Sems = {"mutex", "produce", "consume", "sync"}
  Condvars = {"condvar", "AB.condvar", "BC.condvar"}
  ResCounts = {}
  SleepTimes = {}
  MaxCount = 2
  MaxTime = 1
  Programs = {"adder_mutex_blocking", "adder_mutex_spin", "adder_atomic", "mpsc_sem",
              "barrier_condvar", "condsync_condvar", "sync_sem"}
  THREAD_COUNT = 2
  PER_THREAD = 2
  PRODUCER_COUNT = 2
  NUMBER_PER_PRODUCER = 2
  THREAD_NUM = 3
  BUFFER_SIZE = 2
INVARIANTS SumsCorrect BarrierHolds ItemsInOrder SecondAfterFirst
PROPERTIES ProgramEnds InitProcRuns
