------------------------------ MODULE KernelSync ------------------------------
(***************************************************************************)
(* The threads of a process and the kernel objects they synchronise with:  *)
(* MutexSpin, MutexBlocking (os/src/sync/mutex.rs), Semaphore              *)
(* (semaphore.rs), Condvar (condvar.rs), the timer heap (os/src/timer.rs), *)
(* the system calls over them (os/src/syscall/sync.rs) and the timer       *)
(* interrupts (os/src/trap/mod.rs), on top of the Scheduler.               *)
(*                                                                         *)
(* The kernel is not preemptive: a system call runs to the point where it  *)
(* gives the processor up, and only interrupts come in between.  The only  *)
(* interrupt that touches this state is the timer, and the only system     *)
(* call it can find in a half-done state of this module is sys_sleep.  The *)
(* cells it borrows are not masked against it: when it comes while the     *)
(* interrupted code has one of them borrowed, the kernel panics.           *)
(*                                                                         *)
(* InitProc is the init process, which calls sys_waitpid and sys_yield for *)
(* ever (user/src/bin/initproc.rs).  The other tasks call anything, within *)
(* the discipline of the user programs: a thread locks a mutex it does not *)
(* hold, unlocks one it holds, and waits on a condvar with one it holds.   *)
(***************************************************************************)
EXTENDS Scheduler, FiniteSets

CONSTANTS
  InitProc,     \* the task of the init process
  Mutexes,      \* ids in the process's mutex_list
  SpinMutexes,  \* those created with blocking == false
  Sems,         \* ids in semaphore_list
  Condvars,     \* ids in condvar_list
  NoObj,        \* no kernel object
  ResCounts,    \* the res_count arguments of sys_semaphore_create
  SleepTimes,   \* the arguments of sys_sleep
  MaxCount,     \* bound: no sys_semaphore_up at this count
  MaxTime       \* bound: the clock stops here

Objects == Mutexes \cup Sems \cup Condvars

ASSUME SyncAssumption ==
  /\ IsFiniteSet(Tasks) /\ InitProc \in Tasks
  /\ SpinMutexes \subseteq Mutexes
  /\ Mutexes \cap Sems = {} /\ Mutexes \cap Condvars = {} /\ Sems \cap Condvars = {}
  /\ NoObj \notin Objects
  /\ ResCounts \subseteq Nat /\ SleepTimes \subseteq Nat
  /\ MaxCount \in Nat /\ MaxTime \in Nat

VARIABLES
  created,     \* the kernel objects created so far
  locked,      \* MutexSpin::locked, MutexBlockingInner::locked
  count,       \* SemaphoreInner::count
  wait_queue,  \* wait_queue of MutexBlockingInner, SemaphoreInner, CondvarInner
  timers,      \* TIMERS: the heap, as a set of TimerCondVar
  now,         \* get_time_ms()
  kont,        \* where each task is: in user code, or inside a system call
  held,        \* history: the mutexes whose lock() returned to the task
  panicked     \* a RefCell was borrowed twice

syncVars == <<created, locked, count, wait_queue>>
kernelVars == <<schedVars, syncVars, timers, now, kont, held>>
vars == <<kernelVars, panicked>>

\* The points where a system call can be when its task is not running it:
\*   spin       in the loop of MutexSpin::lock
\*   lock       after block_current_and_run_next in MutexBlocking::lock
\*   down       after block_current_and_run_next in Semaphore::down
\*   wait       after block_current_and_run_next in Condvar::wait
\*   add_timer  in sys_sleep, before block_current_and_run_next
\*   sleep      in sys_sleep, after it
Konts ==
  [at : {"user", "add_timer", "sleep"}, obj : {NoObj}, mutex : {NoObj}]
    \cup [at : {"spin"}, obj : SpinMutexes, mutex : {NoObj}]
    \cup [at : {"lock"}, obj : Mutexes \ SpinMutexes, mutex : {NoObj}]
    \cup [at : {"down"}, obj : Sems, mutex : {NoObj}]
    \cup [at : {"wait"}, obj : Condvars, mutex : Mutexes]
In(point, o, m) == [at |-> point, obj |-> o, mutex |-> m]
User == In("user", NoObj, NoObj)

KernelTypeOK ==
  /\ SchedTypeOK
  /\ created \subseteq Objects
  /\ locked \in [Mutexes -> BOOLEAN]
  /\ count \in [Sems -> Int]
  /\ wait_queue \in [Objects -> Seq(Tasks)]
  /\ timers \subseteq [expire_ms : Nat, task : Tasks] /\ IsFiniteSet(timers)
  /\ now \in Nat
  /\ kont \in [Tasks -> Konts]
  /\ held \in [Tasks -> SUBSET Mutexes]

TypeOK == KernelTypeOK /\ panicked \in BOOLEAN

\* There are no kernel objects, and all tasks are in user mode.
SyncInit ==
  /\ created = {}
  /\ locked = [m \in Mutexes |-> FALSE]
  /\ count = [s \in Sems |-> 0]
  /\ wait_queue = [o \in Objects |-> <<>>]
  /\ timers = {}
  /\ now = 0
  /\ kont = [t \in Tasks |-> User]
  /\ held = [t \in Tasks |-> {}]
  /\ panicked = FALSE

Init ==
  /\ \E order \in Bijection(1..Cardinality(Tasks), Tasks) : SchedInit(order)
  /\ SyncInit

Calls(t) == current = t /\ kont[t] = User /\ t # InitProc
Resumes(t, point) == current = t /\ kont[t].at = point
Goto(t, k) == kont' = [kont EXCEPT ![t] = k]

\* VecDeque operations on the queue of object o.
push_back(queues, o, t) == [queues EXCEPT ![o] = Append(@, t)]
pop_front(queues, o) == [queues EXCEPT ![o] = Tail(@)]

-----------------------------------------------------------------------------
(* os/src/sync/mutex.rs                                                    *)

lock(t, m) ==
  \/ /\ ~locked[m]
     /\ locked' = [locked EXCEPT ![m] = TRUE]
     /\ held' = [held EXCEPT ![t] = @ \cup {m}]
     /\ Goto(t, User)
     /\ UNCHANGED <<schedVars, created, count, wait_queue>>
  \/ /\ locked[m] /\ m \in SpinMutexes
     /\ Goto(t, In("spin", m, NoObj))
     /\ suspend_current_and_run_next(<<>>)
     /\ UNCHANGED <<held, created, locked, count, wait_queue>>
  \/ /\ locked[m] /\ m \notin SpinMutexes
     /\ wait_queue' = push_back(wait_queue, m, t)
     /\ Goto(t, In("lock", m, NoObj))
     /\ block_current_and_run_next(<<>>)
     /\ UNCHANGED <<held, created, locked, count>>

\* unlock(): the mutex is handed to the first waiter, if there is one.
HandsOver(m) == m \notin SpinMutexes /\ wait_queue[m] # <<>>

\* An unlock that takes the first waiter off the queue and does not wake it.
UnlockWakesNobody(m) == <<>>
WokenByUnlock(m) == IF HandsOver(m) THEN <<Head(wait_queue[m])>> ELSE <<>>

\* An unlock that clears the flag although it has woken a waiter.
unlock_always_clears(t, m, queues) ==
  /\ locked' = [locked EXCEPT ![m] = FALSE]
  /\ wait_queue' = IF HandsOver(m) THEN pop_front(queues, m) ELSE queues
  /\ held' = [held EXCEPT ![t] = @ \ {m}]

unlock(t, m, queues) ==
  /\ locked' = [locked EXCEPT ![m] = HandsOver(m)]
  /\ wait_queue' = IF HandsOver(m) THEN pop_front(queues, m) ELSE queues
  /\ held' = [held EXCEPT ![t] = @ \ {m}]

sys_mutex_create(t, m) ==
  /\ Calls(t) /\ m \in Mutexes \ created
  /\ created' = created \cup {m}
  /\ UNCHANGED <<schedVars, locked, count, wait_queue, timers, now, kont, held>>

sys_mutex_lock(t, m) ==
  /\ Calls(t) /\ m \in created /\ m \notin held[t]
  /\ lock(t, m)
  /\ UNCHANGED <<timers, now>>

sys_mutex_unlock(t, m) ==
  /\ Calls(t) /\ m \in held[t]
  /\ unlock(t, m, wait_queue)
  /\ wakeup_task(WokenByUnlock(m))
  /\ UNCHANGED <<created, count, timers, now, kont>>

\* The loop of MutexSpin::lock, each time the task runs again.
MutexSpinRetry(t) ==
  /\ Resumes(t, "spin")
  /\ lock(t, kont[t].obj)
  /\ UNCHANGED <<timers, now>>

\* MutexBlocking::lock returns: the mutex was handed to this task.
MutexLockReturns(t) ==
  /\ Resumes(t, "lock")
  /\ held' = [held EXCEPT ![t] = @ \cup {kont[t].obj}]
  /\ Goto(t, User)
  /\ UNCHANGED <<schedVars, syncVars, timers, now>>

-----------------------------------------------------------------------------
(* os/src/sync/semaphore.rs                                                *)

sys_semaphore_create(t, s, res_count) ==
  /\ Calls(t) /\ s \in Sems \ created
  /\ created' = created \cup {s}
  /\ count' = [count EXCEPT ![s] = res_count]
  /\ UNCHANGED <<schedVars, locked, wait_queue, timers, now, kont, held>>

\* An off-by-one: up() wakes nobody when the count comes back to zero.
up_wakes_below_zero(t, s) ==
  LET wakes == count[s] + 1 < 0 /\ wait_queue[s] # <<>>
  IN
  /\ Calls(t) /\ s \in created /\ count[s] < MaxCount
  /\ count' = [count EXCEPT ![s] = @ + 1]
  /\ wait_queue' = IF wakes THEN pop_front(wait_queue, s) ELSE wait_queue
  /\ wakeup_task(IF wakes THEN <<Head(wait_queue[s])>> ELSE <<>>)
  /\ UNCHANGED <<created, locked, timers, now, kont, held>>

sys_semaphore_up(t, s) ==
  LET wakes == count[s] + 1 <= 0 /\ wait_queue[s] # <<>>
  IN
  /\ Calls(t) /\ s \in created /\ count[s] < MaxCount
  /\ count' = [count EXCEPT ![s] = @ + 1]
  /\ wait_queue' = IF wakes THEN pop_front(wait_queue, s) ELSE wait_queue
  /\ wakeup_task(IF wakes THEN <<Head(wait_queue[s])>> ELSE <<>>)
  /\ UNCHANGED <<created, locked, timers, now, kont, held>>

sys_semaphore_down(t, s) ==
  /\ Calls(t) /\ s \in created
  /\ count' = [count EXCEPT ![s] = @ - 1]
  /\ \/ /\ count[s] - 1 >= 0
        /\ UNCHANGED <<schedVars, kont, wait_queue>>
     \/ /\ count[s] - 1 < 0
        /\ wait_queue' = push_back(wait_queue, s, t)
        /\ Goto(t, In("down", s, NoObj))
        /\ block_current_and_run_next(<<>>)
  /\ UNCHANGED <<created, locked, timers, now, held>>

SemaphoreDownReturns(t) ==
  /\ Resumes(t, "down")
  /\ Goto(t, User)
  /\ UNCHANGED <<schedVars, syncVars, timers, now, held>>

-----------------------------------------------------------------------------
(* os/src/sync/condvar.rs                                                  *)

sys_condvar_create(t, c) ==
  /\ Calls(t) /\ c \in Condvars \ created
  /\ created' = created \cup {c}
  /\ UNCHANGED <<schedVars, locked, count, wait_queue, timers, now, kont, held>>

sys_condvar_signal(t, c) ==
  /\ Calls(t) /\ c \in created
  /\ IF wait_queue[c] = <<>>
     THEN UNCHANGED <<schedVars, wait_queue>>
     ELSE /\ wait_queue' = pop_front(wait_queue, c)
          /\ wakeup_task(<<Head(wait_queue[c])>>)
  /\ UNCHANGED <<created, locked, count, timers, now, kont, held>>

\* A signal_all that wakes every waiter but forgets to take it off the queue.
signal_all_keeps_queue(t, c) ==
  /\ Calls(t) /\ c \in created
  /\ wakeup_task(wait_queue[c])
  /\ UNCHANGED <<created, locked, count, wait_queue, timers, now, kont, held>>

sys_condvar_signal_all(t, c) ==
  /\ Calls(t) /\ c \in created
  /\ wait_queue' = [wait_queue EXCEPT ![c] = <<>>]
  /\ wakeup_task(wait_queue[c])
  /\ UNCHANGED <<created, locked, count, timers, now, kont, held>>

\* Condvar::wait up to the point where it blocks.
sys_condvar_wait(t, c, m) ==
  /\ Calls(t) /\ c \in created /\ m \in held[t]
  /\ unlock(t, m, push_back(wait_queue, c, t))
  /\ Goto(t, In("wait", c, m))
  /\ block_current_and_run_next(WokenByUnlock(m))
  /\ UNCHANGED <<created, count, timers, now>>

\* A wait() that returns to its caller without taking the mutex again.
CondvarWaitForgetsLock(t) ==
  /\ Resumes(t, "wait")
  /\ held' = [held EXCEPT ![t] = @ \cup {kont[t].mutex}]
  /\ Goto(t, User)
  /\ UNCHANGED <<schedVars, syncVars, timers, now>>

\* Condvar::wait after it was signalled: mutex.lock().
CondvarWaitRelocks(t) ==
  /\ Resumes(t, "wait")
  /\ lock(t, kont[t].mutex)
  /\ UNCHANGED <<timers, now>>

-----------------------------------------------------------------------------
(* os/src/timer.rs, and the timer interrupts of os/src/trap/mod.rs         *)

Expired == {timer \in timers : timer.expire_ms <= now}

\* TimerCondVar ordered by expire_ms itself, so that the latest is on top.
PopOrdersMaxHeap(S) ==
  {order \in [1..Cardinality(S) -> S] :
     /\ Range(order) = S
     /\ IsInjective(order)
     /\ \A i, j \in DOMAIN order : i < j => order[i].expire_ms >= order[j].expire_ms}

\* The orders in which the heap gives up the timers of S: earliest first,
\* timers that expire together in any order.
PopOrders(S) ==
  {order \in [1..Cardinality(S) -> S] :
     /\ Range(order) = S
     /\ IsInjective(order)
     /\ \A i, j \in DOMAIN order : i < j => order[i].expire_ms <= order[j].expire_ms}

TasksOf(order) == [i \in DOMAIN order |-> order[i].task]

\* sys_sleep up to block_current_and_run_next: interrupts are enabled here.
sys_sleep(t, ms) ==
  /\ Calls(t) /\ now + ms <= MaxTime
  /\ timers' = timers \cup {[expire_ms |-> now + ms, task |-> t]}
  /\ Goto(t, In("add_timer", NoObj, NoObj))
  /\ UNCHANGED <<schedVars, syncVars, now, held>>

SleepBlocks(t) ==
  /\ Resumes(t, "add_timer")
  /\ Goto(t, In("sleep", NoObj, NoObj))
  /\ block_current_and_run_next(<<>>)
  /\ UNCHANGED <<syncVars, timers, now, held>>

SleepReturns(t) ==
  /\ Resumes(t, "sleep")
  /\ Goto(t, User)
  /\ UNCHANGED <<schedVars, syncVars, timers, now, held>>

\* check_timer: `order' is the order in which it pops the expired timers.
check_timer(order) ==
  /\ order \in PopOrders(Expired)
  /\ timers' = timers \ Expired

\* SupervisorTimer in trap_handler: the current task was in user mode.
UserTimerInterrupt ==
  /\ \E t \in Tasks : current = t /\ kont[t] = User
  /\ \E order \in PopOrders(Expired) :
       /\ check_timer(order)
       /\ suspend_current_and_run_next(TasksOf(order))
  /\ UNCHANGED <<syncVars, now, kont, held>>

\* SupervisorTimer in trap_from_kernel: inside a system call or the idle loop, at
\* a point where nothing it needs is borrowed.  It does not schedule.
KernelTimerInterrupt ==
  /\ \A t \in Tasks : current = t => kont[t] # User
  /\ Expired # {}
  /\ \E order \in PopOrders(Expired) :
       /\ check_timer(order)
       /\ wakeup_task(TasksOf(order))
  /\ UNCHANGED <<syncVars, now, kont, held>>

Tick ==
  /\ now < MaxTime
  /\ now' = now + 1
  /\ UNCHANGED <<schedVars, syncVars, timers, kont, held>>

sys_yield(t) ==
  /\ current = t /\ kont[t] = User
  /\ suspend_current_and_run_next(<<>>)
  /\ UNCHANGED <<syncVars, timers, now, kont, held>>

-----------------------------------------------------------------------------
RunTasks == run_tasks /\ UNCHANGED <<syncVars, timers, now, kont, held>>

\* The rest of a system call whose task runs again.
Continue(t) ==
  \/ MutexSpinRetry(t)
  \/ MutexLockReturns(t)
  \/ SemaphoreDownReturns(t)
  \/ CondvarWaitRelocks(t)
  \/ SleepBlocks(t)
  \/ SleepReturns(t)

Create(t) ==
  \/ \E m \in Mutexes : sys_mutex_create(t, m)
  \/ \E s \in Sems, n \in ResCounts : sys_semaphore_create(t, s, n)
  \/ \E c \in Condvars : sys_condvar_create(t, c)

Call(t) ==
  \/ \E m \in Mutexes : sys_mutex_lock(t, m) \/ sys_mutex_unlock(t, m)
  \/ \E s \in Sems : sys_semaphore_up(t, s) \/ sys_semaphore_down(t, s)
  \/ \E c \in Condvars : sys_condvar_signal(t, c) \/ sys_condvar_signal_all(t, c)
  \/ \E c \in Condvars, m \in Mutexes : sys_condvar_wait(t, c, m)
  \/ \E ms \in SleepTimes : sys_sleep(t, ms)
  \/ sys_yield(t)

\* The step borrows, somewhere on its way, what check_timer borrows when it
\* interrupts the step there: TASK_MANAGER in add_task or fetch_task, if a timer
\* has expired; TIMERS in add_timer; and in block_current_task the TCB of a task
\* whose own timer has expired.
TimerFindsBorrowed ==
  \/ ready_queue' # ready_queue /\ Expired # {}
  \/ timers' # timers
  \/ \E timer \in Expired :
       kont[timer.task].at = "add_timer" /\ kont'[timer.task].at = "sleep"

\* Kernel code that the timer may interrupt, and the handlers of interrupts,
\* which run with interrupts off.
Interruptible ==
  /\ ~panicked
  /\ panicked' \in BOOLEAN
  /\ panicked' => TimerFindsBorrowed
Uninterrupted == ~panicked /\ panicked' = FALSE

\* The panic handler shuts the machine down.
Halted == panicked /\ UNCHANGED vars

Next ==
  \/ /\ RunTasks \/ \E t \in Tasks : Create(t) \/ Call(t) \/ Continue(t)
     /\ Interruptible
  \/ (UserTimerInterrupt \/ KernelTimerInterrupt \/ Tick) /\ Uninterrupted
  \/ Halted

Spec == Init /\ [][Next]_vars

-----------------------------------------------------------------------------
(* Safety                                                                  *)

InQueue(t, q) == t \in Range(q)
InTimers(t) == \E timer \in timers : timer.task = t

\* The task is on the processor and has not yet left itself to a timer.
OnProcessor(t) == current = t /\ kont[t].at # "add_timer"

\* No wakeup is lost: a task that is not running is on the ready queue, in the
\* queue of the object its system call waits for, or in the timer heap, so
\* that something will run it again (wakeup_task, block_current_task,
\* add_timer/check_timer even when the timer fires before sys_sleep blocks).
NoTaskLost ==
  \A t \in Tasks :
    \/ OnProcessor(t)
    \/ InQueue(t, ready_queue)
    \/ kont[t].obj # NoObj /\ InQueue(t, wait_queue[kont[t].obj])
    \/ InTimers(t)

\* No task is queued twice: it is never resumed from a stale TaskContext nor
\* run by the idle loop while it is still waiting.  Not even by a timer
\* interrupt that wakes the task that is about to block in sys_sleep.
NoTaskTwice ==
  /\ IsInjective(ready_queue)
  /\ \A o \in Objects : IsInjective(wait_queue[o])
  /\ \A x, y \in timers : x.task = y.task => x = y
  /\ \A t \in Tasks :
       /\ OnProcessor(t) => ~InQueue(t, ready_queue) /\ ~InTimers(t)
       /\ InQueue(t, ready_queue) => ~InTimers(t)
       /\ \A o \in Objects :
            InQueue(t, wait_queue[o]) =>
              /\ kont[t].obj = o /\ current # t
              /\ ~InQueue(t, ready_queue) /\ ~InTimers(t)

\* unlock() has woken t and left `locked' set for it, and t has not run yet.
Granted(t, m) == kont[t] = In("lock", m, NoObj) /\ ~InQueue(t, wait_queue[m])
Owns(t, m) == m \in held[t] \/ Granted(t, m)

\* A mutex has at most one owner, through hand-over by unlock, spinning and
\* re-locking in Condvar::wait (os/src/sync/mutex.rs): two threads never hold
\* it, and it is never given to a thread while another one holds it.
MutualExclusion ==
  \A m \in Mutexes, t, u \in Tasks : Owns(t, m) /\ Owns(u, m) => t = u

\* `locked' is set exactly while somebody owns the mutex: the assert!(locked)
\* in MutexBlocking::unlock cannot fail and the flag is never left behind.  A
\* free mutex has nobody waiting for it, and nobody sleeps on a MutexSpin.
LockedAgrees ==
  \A m \in Mutexes :
    /\ locked[m] <=> \E t \in Tasks : Owns(t, m)
    /\ ~locked[m] \/ m \in SpinMutexes => wait_queue[m] = <<>>

\* A semaphore's negative count is the number of threads waiting on it, and
\* nobody waits while there are permits (os/src/sync/semaphore.rs).  A
\* semaphore that does not exist yet has neither.
SemaphoreAccounting ==
  \A s \in Sems :
    /\ Len(wait_queue[s]) = IF count[s] < 0 THEN -count[s] ELSE 0
    /\ s \notin created => count[s] = 0

\* A task between add_timer and block_current_and_run_next is running.
SleepEntry == \A t \in Tasks : kont[t].at = "add_timer" => current = t

\* Together the invariants are inductive.
IInv ==
  /\ KernelTypeOK /\ NoTaskLost /\ NoTaskTwice /\ SleepEntry
  /\ MutualExclusion /\ LockedAgrees /\ SemaphoreAccounting

-----------------------------------------------------------------------------
(* Action properties                                                       *)

\* A step gives a MutexBlocking to a thread only if that thread has waited for
\* it or nobody has.
GivenInTurn ==
  \A m \in Mutexes \ SpinMutexes, t \in Tasks :
    m \in held'[t] \ held[t] =>
      \/ kont[t] = In("lock", m, NoObj)
      \/ wait_queue[m] = <<>>

\* lock() is first come first served on a MutexBlocking: no thread barges in
\* between unlock() and the thread it woke, not even from Condvar::wait.
NoBarging == [][GivenInTurn]_vars

\* A step wakes a sleeper only with, and behind, those that were due earlier.
WokenInTurn ==
  \A x, y \in timers :
    x.expire_ms < y.expire_ms /\ y \notin timers' =>
      /\ x \notin timers'
      /\ \E i, j \in DOMAIN ready_queue' :
           i < j /\ ready_queue'[i] = x.task /\ ready_queue'[j] = y.task

\* check_timer wakes sleepers in the order of their deadlines: when a sleeper
\* is woken, every sleeper with an earlier deadline is woken with it and is
\* before it on the ready queue (the reversed Ord of TimerCondVar).
DeadlineOrder == [][WokenInTurn]_vars
=============================================================================
