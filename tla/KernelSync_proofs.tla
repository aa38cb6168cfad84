-------------------------- MODULE KernelSync_proofs --------------------------
(***************************************************************************)
(* The invariants of KernelSync hold for every set of tasks, mutexes,      *)
(* semaphores and condvars.  IInv, their conjunction, is inductive: one    *)
(* lemma for each operation says that it preserves it.                     *)
(***************************************************************************)
EXTENDS KernelSync, Queue_lemmas, FiniteSetTheorems

-----------------------------------------------------------------------------
(* What a step of the scheduler does to the ready queue                    *)

\* The tasks a step wakes are queued nowhere the scheduler can see.
FreshlyWoken(woken) ==
  /\ woken \in Seq(Tasks)
  /\ IsInjective(woken)
  /\ Range(woken) \cap Range(ready_queue) = {}

\* wakeup_task queues exactly the woken tasks.
LEMMA WakeupStep ==
  ASSUME SchedTypeOK, IsInjective(ready_queue),
         NEW woken, FreshlyWoken(woken), wakeup_task(woken)
  PROVE  /\ SchedTypeOK' /\ current' = current
         /\ Range(ready_queue') = Range(ready_queue) \cup Range(woken)
         /\ IsInjective(ready_queue')
<1>1. /\ ready_queue \o woken \in Seq(Tasks)
      /\ Range(ready_queue \o woken) = Range(ready_queue) \cup Range(woken)
      /\ IsInjective(ready_queue \o woken)
  BY QueueConcat DEF SchedTypeOK, FreshlyWoken
<1>2. task_status' \in [Tasks -> TaskStatus]
  BY DEF wakeup_task, Woken, SchedTypeOK, TaskStatus
<1> QED
  BY <1>1, <1>2 DEF wakeup_task, SchedTypeOK

\* block_current_and_run_next does too, and the current task leaves.
LEMMA BlockStep ==
  ASSUME SchedTypeOK, IsInjective(ready_queue),
         NEW woken, FreshlyWoken(woken), block_current_and_run_next(woken)
  PROVE  /\ SchedTypeOK' /\ current' = NoTask
         /\ Range(ready_queue') = Range(ready_queue) \cup Range(woken)
         /\ IsInjective(ready_queue')
<1>1. /\ ready_queue \o woken \in Seq(Tasks)
      /\ Range(ready_queue \o woken) = Range(ready_queue) \cup Range(woken)
      /\ IsInjective(ready_queue \o woken)
  BY QueueConcat DEF SchedTypeOK, FreshlyWoken
<1>2. task_status' \in [Tasks -> TaskStatus]
  BY Zenon DEF block_current_and_run_next, Woken, SchedTypeOK, TaskStatus
<1> QED
  BY <1>1, <1>2 DEF block_current_and_run_next, SchedTypeOK

\* suspend_current_and_run_next queues the current task after them.
LEMMA SuspendStep ==
  ASSUME SchedTypeOK, IsInjective(ready_queue), current \in Tasks,
         current \notin Range(ready_queue),
         NEW woken, FreshlyWoken(woken), current \notin Range(woken),
         suspend_current_and_run_next(woken)
  PROVE  /\ SchedTypeOK' /\ current' = NoTask
         /\ Range(ready_queue') = Range(ready_queue) \cup Range(woken) \cup {current}
         /\ IsInjective(ready_queue')
<1> DEFINE q == ready_queue \o woken
<1>1. /\ q \in Seq(Tasks)
      /\ Range(q) = Range(ready_queue) \cup Range(woken)
      /\ IsInjective(q)
  BY QueueConcat DEF SchedTypeOK, FreshlyWoken
<1> HIDE DEF q
<1>2. /\ Append(q, current) \in Seq(Tasks)
      /\ Range(Append(q, current)) = Range(q) \cup {current}
      /\ IsInjective(Append(q, current))
  BY <1>1, QueuePush
<1>3. task_status' \in [Tasks -> TaskStatus]
  BY DEF suspend_current_and_run_next, Woken, SchedTypeOK, TaskStatus
<1> QED
  BY <1>1, <1>2, <1>3 DEF suspend_current_and_run_next, SchedTypeOK, q

\* run_tasks moves the head of the ready queue to the processor.
LEMMA RunStep ==
  ASSUME SchedTypeOK, IsInjective(ready_queue), run_tasks
  PROVE  /\ SchedTypeOK'
         /\ current' \in Range(ready_queue)
         /\ Range(ready_queue') = Range(ready_queue) \ {current'}
         /\ IsInjective(ready_queue')
<1>1. /\ Head(ready_queue) \in Tasks
      /\ Head(ready_queue) \in Range(ready_queue)
      /\ Tail(ready_queue) \in Seq(Tasks)
      /\ Range(Tail(ready_queue)) = Range(ready_queue) \ {Head(ready_queue)}
      /\ IsInjective(Tail(ready_queue))
  BY QueuePop DEF run_tasks, SchedTypeOK
<1>2. task_status' \in [Tasks -> TaskStatus]
  BY <1>1 DEF run_tasks, SchedTypeOK, TaskStatus
<1> QED
  BY <1>1, <1>2 DEF run_tasks, SchedTypeOK

\* Nobody is woken.
LEMMA NobodyWoken == FreshlyWoken(<<>>) /\ Range(<<>>) = {}
BY DEF FreshlyWoken, Range, IsInjective

-----------------------------------------------------------------------------
(* What a step does to the wait queues                                     *)

WaitQueues(q) ==
  /\ q \in [Objects -> Seq(Tasks)]
  /\ \A o \in Objects : IsInjective(q[o])

\* A task joins the queue of o.
LEMMA Enqueue ==
  ASSUME NEW q, WaitQueues(q), NEW o \in Objects, NEW t \in Tasks,
         t \notin Range(q[o])
  PROVE  /\ WaitQueues(push_back(q, o, t))
         /\ Range(push_back(q, o, t)[o]) = Range(q[o]) \cup {t}
         /\ Len(push_back(q, o, t)[o]) = Len(q[o]) + 1
         /\ \A p \in Objects : p # o => push_back(q, o, t)[p] = q[p]
<1>1. /\ Append(q[o], t) \in Seq(Tasks)
      /\ Range(Append(q[o], t)) = Range(q[o]) \cup {t}
      /\ Len(Append(q[o], t)) = Len(q[o]) + 1
      /\ IsInjective(Append(q[o], t))
  BY QueuePush DEF WaitQueues
<1> QED
  BY <1>1 DEF WaitQueues, push_back, pop_front

\* The first task leaves the queue of o.
LEMMA Dequeue ==
  ASSUME NEW q, WaitQueues(q), NEW o \in Objects, q[o] # <<>>
  PROVE  /\ WaitQueues(pop_front(q, o))
         /\ Head(q[o]) \in Tasks
         /\ Head(q[o]) \in Range(q[o])
         /\ Range(pop_front(q, o)[o]) = Range(q[o]) \ {Head(q[o])}
         /\ Len(pop_front(q, o)[o]) = Len(q[o]) - 1
         /\ \A p \in Objects : p # o => pop_front(q, o)[p] = q[p]
<1>1. /\ Tail(q[o]) \in Seq(Tasks)
      /\ Head(q[o]) \in Tasks
      /\ Head(q[o]) \in Range(q[o])
      /\ Range(Tail(q[o])) = Range(q[o]) \ {Head(q[o])}
      /\ Len(Tail(q[o])) = Len(q[o]) - 1
      /\ IsInjective(Tail(q[o]))
  BY QueuePop DEF WaitQueues
<1> QED
  BY <1>1 DEF WaitQueues, push_back, pop_front

-----------------------------------------------------------------------------
(* Facts about a state that satisfies the invariant                        *)

LEMMA ObjectKinds ==
  /\ Mutexes \subseteq Objects /\ Sems \subseteq Objects /\ Condvars \subseteq Objects
  /\ NoObj \notin Objects
  /\ \A m \in Mutexes : m \notin Sems /\ m \notin Condvars
  /\ \A s \in Sems : s \notin Condvars
BY SyncAssumption DEF Objects

\* What a task waits for, by where it waits.
LEMMA KontKinds ==
  ASSUME KernelTypeOK, NEW t \in Tasks
  PROVE  /\ kont[t].obj \in Objects \cup {NoObj}
         /\ kont[t].at \in {"user", "add_timer", "sleep"} => kont[t].obj = NoObj
         /\ kont[t].at = "user" => kont[t] = User
         /\ kont[t].at = "spin" => kont[t].obj \in SpinMutexes
         /\ kont[t].at = "lock" => kont[t].obj \in Mutexes \ SpinMutexes
         /\ kont[t].at = "lock" => kont[t] = In("lock", kont[t].obj, NoObj)
         /\ kont[t].at = "down" => kont[t].obj \in Sems
         /\ kont[t].at = "wait" => kont[t].obj \in Condvars /\ kont[t].mutex \in Mutexes
<1>1. kont[t] \in Konts
  BY DEF KernelTypeOK
<1> QED
  BY <1>1, SyncAssumption, ObjectKinds DEF Konts, User, In

\* A task that runs is in no queue.
LEMMA RunningFacts ==
  ASSUME IInv, NEW t \in Tasks, current = t, kont[t].at # "add_timer"
  PROVE  /\ WaitQueues(wait_queue)
         /\ SchedTypeOK /\ IsInjective(ready_queue)
         /\ OnProcessor(t)
         /\ t \notin Range(ready_queue) /\ ~InTimers(t)
         /\ \A o \in Objects : t \notin Range(wait_queue[o])
BY DEF IInv, KernelTypeOK, NoTaskTwice, WaitQueues, OnProcessor, InQueue

\* A task that makes a system call, or that is interrupted in user code.
LEMMA UserFacts ==
  ASSUME IInv, NEW t \in Tasks, current = t, kont[t] = User
  PROVE  /\ WaitQueues(wait_queue)
         /\ SchedTypeOK /\ IsInjective(ready_queue)
         /\ OnProcessor(t) /\ kont[t].at = "user"
         /\ t \notin Range(ready_queue) /\ ~InTimers(t)
         /\ \A o \in Objects : t \notin Range(wait_queue[o])
         /\ \A u \in Tasks : kont[u].obj \in Objects \cup {NoObj}
<1>1. kont[t].at = "user" /\ kont[t].at # "add_timer"
  BY DEF User, In
<1>2. \A u \in Tasks : kont[u].obj \in Objects \cup {NoObj}
  BY KontKinds DEF IInv
<1> QED
  BY <1>1, <1>2, RunningFacts

-----------------------------------------------------------------------------
(* lock()                                                                  *)

\* lock() in sys_mutex_lock, in the loop of MutexSpin::lock and in
\* Condvar::wait.
LEMMA LockStep ==
  ASSUME IInv, NEW t \in Tasks, NEW m \in Mutexes, current = t,
         kont[t].at \in {"user", "spin", "wait"},
         lock(t, m), UNCHANGED <<timers, now>>
  PROVE  IInv'
<1> USE NoTaskAssumption, SyncAssumption, ObjectKinds
<1>0. /\ WaitQueues(wait_queue)
      /\ SchedTypeOK /\ IsInjective(ready_queue)
      /\ OnProcessor(t) /\ kont[t].at # "lock" /\ kont[t].at # "add_timer"
      /\ t \notin Range(ready_queue) /\ ~InTimers(t)
      /\ \A o \in Objects : t \notin Range(wait_queue[o])
      /\ \A u \in Tasks : kont[u].obj \in Objects \cup {NoObj}
  BY RunningFacts, KontKinds DEF IInv
<1>1. CASE ~locked[m]
  <2>0. /\ locked' = [locked EXCEPT ![m] = TRUE]
        /\ held' = [held EXCEPT ![t] = @ \cup {m}]
        /\ kont' = [kont EXCEPT ![t] = User]
        /\ UNCHANGED <<schedVars, created, count, wait_queue>>
    BY <1>1 DEF lock, Goto
  <2>1. KernelTypeOK'
    BY <2>0 DEF IInv, KernelTypeOK, SchedTypeOK, schedVars, Konts, User, In
  <2>2. NoTaskLost'
    BY <2>0, <1>0 DEF IInv, KernelTypeOK, NoTaskLost, OnProcessor, InQueue, InTimers, schedVars, User, In
  <2>3. NoTaskTwice'
    BY <2>0, <1>0 DEF IInv, KernelTypeOK, NoTaskTwice, OnProcessor, InQueue, InTimers, schedVars, User, In
  <2>4. SleepEntry'
    BY <2>0, <1>0 DEF IInv, KernelTypeOK, SleepEntry, schedVars, User, In
  <2>o. \A u \in Tasks, n \in Mutexes : Owns(u, n)' <=> Owns(u, n) \/ (u = t /\ n = m)
    BY <2>0, <1>0 DEF IInv, KernelTypeOK, Owns, Granted, InQueue, User, In
  <2>5. MutualExclusion'
    BY <2>o, <1>1 DEF IInv, MutualExclusion, LockedAgrees
  <2>6. LockedAgrees'
    BY <2>0, <2>o, <1>1 DEF IInv, KernelTypeOK, LockedAgrees
  <2>7. SemaphoreAccounting'
    BY <2>0 DEF IInv, SemaphoreAccounting
  <2> QED
    BY <2>1, <2>2, <2>3, <2>4, <2>5, <2>6, <2>7 DEF IInv
<1>2. CASE locked[m] /\ m \in SpinMutexes
  <2>0. /\ kont' = [kont EXCEPT ![t] = In("spin", m, NoObj)]
        /\ suspend_current_and_run_next(<<>>)
        /\ UNCHANGED <<held, created, locked, count, wait_queue>>
    BY <1>2 DEF lock, Goto
  <2>00. /\ SchedTypeOK' /\ current' = NoTask
         /\ Range(ready_queue') = Range(ready_queue) \cup {t}
         /\ IsInjective(ready_queue')
    BY <1>0, <2>0, SuspendStep, NobodyWoken
  <2>1. KernelTypeOK'
    BY <2>0, <2>00, <1>2 DEF IInv, KernelTypeOK, Konts, In
  <2>2. NoTaskLost'
    BY <2>0, <2>00, <1>0 DEF IInv, KernelTypeOK, NoTaskLost, OnProcessor, InQueue, InTimers, In
  <2>3. NoTaskTwice'
    BY <2>0, <2>00, <1>0 DEF IInv, KernelTypeOK, NoTaskTwice, OnProcessor, InQueue, InTimers, In
  <2>4. SleepEntry'
    BY <2>0, <2>00, <1>0 DEF IInv, KernelTypeOK, SleepEntry, In
  <2>o. \A u \in Tasks, n \in Mutexes : Owns(u, n)' <=> Owns(u, n)
    BY <2>0, <1>0 DEF IInv, KernelTypeOK, Owns, Granted, InQueue, In
  <2>5. MutualExclusion'
    BY <2>o DEF IInv, MutualExclusion
  <2>6. LockedAgrees'
    BY <2>0, <2>o, <1>2 DEF IInv, LockedAgrees
  <2>7. SemaphoreAccounting'
    BY <2>0 DEF IInv, SemaphoreAccounting
  <2> QED
    BY <2>1, <2>2, <2>3, <2>4, <2>5, <2>6, <2>7 DEF IInv
<1>3. CASE locked[m] /\ m \notin SpinMutexes
  <2>0. /\ wait_queue' = push_back(wait_queue, m, t)
        /\ kont' = [kont EXCEPT ![t] = In("lock", m, NoObj)]
        /\ block_current_and_run_next(<<>>)
        /\ UNCHANGED <<held, created, locked, count>>
    BY <1>3 DEF lock, Goto
  <2>00. /\ SchedTypeOK' /\ current' = NoTask
         /\ Range(ready_queue') = Range(ready_queue)
         /\ IsInjective(ready_queue')
    BY Zenon, <1>0, <2>0, BlockStep, NobodyWoken
  <2>000. /\ WaitQueues(wait_queue')
          /\ Range(wait_queue'[m]) = Range(wait_queue[m]) \cup {t}
          /\ \A p \in Objects : p # m => wait_queue'[p] = wait_queue[p]
    BY <1>0, <2>0, Enqueue
  <2>1. KernelTypeOK'
    BY <2>0, <2>00, <2>000, <1>3 DEF IInv, KernelTypeOK, Konts, In, WaitQueues
  <2>k. /\ kont'[t] = In("lock", m, NoObj) /\ kont'[t].at = "lock" /\ kont'[t].obj = m
        /\ \A u \in Tasks : u # t => kont'[u] = kont[u]
    BY <2>0 DEF IInv, KernelTypeOK, In
  <2>w. \A u \in Tasks, o \in Objects :
          u \in Range(wait_queue'[o]) <=> u \in Range(wait_queue[o]) \/ (u = t /\ o = m)
    BY <2>000
  <2>2. NoTaskLost'
    BY <2>k, <2>w, <2>00, <1>0 DEF IInv, NoTaskLost, OnProcessor, InQueue, InTimers
  <2>3. NoTaskTwice'
    <3>1. IsInjective(ready_queue') /\ \A o \in Objects : IsInjective(wait_queue'[o])
      BY <2>00, <2>000 DEF WaitQueues
    <3> QED
      BY <3>1, <2>k, <2>w, <2>00, <1>0 DEF IInv, NoTaskTwice, OnProcessor, InQueue, InTimers
  <2>4. SleepEntry'
    BY <2>k, <2>00, <1>0 DEF IInv, SleepEntry
  <2>o. \A u \in Tasks, n \in Mutexes : Owns(u, n)' <=> Owns(u, n)
    BY <2>0, <2>k, <2>w, <1>0 DEF Owns, Granted, InQueue, In
  <2>5. MutualExclusion'
    BY <2>o DEF IInv, MutualExclusion
  <2>6. LockedAgrees'
    BY Zenon, <2>0, <2>000, <2>o, <1>3 DEF IInv, LockedAgrees
  <2>7. SemaphoreAccounting'
    BY <2>0, <2>000 DEF IInv, SemaphoreAccounting
  <2> QED
    BY <2>1, <2>2, <2>3, <2>4, <2>5, <2>6, <2>7 DEF IInv
<1> QED
  BY <1>1, <1>2, <1>3

-----------------------------------------------------------------------------
(* unlock()                                                                *)

\* The first waiter of a mutex that unlock() hands over.
LEMMA WaiterFacts ==
  ASSUME IInv, NEW m \in Mutexes, HandsOver(m)
  PROVE  LET h == Head(wait_queue[m])
         IN  /\ h \in Tasks /\ h \in Range(wait_queue[m])
             /\ kont[h] = In("lock", m, NoObj) /\ current # h /\ ~InTimers(h)
             /\ \A o \in Objects : h \in Range(wait_queue[o]) => o = m
             /\ FreshlyWoken(<<h>>) /\ Range(<<h>>) = {h}
<1> DEFINE h == Head(wait_queue[m])
<1>0. m \in Objects /\ m \notin SpinMutexes /\ wait_queue[m] # <<>>
  BY ObjectKinds DEF HandsOver
<1>1. h \in Tasks /\ h \in Range(wait_queue[m])
  BY <1>0, QueuePop DEF IInv, KernelTypeOK, NoTaskTwice
<1> HIDE DEF h
<1>2. /\ kont[h].obj = m /\ current # h /\ ~InTimers(h) /\ h \notin Range(ready_queue)
      /\ \A o \in Objects : h \in Range(wait_queue[o]) => o = m
  BY <1>0, <1>1 DEF IInv, NoTaskTwice, InQueue
<1>3. kont[h].at = "lock"
  <2>1. /\ kont[h].at \in {"user", "add_timer", "sleep"} => kont[h].obj = NoObj
        /\ kont[h].at = "spin" => kont[h].obj \in SpinMutexes
        /\ kont[h].at = "down" => kont[h].obj \in Sems
        /\ kont[h].at = "wait" => kont[h].obj \in Condvars
    BY <1>1, KontKinds DEF IInv
  <2>2. kont[h].at \in {"user", "add_timer", "sleep", "spin", "lock", "down", "wait"}
    BY <1>1 DEF IInv, KernelTypeOK, Konts
  <2> QED
    BY <2>1, <2>2, <1>0, <1>2, ObjectKinds
<1>4. kont[h] = In("lock", m, NoObj)
  BY <1>1, <1>2, <1>3, KontKinds DEF IInv
<1>5. FreshlyWoken(<<h>>) /\ Range(<<h>>) = {h}
  BY <1>1, <1>2, QueueEmpty DEF FreshlyWoken
<1> QED
  BY Zenon, <1>1, <1>2, <1>4, <1>5 DEF h

LEMMA MutexUnlockStep ==
  ASSUME IInv, NEW t \in Tasks, NEW m \in Mutexes, sys_mutex_unlock(t, m)
  PROVE  IInv'
<1> USE NoTaskAssumption, SyncAssumption, ObjectKinds
<1> DEFINE h == Head(wait_queue[m])
<1>0. /\ WaitQueues(wait_queue) /\ SchedTypeOK /\ IsInjective(ready_queue)
      /\ current = t /\ kont[t] = User /\ m \in held[t] /\ kont[t].at = "user"
      /\ t \notin Range(ready_queue) /\ ~InTimers(t)
      /\ \A o \in Objects : t \notin Range(wait_queue[o])
      /\ \A u \in Tasks : kont[u].obj \in Objects \cup {NoObj}
  BY Zenon, UserFacts DEF sys_mutex_unlock, Calls
<1>1. /\ locked' = [locked EXCEPT ![m] = HandsOver(m)]
      /\ held' = [held EXCEPT ![t] = @ \ {m}]
      /\ UNCHANGED <<created, count, timers, now, kont>>
  BY DEF sys_mutex_unlock, unlock
<1>2. CASE ~HandsOver(m)
  <2>1. wait_queue' = wait_queue
    BY <1>2 DEF sys_mutex_unlock, unlock
  <2>2. /\ SchedTypeOK' /\ current' = current /\ IsInjective(ready_queue')
        /\ Range(ready_queue') = Range(ready_queue)
    <3>1. wakeup_task(<<>>)
      BY <1>2 DEF sys_mutex_unlock, WokenByUnlock
    <3> QED
      BY Zenon, <3>1, <1>0, WakeupStep, NobodyWoken
  <2>3. KernelTypeOK'
    BY <1>1, <2>1, <2>2 DEF IInv, KernelTypeOK, HandsOver
  <2>4. NoTaskLost' /\ NoTaskTwice' /\ SleepEntry'
    BY Zenon, <1>1, <2>1, <2>2 DEF IInv, NoTaskLost, NoTaskTwice, SleepEntry, OnProcessor, InQueue, InTimers
  <2>o. \A u \in Tasks, n \in Mutexes : Owns(u, n)' <=> Owns(u, n) /\ ~(u = t /\ n = m)
    BY <1>0, <1>1, <2>1 DEF IInv, KernelTypeOK, Owns, Granted, InQueue, In
  <2>5. MutualExclusion'
    BY <2>o DEF IInv, MutualExclusion
  <2>6. LockedAgrees'
    <3>1. Owns(t, m) /\ (m \notin SpinMutexes => wait_queue[m] = <<>>)
      BY Zenon, <1>0, <1>2 DEF Owns, HandsOver
    <3> QED
      BY <3>1, <1>1, <1>2, <2>1, <2>o DEF IInv, KernelTypeOK, LockedAgrees, MutualExclusion
  <2>7. SemaphoreAccounting'
    BY <1>1, <2>1 DEF IInv, SemaphoreAccounting
  <2> QED
    BY <2>3, <2>4, <2>5, <2>6, <2>7 DEF IInv
<1>3. CASE HandsOver(m)
  <2>h. /\ h \in Tasks /\ h \in Range(wait_queue[m])
        /\ kont[h] = In("lock", m, NoObj) /\ kont[h].at = "lock" /\ kont[h].obj = m
        /\ current # h /\ ~InTimers(h)
        /\ \A o \in Objects : h \in Range(wait_queue[o]) => o = m
        /\ FreshlyWoken(<<h>>) /\ Range(<<h>>) = {h}
    BY <1>3, WaiterFacts DEF In
  <2>1. /\ WaitQueues(wait_queue')
        /\ Range(wait_queue'[m]) = Range(wait_queue[m]) \ {h}
        /\ \A p \in Objects : p # m => wait_queue'[p] = wait_queue[p]
    <3>1. wait_queue' = pop_front(wait_queue, m) /\ wait_queue[m] # <<>>
      BY <1>3 DEF sys_mutex_unlock, unlock, HandsOver
    <3>2. m \in Objects
      OBVIOUS
    <3>3. /\ WaitQueues(pop_front(wait_queue, m))
          /\ Range(pop_front(wait_queue, m)[m]) = Range(wait_queue[m]) \ {h}
          /\ \A p \in Objects : p # m => pop_front(wait_queue, m)[p] = wait_queue[p]
      BY Zenon, <3>1, <3>2, <1>0, Dequeue
    <3> QED
      BY Zenon, <3>1, <3>3
  <2>2. /\ SchedTypeOK' /\ current' = current /\ IsInjective(ready_queue')
        /\ Range(ready_queue') = Range(ready_queue) \cup {h}
    <3>1. wakeup_task(<<h>>)
      BY Zenon, <1>3 DEF sys_mutex_unlock, WokenByUnlock
    <3> QED
      BY Zenon, <3>1, <1>0, <2>h, WakeupStep
  <2> HIDE DEF h
  <2>w. \A u \in Tasks, o \in Objects :
          u \in Range(wait_queue'[o]) <=> u \in Range(wait_queue[o]) /\ u # h
    BY Zenon, <2>1, <2>h
  <2>3. KernelTypeOK'
    BY <1>1, <2>1, <2>2 DEF IInv, KernelTypeOK, HandsOver, WaitQueues
  <2>4. NoTaskLost'
    BY Zenon, <1>0, <1>1, <2>w, <2>2 DEF IInv, NoTaskLost, OnProcessor, InQueue, InTimers
  <2>5. NoTaskTwice'
    <3>1. IsInjective(ready_queue') /\ \A o \in Objects : IsInjective(wait_queue'[o])
      BY <2>1, <2>2 DEF WaitQueues
    <3> QED
      BY Zenon, <3>1, <1>1, <2>h, <2>w, <2>2 DEF IInv, NoTaskTwice, OnProcessor, InQueue, InTimers
  <2>6. SleepEntry'
    BY Zenon, <1>1, <2>2 DEF IInv, SleepEntry
  <2>o. \A u \in Tasks, n \in Mutexes :
          Owns(u, n)' <=> (Owns(u, n) /\ ~(u = t /\ n = m)) \/ (u = h /\ n = m)
    BY <1>0, <1>1, <2>h, <2>w DEF IInv, KernelTypeOK, Owns, Granted, InQueue, In
  <2>7. Owns(t, m) /\ m \notin SpinMutexes
    BY Zenon, <1>0, <1>3 DEF Owns, HandsOver
  <2>8. MutualExclusion'
    BY <2>o, <2>7 DEF IInv, MutualExclusion
  <2>9. LockedAgrees'
    BY <1>1, <1>3, <2>1, <2>h, <2>o, <2>7 DEF IInv, KernelTypeOK, LockedAgrees, MutualExclusion
  <2>10. SemaphoreAccounting'
    BY Zenon, <1>1, <2>1 DEF IInv, SemaphoreAccounting
  <2> QED
    BY <2>3, <2>4, <2>5, <2>6, <2>8, <2>9, <2>10 DEF IInv
<1> QED
  BY <1>2, <1>3

\* Condvar::wait up to the point where it blocks.
LEMMA CondvarWaitStep ==
  ASSUME IInv, NEW t \in Tasks, NEW c \in Condvars, NEW m \in Mutexes,
         sys_condvar_wait(t, c, m)
  PROVE  IInv'
<1> DEFINE h == Head(wait_queue[m])
           q == push_back(wait_queue, c, t)
<1>0. /\ WaitQueues(wait_queue) /\ SchedTypeOK /\ IsInjective(ready_queue)
      /\ current = t /\ kont[t].at = "user" /\ m \in held[t]
      /\ t \notin Range(ready_queue) /\ ~InTimers(t)
      /\ \A o \in Objects : t \notin Range(wait_queue[o])
      /\ \A u \in Tasks : kont[u].obj \in Objects \cup {NoObj}
  BY Zenon, UserFacts DEF sys_condvar_wait, Calls
<1>1. /\ locked' = [locked EXCEPT ![m] = HandsOver(m)]
      /\ held' = [held EXCEPT ![t] = @ \ {m}]
      /\ kont' = [kont EXCEPT ![t] = In("wait", c, m)]
      /\ wait_queue' = IF HandsOver(m) THEN pop_front(q, m) ELSE q
      /\ block_current_and_run_next(WokenByUnlock(m))
      /\ UNCHANGED <<created, count, timers, now>>
  BY DEF sys_condvar_wait, unlock, Goto
<1>2. /\ WaitQueues(q) /\ c \in Objects /\ m \in Objects /\ c # m
      /\ Range(q[c]) = Range(wait_queue[c]) \cup {t}
      /\ \A p \in Objects : p # c => q[p] = wait_queue[p]
  <2>1. c \in Objects /\ m \in Objects /\ c # m
    BY ObjectKinds
  <2>2. /\ WaitQueues(q)
        /\ Range(q[c]) = Range(wait_queue[c]) \cup {t}
        /\ \A p \in Objects : p # c => q[p] = wait_queue[p]
    BY <2>1, <1>0, Enqueue
  <2> QED
    BY Zenon, <2>1, <2>2
<1> USE NoTaskAssumption, SyncAssumption, ObjectKinds
<1> HIDE DEF q
<1>k. /\ kont'[t] = In("wait", c, m) /\ kont'[t].at = "wait" /\ kont'[t].obj = c
      /\ \A u \in Tasks : u # t => kont'[u] = kont[u]
  BY Zenon, <1>1 DEF IInv, KernelTypeOK, In
<1>n. /\ \A x, y \in timers : x.task = y.task => x = y
      /\ \A u \in Tasks : u \in Range(ready_queue) => ~InTimers(u)
      /\ \A u \in Tasks, o \in Objects : u \in Range(wait_queue[o]) =>
           kont[u].obj = o /\ u \notin Range(ready_queue) /\ ~InTimers(u)
  BY Zenon DEF IInv, NoTaskTwice, InQueue
<1>i. timers' = timers /\ \A u \in Tasks : InTimers(u)' <=> InTimers(u)
  BY <1>1 DEF InTimers
<1>t. /\ t \notin Range(ready_queue) /\ ~InTimers(t)
      /\ \A o \in Objects : t \notin Range(wait_queue[o])
      /\ kont'[t].obj = c /\ \A u \in Tasks : u # t => kont'[u] = kont[u]
  BY Zenon, <1>0, <1>k
<1>o. Owns(t, m)
  BY Zenon, <1>0 DEF Owns
<1>3. CASE ~HandsOver(m)
  <2>1. wait_queue' = q
    BY <1>1, <1>3
  <2>2. /\ SchedTypeOK' /\ current' = NoTask /\ IsInjective(ready_queue')
        /\ Range(ready_queue') = Range(ready_queue)
    <3>1. block_current_and_run_next(<<>>)
      BY <1>1, <1>3 DEF WokenByUnlock
    <3> QED
      BY Zenon, <3>1, <1>0, BlockStep, NobodyWoken
  <2>w. \A u \in Tasks, o \in Objects :
          u \in Range(wait_queue'[o]) <=> u \in Range(wait_queue[o]) \/ (u = t /\ o = c)
    BY Zenon, <2>1, <1>2
  <2>3. KernelTypeOK'
    BY Zenon, <1>1, <1>2, <2>1, <2>2 DEF IInv, KernelTypeOK, HandsOver, WaitQueues, Konts, In
  <2>4. NoTaskLost' /\ SleepEntry'
    <3>1. \A u \in Tasks : u # t =>
            \/ u \in Range(ready_queue)
            \/ InTimers(u)
            \/ kont[u].obj \in Objects /\ u \in Range(wait_queue[kont[u].obj])
      BY Zenon, <1>0 DEF IInv, NoTaskLost, OnProcessor, InQueue
    <3>2. \A u \in Tasks :
            \/ u \in Range(ready_queue')
            \/ InTimers(u)'
            \/ kont'[u].obj \in Objects /\ u \in Range(wait_queue'[kont'[u].obj])
      BY Zenon, <3>1, <1>2, <1>i, <1>t, <2>2, <2>w
    <3>3. NoTaskLost'
      BY Zenon, <3>2 DEF NoTaskLost, InQueue
    <3>4. SleepEntry'
      BY Zenon, <1>0, <1>k DEF IInv, SleepEntry
    <3> QED
      BY <3>3, <3>4
  <2>5. NoTaskTwice'
    <3>1. IsInjective(ready_queue') /\ \A o \in Objects : IsInjective(wait_queue'[o])
      BY <1>2, <2>1, <2>2 DEF WaitQueues
    <3>2. \A u \in Tasks : current' # u /\ ~OnProcessor(u)'
      BY Zenon, <2>2 DEF OnProcessor
    <3>3. \A u \in Tasks : u \in Range(ready_queue') => ~InTimers(u)'
      BY Zenon, <1>n, <1>i, <2>2
    <3>4. \A u \in Tasks, o \in Objects : u \in Range(wait_queue'[o]) =>
            kont'[u].obj = o /\ u \notin Range(ready_queue') /\ ~InTimers(u)'
      BY <1>n, <1>i, <1>t, <2>2, <2>w
    <3>5. \A x, y \in timers' : x.task = y.task => x = y
      BY Zenon, <1>n, <1>i
    <3> QED
      BY Zenon, <3>1, <3>2, <3>3, <3>4, <3>5 DEF NoTaskTwice, InQueue
  <2>6. \A u \in Tasks, n \in Mutexes : Owns(u, n)' <=> Owns(u, n) /\ ~(u = t /\ n = m)
    BY <1>0, <1>1, <1>k, <2>w DEF IInv, KernelTypeOK, Owns, Granted, InQueue, In
  <2>7. MutualExclusion'
    BY <2>6 DEF IInv, MutualExclusion
  <2>8. LockedAgrees'
    <3>1. /\ m \notin SpinMutexes => wait_queue[m] = <<>>
          /\ \A n \in Mutexes : wait_queue'[n] = wait_queue[n]
      BY Zenon, <1>2, <1>3, <2>1 DEF HandsOver
    <3> QED
      BY <3>1, <1>1, <1>3, <1>o, <2>6 DEF IInv, KernelTypeOK, LockedAgrees, MutualExclusion
  <2>9. SemaphoreAccounting'
    BY Zenon, <1>1, <1>2, <2>1 DEF IInv, SemaphoreAccounting
  <2> QED
    BY <2>3, <2>4, <2>5, <2>7, <2>8, <2>9 DEF IInv
<1>4. CASE HandsOver(m)
  <2>h. /\ h \in Tasks /\ h \in Range(wait_queue[m])
        /\ kont[h] = In("lock", m, NoObj) /\ kont[h].at = "lock" /\ kont[h].obj = m
        /\ h # t /\ ~InTimers(h)
        /\ \A o \in Objects : h \in Range(wait_queue[o]) => o = m
        /\ FreshlyWoken(<<h>>) /\ Range(<<h>>) = {h}
    BY <1>0, <1>4, WaiterFacts DEF In
  <2>1. /\ WaitQueues(wait_queue')
        /\ Range(wait_queue'[m]) = Range(wait_queue[m]) \ {h}
        /\ \A p \in Objects : p # m => wait_queue'[p] = q[p]
    <3>1. wait_queue' = pop_front(q, m) /\ q[m] # <<>> /\ q[m] = wait_queue[m]
      BY Zenon, <1>1, <1>2, <1>4 DEF HandsOver
    <3>2. /\ WaitQueues(pop_front(q, m))
          /\ Range(pop_front(q, m)[m]) = Range(q[m]) \ {Head(q[m])}
          /\ \A p \in Objects : p # m => pop_front(q, m)[p] = q[p]
      BY Zenon, <3>1, <1>2, Dequeue
    <3> QED
      BY Zenon, <3>1, <3>2
  <2>2. /\ SchedTypeOK' /\ current' = NoTask /\ IsInjective(ready_queue')
        /\ Range(ready_queue') = Range(ready_queue) \cup {h}
    <3>1. block_current_and_run_next(<<h>>)
      BY <1>1, <1>4 DEF WokenByUnlock
    <3> QED
      BY Zenon, <3>1, <1>0, <2>h, BlockStep
  <2> HIDE DEF h
  <2>w. \A u \in Tasks, o \in Objects :
          u \in Range(wait_queue'[o]) <=>
            (u \in Range(wait_queue[o]) /\ u # h) \/ (u = t /\ o = c)
    BY <1>2, <2>1, <2>h
  <2>3. KernelTypeOK'
    BY Zenon, <1>1, <2>1, <2>2 DEF IInv, KernelTypeOK, HandsOver, WaitQueues, Konts, In
  <2>4. NoTaskLost' /\ SleepEntry'
    <3>1. \A u \in Tasks : u # t =>
            \/ u \in Range(ready_queue)
            \/ InTimers(u)
            \/ kont[u].obj \in Objects /\ u \in Range(wait_queue[kont[u].obj])
      BY <1>0 DEF IInv, NoTaskLost, OnProcessor, InQueue
    <3>2. \A u \in Tasks :
            \/ u \in Range(ready_queue')
            \/ InTimers(u)'
            \/ kont'[u].obj \in Objects /\ u \in Range(wait_queue'[kont'[u].obj])
      BY Zenon, <3>1, <1>2, <1>i, <1>t, <2>2, <2>w
    <3>3. NoTaskLost'
      BY <3>2 DEF NoTaskLost, InQueue
    <3>4. SleepEntry'
      BY <1>0, <1>k DEF IInv, SleepEntry
    <3> QED
      BY <3>3, <3>4
  <2>5. NoTaskTwice'
    <3>1. IsInjective(ready_queue') /\ \A o \in Objects : IsInjective(wait_queue'[o])
      BY Zenon, <2>1, <2>2 DEF WaitQueues
    <3>2. \A u \in Tasks : current' # u /\ ~OnProcessor(u)'
      BY Zenon, <2>2 DEF OnProcessor
    <3>3. \A u \in Tasks : u \in Range(ready_queue') => ~InTimers(u)'
      BY Zenon, <1>n, <1>i, <2>2, <2>h
    <3>4. \A u \in Tasks, o \in Objects : u \in Range(wait_queue'[o]) =>
            kont'[u].obj = o /\ u \notin Range(ready_queue') /\ ~InTimers(u)'
      BY <1>n, <1>i, <1>t, <2>2, <2>w, <2>h
    <3>5. \A x, y \in timers' : x.task = y.task => x = y
      BY <1>n, <1>i
    <3> QED
      BY Zenon, <3>1, <3>2, <3>3, <3>4, <3>5 DEF NoTaskTwice, InQueue
  <2>6. \A u \in Tasks, n \in Mutexes :
          Owns(u, n)' <=> (Owns(u, n) /\ ~(u = t /\ n = m)) \/ (u = h /\ n = m)
    BY <1>0, <1>1, <1>k, <2>h, <2>w DEF IInv, KernelTypeOK, Owns, Granted, InQueue, In
  <2>7. MutualExclusion'
    BY <1>o, <2>6 DEF IInv, MutualExclusion
  <2>8. LockedAgrees'
    <3>1. m \notin SpinMutexes /\ \A n \in Mutexes : n # m => wait_queue'[n] = wait_queue[n]
      BY Zenon, <1>2, <1>4, <2>1 DEF HandsOver
    <3> QED
      BY Zenon, <3>1, <1>1, <1>4, <1>o, <2>h, <2>6 DEF IInv, KernelTypeOK, LockedAgrees, MutualExclusion
  <2>9. SemaphoreAccounting'
    <3>1. \A s \in Sems : wait_queue'[s] = wait_queue[s]
      BY Zenon, <1>2, <2>1
    <3>2. UNCHANGED <<count, created>>
      BY <1>1
    <3>3. SemaphoreAccounting
      BY DEF IInv
    <3> QED
      BY Zenon, <3>1, <3>2, <3>3 DEF SemaphoreAccounting
  <2> QED
    BY <2>3, <2>4, <2>5, <2>7, <2>8, <2>9 DEF IInv
<1> QED
  BY <1>3, <1>4

-----------------------------------------------------------------------------
(* Time                                                                    *)

LEMMA SleepStep ==
  ASSUME IInv, NEW t \in Tasks, NEW ms \in SleepTimes, sys_sleep(t, ms)
  PROVE  IInv'
<1> DEFINE x == [expire_ms |-> now + ms, task |-> t]
<1>0. /\ current = t /\ kont[t] = User
      /\ timers' = timers \cup {x}
      /\ kont' = [kont EXCEPT ![t] = In("add_timer", NoObj, NoObj)]
      /\ UNCHANGED <<current, ready_queue, task_status, created, locked, count,
                     wait_queue, now, held>>
  BY DEF sys_sleep, Calls, Goto, schedVars, syncVars
<1>1. /\ kont[t].at = "user" /\ t \notin Range(ready_queue) /\ ~InTimers(t)
      /\ \A o \in Objects : t \notin Range(wait_queue[o])
  BY <1>0, UserFacts
<1>k. /\ kont'[t].at = "add_timer" /\ kont'[t].obj = NoObj
      /\ \A u \in Tasks : u # t => kont'[u] = kont[u]
  BY <1>0 DEF IInv, KernelTypeOK, In
<1>x. x \in [expire_ms : Nat, task : Tasks] /\ x.task = t
  BY SyncAssumption DEF IInv, KernelTypeOK
<1>2. KernelTypeOK'
  <2>1. IsFiniteSet(timers')
    BY Zenon, <1>0, FS_AddElement DEF IInv, KernelTypeOK
  <2> QED
    BY Zenon, <2>1, <1>0, <1>x DEF IInv, KernelTypeOK, SchedTypeOK, Konts, In
<1> HIDE DEF x
<1>3. NoTaskLost' /\ SleepEntry'
  <2>1. \A u \in Tasks : InTimers(u)' <=> InTimers(u) \/ u = t
    BY <1>0, <1>x DEF InTimers
  <2> QED
    BY <2>1, <1>0, <1>k DEF IInv, NoTaskLost, SleepEntry, OnProcessor, InQueue
<1>4. NoTaskTwice'
  <2>1. \A u \in Tasks : InTimers(u)' <=> InTimers(u) \/ u = t
    BY <1>0, <1>x DEF InTimers
  <2>2. \A y, z \in timers' : y.task = z.task => y = z
    BY Zenon, <1>0, <1>1, <1>x DEF IInv, NoTaskTwice, InTimers
  <2>3. IsInjective(ready_queue') /\ \A o \in Objects : IsInjective(wait_queue'[o])
    BY <1>0 DEF IInv, NoTaskTwice
  <2>4. ASSUME NEW u \in Tasks
        PROVE  /\ OnProcessor(u)' => ~InQueue(u, ready_queue') /\ ~InTimers(u)'
               /\ InQueue(u, ready_queue') => ~InTimers(u)'
               /\ \A o \in Objects :
                    InQueue(u, wait_queue'[o]) =>
                      /\ kont'[u].obj = o /\ current' # u
                      /\ ~InQueue(u, ready_queue') /\ ~InTimers(u)'
    <3>1. CASE u = t
      BY Zenon, <3>1, <1>0, <1>1, <1>k DEF OnProcessor, InQueue
    <3>2. CASE u # t
      BY Zenon, <3>2, <2>1, <1>0, <1>k DEF IInv, NoTaskTwice, OnProcessor, InQueue
    <3> QED
      BY <3>1, <3>2
  <2> QED
    BY Zenon, <2>2, <2>3, <2>4 DEF NoTaskTwice
<1>5. \A u \in Tasks, n \in Mutexes : Owns(u, n)' <=> Owns(u, n)
  BY <1>0, <1>1, <1>k DEF Owns, Granted, InQueue, In
<1>6. MutualExclusion' /\ LockedAgrees'
  BY Zenon, <1>0, <1>5 DEF IInv, MutualExclusion, LockedAgrees
<1>7. SemaphoreAccounting'
  BY <1>0 DEF IInv, SemaphoreAccounting
<1> QED
  BY <1>2, <1>3, <1>4, <1>6, <1>7 DEF IInv

\* The task blocks; its timer may have fired already.
LEMMA SleepBlocksStep ==
  ASSUME IInv, NEW t \in Tasks, SleepBlocks(t)
  PROVE  IInv'
<1>0. /\ current = t /\ kont[t].at = "add_timer"
      /\ kont' = [kont EXCEPT ![t] = In("sleep", NoObj, NoObj)]
      /\ block_current_and_run_next(<<>>)
      /\ UNCHANGED <<created, locked, count, wait_queue, timers, now, held>>
  BY DEF SleepBlocks, Resumes, Goto, syncVars
<1>1. /\ SchedTypeOK' /\ current' = NoTask /\ IsInjective(ready_queue')
      /\ Range(ready_queue') = Range(ready_queue)
  <2>1. SchedTypeOK /\ IsInjective(ready_queue)
    BY DEF IInv, KernelTypeOK, NoTaskTwice
  <2> QED
    BY Zenon, <2>1, <1>0, BlockStep, NobodyWoken
<1>2. /\ kont[t].obj = NoObj /\ \A o \in Objects : t \notin Range(wait_queue[o])
  BY Zenon, <1>0, KontKinds DEF IInv, NoTaskTwice, InQueue
<1>k. /\ kont'[t].at = "sleep" /\ kont'[t].obj = NoObj
      /\ \A u \in Tasks : u # t => kont'[u] = kont[u]
  BY <1>0 DEF IInv, KernelTypeOK, In
<1>3. KernelTypeOK'
  BY Zenon, <1>0, <1>1 DEF IInv, KernelTypeOK, Konts, In
<1>4. NoTaskLost' /\ NoTaskTwice' /\ SleepEntry'
  <2>0. \A u \in Tasks : u # NoTask
    BY NoTaskAssumption
  <2>1. NoTaskLost'
    BY Zenon, <1>0, <1>1, <1>2, <1>k, <2>0 DEF IInv, NoTaskLost, OnProcessor, InQueue, InTimers
  <2>2. NoTaskTwice'
    BY <1>0, <1>1, <1>2, <1>k, <2>0 DEF IInv, NoTaskTwice, OnProcessor, InQueue, InTimers
  <2>3. SleepEntry'
    BY <1>0, <1>1, <1>2, <1>k DEF IInv, SleepEntry, OnProcessor, InQueue, InTimers
  <2> QED
    BY Zenon, <2>1, <2>2, <2>3
<1>5. \A u \in Tasks, n \in Mutexes : Owns(u, n)' <=> Owns(u, n)
  BY <1>0, <1>k DEF Owns, Granted, InQueue, In
<1>6. MutualExclusion' /\ LockedAgrees'
  BY Zenon, <1>0, <1>5 DEF IInv, MutualExclusion, LockedAgrees
<1>7. SemaphoreAccounting'
  BY <1>0 DEF IInv, SemaphoreAccounting
<1> QED
  BY <1>3, <1>4, <1>6, <1>7 DEF IInv

\* The tasks that check_timer wakes: each sleeper whose timer has expired, once.
LEMMA CheckTimerFacts ==
  ASSUME IInv, NEW order \in PopOrders(Expired)
  PROVE  /\ FreshlyWoken(TasksOf(order))
         /\ \A u \in Tasks : u \in Range(TasksOf(order)) <=> \E x \in Expired : x.task = u
         /\ \A u \in Range(TasksOf(order)) : InTimers(u)
<1> DEFINE n == Cardinality(Expired)
           w == TasksOf(order)
<1>1. n \in Nat
  <2>1. IsFiniteSet(Expired)
    BY FS_Subset DEF IInv, KernelTypeOK, Expired
  <2> QED
    BY <2>1, FS_CardinalityType
<1>2. /\ order \in [1..n -> Expired] /\ Range(order) = Expired /\ IsInjective(order)
      /\ Expired \subseteq timers /\ timers \subseteq [expire_ms : Nat, task : Tasks]
  BY DEF PopOrders, Expired, IInv, KernelTypeOK
<1> HIDE DEF n
<1>3. DOMAIN w = 1..n /\ \A i \in 1..n : w[i] = order[i].task /\ w[i] \in Tasks
  BY <1>2 DEF TasksOf
<1>4. w \in Seq(Tasks)
  BY <1>1, <1>3 DEF TasksOf
<1> HIDE DEF w
<1>5. IsInjective(w)
  <2> SUFFICES ASSUME NEW i \in 1..n, NEW j \in 1..n, w[i] = w[j] PROVE i = j
    BY <1>3 DEF IsInjective
  <2>1. order[i] \in timers /\ order[j] \in timers /\ order[i].task = order[j].task
    BY <1>2, <1>3
  <2>2. order[i] = order[j]
    BY <2>1 DEF IInv, NoTaskTwice
  <2> QED
    BY <1>2, <2>2 DEF IsInjective
<1>6. \A u \in Tasks : u \in Range(w) <=> \E x \in Expired : x.task = u
  <2>1. ASSUME NEW u \in Range(w) PROVE \E x \in Expired : x.task = u
    <3>1. PICK i \in 1..n : u = w[i]
      BY <1>3 DEF Range
    <3> QED
      BY <3>1, <1>2, <1>3
  <2>2. ASSUME NEW x \in Expired PROVE x.task \in Range(w)
    <3>1. PICK i \in 1..n : x = order[i]
      BY <1>2 DEF Range
    <3> QED
      BY <3>1, <1>3 DEF Range
  <2> QED
    BY <2>1, <2>2
<1>7. Range(w) \subseteq Tasks
  BY <1>3 DEF Range
<1>8. \A u \in Range(w) : InTimers(u)
  BY <1>2, <1>6, <1>7 DEF InTimers
<1>9. Range(w) \cap Range(ready_queue) = {}
  BY <1>7, <1>8 DEF IInv, NoTaskTwice, InQueue
<1> QED
  BY <1>4, <1>5, <1>6, <1>8, <1>9 DEF FreshlyWoken, w

\* The timers that are left after check_timer are those of tasks not woken.
LEMMA TimersLeft ==
  ASSUME IInv, NEW order \in PopOrders(Expired), timers' = timers \ Expired
  PROVE  /\ timers' \subseteq timers /\ IsFiniteSet(timers')
         /\ \A u \in Tasks : InTimers(u)' <=> InTimers(u) /\ u \notin Range(TasksOf(order))
<1>1. timers' \subseteq timers /\ IsFiniteSet(timers')
  BY FS_Subset DEF IInv, KernelTypeOK
<1>2. \A u \in Tasks : u \in Range(TasksOf(order)) <=> \E x \in Expired : x.task = u
  BY CheckTimerFacts
<1>3. Expired \subseteq timers /\ \A x, y \in timers : x.task = y.task => x = y
  BY DEF Expired, IInv, NoTaskTwice
<1> HIDE DEF Expired
<1>4. \A u \in Tasks : InTimers(u)' <=> InTimers(u) /\ u \notin Range(TasksOf(order))
  BY <1>2, <1>3 DEF InTimers
<1> QED
  BY <1>1, <1>4

\* What is left to show for a step that touches only the scheduler and timers.
LEMMA SyncUntouched ==
  ASSUME IInv, UNCHANGED <<created, locked, count, wait_queue, kont, held>>
  PROVE  MutualExclusion' /\ LockedAgrees' /\ SemaphoreAccounting'
BY Zenon DEF IInv, MutualExclusion, LockedAgrees, SemaphoreAccounting, Owns, Granted, InQueue

LEMMA UserTimerStep ==
  ASSUME IInv, UserTimerInterrupt
  PROVE  IInv'
<1>1. PICK t \in Tasks : current = t /\ kont[t] = User
  BY DEF UserTimerInterrupt
<1>2. PICK order \in PopOrders(Expired) :
        check_timer(order) /\ suspend_current_and_run_next(TasksOf(order))
  BY DEF UserTimerInterrupt
<1> DEFINE W == Range(TasksOf(order))
<1>3. UNCHANGED <<created, locked, count, wait_queue, now, kont, held>>
  BY DEF UserTimerInterrupt, syncVars
<1>4. /\ WaitQueues(wait_queue) /\ SchedTypeOK /\ IsInjective(ready_queue)
      /\ t \notin Range(ready_queue) /\ ~InTimers(t) /\ OnProcessor(t)
      /\ \A o \in Objects : t \notin Range(wait_queue[o])
  BY <1>1, UserFacts
<1>5. FreshlyWoken(TasksOf(order)) /\ (\A u \in W : InTimers(u)) /\ t \notin W
  BY <1>2, <1>4, CheckTimerFacts
<1>6. /\ timers' \subseteq timers /\ IsFiniteSet(timers')
      /\ \A u \in Tasks : InTimers(u)' <=> InTimers(u) /\ u \notin W
  BY <1>2, TimersLeft DEF check_timer
<1>7. /\ SchedTypeOK' /\ current' = NoTask /\ IsInjective(ready_queue')
      /\ Range(ready_queue') = Range(ready_queue) \cup W \cup {t}
  BY <1>1, <1>2, <1>4, <1>5, SuspendStep
<1> HIDE DEF W
<1>8. KernelTypeOK'
  BY <1>3, <1>6, <1>7 DEF IInv, KernelTypeOK
<1>9. NoTaskLost'
  BY Zenon, <1>1, <1>3, <1>5, <1>6, <1>7, NoTaskAssumption
     DEF IInv, NoTaskLost, OnProcessor, InQueue
<1>10. NoTaskTwice'
  <2>1. \A x, y \in timers' : x.task = y.task => x = y
    BY Zenon, <1>6 DEF IInv, NoTaskTwice
  <2> QED
    BY Zenon, <2>1, <1>1, <1>3, <1>4, <1>5, <1>6, <1>7, NoTaskAssumption
       DEF IInv, NoTaskTwice, OnProcessor, InQueue
<1>11. SleepEntry'
  BY Zenon, <1>1, <1>3, <1>4 DEF IInv, SleepEntry, OnProcessor
<1> QED
  BY <1>3, <1>8, <1>9, <1>10, <1>11, SyncUntouched DEF IInv

\* A task between add_timer and block may be woken here, while it runs.
LEMMA KernelTimerStep ==
  ASSUME IInv, KernelTimerInterrupt
  PROVE  IInv'
<1>2. PICK order \in PopOrders(Expired) :
        check_timer(order) /\ wakeup_task(TasksOf(order))
  BY DEF KernelTimerInterrupt
<1> DEFINE W == Range(TasksOf(order))
<1>3. UNCHANGED <<created, locked, count, wait_queue, now, kont, held>>
  BY DEF KernelTimerInterrupt, syncVars
<1>4. SchedTypeOK /\ IsInjective(ready_queue)
  BY DEF IInv, KernelTypeOK, NoTaskTwice
<1>5. FreshlyWoken(TasksOf(order)) /\ (\A u \in W : InTimers(u))
  BY <1>2, CheckTimerFacts
<1>6. /\ timers' \subseteq timers /\ IsFiniteSet(timers')
      /\ \A u \in Tasks : InTimers(u)' <=> InTimers(u) /\ u \notin W
  BY <1>2, TimersLeft DEF check_timer
<1>7. /\ SchedTypeOK' /\ current' = current /\ IsInjective(ready_queue')
      /\ Range(ready_queue') = Range(ready_queue) \cup W
  BY <1>2, <1>4, <1>5, WakeupStep
<1> HIDE DEF W
<1>8. KernelTypeOK'
  BY <1>3, <1>6, <1>7 DEF IInv, KernelTypeOK
<1>9. NoTaskLost' /\ SleepEntry'
  BY Zenon, <1>3, <1>6, <1>7 DEF IInv, NoTaskLost, SleepEntry, OnProcessor, InQueue
<1>10. NoTaskTwice'
  <2>1. \A x, y \in timers' : x.task = y.task => x = y
    BY Zenon, <1>6 DEF IInv, NoTaskTwice
  <2> QED
    BY Zenon, <2>1, <1>3, <1>5, <1>6, <1>7 DEF IInv, NoTaskTwice, OnProcessor, InQueue
<1> QED
  BY <1>3, <1>8, <1>9, <1>10, SyncUntouched DEF IInv

-----------------------------------------------------------------------------
(* The scheduler's own steps                                               *)

LEMMA RunTasksStep ==
  ASSUME IInv, RunTasks
  PROVE  IInv'
<1>1. run_tasks /\ UNCHANGED <<created, locked, count, wait_queue, timers, now, kont, held>>
  BY DEF RunTasks, syncVars
<1>2. SchedTypeOK /\ IsInjective(ready_queue) /\ current = NoTask
  BY <1>1 DEF IInv, KernelTypeOK, NoTaskTwice, run_tasks
<1>3. /\ SchedTypeOK' /\ IsInjective(ready_queue')
      /\ current' \in Range(ready_queue)
      /\ Range(ready_queue') = Range(ready_queue) \ {current'}
  BY <1>1, <1>2, RunStep
<1>4. KernelTypeOK'
  BY <1>1, <1>3 DEF IInv, KernelTypeOK
<1>5. current' \in Tasks
  BY <1>2, <1>3, QueueEmptyRange DEF SchedTypeOK
<1>6. \A u \in Tasks : kont[u].at # "add_timer"
  BY <1>2, NoTaskAssumption DEF IInv, SleepEntry
<1>7. NoTaskLost' /\ SleepEntry'
  BY Zenon, <1>1, <1>2, <1>3, <1>5, <1>6, NoTaskAssumption
     DEF IInv, NoTaskLost, SleepEntry, OnProcessor, InQueue, InTimers
<1>8. NoTaskTwice'
  BY Zenon, <1>1, <1>3, <1>5 DEF IInv, NoTaskTwice, OnProcessor, InQueue, InTimers
<1> QED
  BY <1>1, <1>4, <1>7, <1>8, SyncUntouched DEF IInv

LEMMA YieldStep ==
  ASSUME IInv, NEW t \in Tasks, sys_yield(t)
  PROVE  IInv'
<1>1. /\ current = t /\ kont[t] = User /\ suspend_current_and_run_next(<<>>)
      /\ UNCHANGED <<created, locked, count, wait_queue, timers, now, kont, held>>
  BY DEF sys_yield, syncVars
<1>2. /\ SchedTypeOK /\ IsInjective(ready_queue) /\ kont[t].at = "user"
      /\ t \notin Range(ready_queue) /\ ~InTimers(t)
      /\ \A o \in Objects : t \notin Range(wait_queue[o])
  BY Zenon, <1>1, UserFacts
<1>3. /\ SchedTypeOK' /\ current' = NoTask /\ IsInjective(ready_queue')
      /\ Range(ready_queue') = Range(ready_queue) \cup {t}
  BY Zenon, <1>1, <1>2, SuspendStep, NobodyWoken
<1>4. KernelTypeOK'
  BY <1>1, <1>3 DEF IInv, KernelTypeOK
<1>5. NoTaskLost' /\ NoTaskTwice' /\ SleepEntry'
  BY Zenon, <1>1, <1>2, <1>3, NoTaskAssumption
     DEF IInv, NoTaskLost, NoTaskTwice, SleepEntry, OnProcessor, InQueue, InTimers
<1> QED
  BY <1>1, <1>4, <1>5, SyncUntouched DEF IInv

\* Steps that the invariant does not look at: the clock, and the creation of a
\* mutex or a condvar.
LEMMA QuietStep ==
  ASSUME IInv,
         UNCHANGED <<current, ready_queue, task_status, locked, count, wait_queue,
                     timers, kont, held>>,
         \/ now' \in Nat /\ UNCHANGED created
         \/ /\ UNCHANGED now
            /\ \E o \in Mutexes \cup Condvars : created' = created \cup {o}
         \/ UNCHANGED <<now, created>>
  PROVE  IInv'
<1>1. KernelTypeOK'
  BY Zenon, ObjectKinds DEF IInv, KernelTypeOK, SchedTypeOK
<1>2. NoTaskLost' /\ NoTaskTwice' /\ SleepEntry'
  BY Zenon DEF IInv, NoTaskLost, NoTaskTwice, SleepEntry, OnProcessor, InQueue, InTimers
<1>3. MutualExclusion' /\ LockedAgrees'
  BY Zenon DEF IInv, MutualExclusion, LockedAgrees, Owns, Granted, InQueue
<1>4. SemaphoreAccounting'
  BY DEF IInv, SemaphoreAccounting
<1> QED
  BY <1>1, <1>2, <1>3, <1>4 DEF IInv

-----------------------------------------------------------------------------
(* Semaphores                                                              *)

LEMMA SemaphoreCreateStep ==
  ASSUME IInv, NEW t \in Tasks, NEW s \in Sems, NEW n \in ResCounts,
         sys_semaphore_create(t, s, n)
  PROVE  IInv'
<1>1. /\ s \notin created /\ created' = created \cup {s}
      /\ count' = [count EXCEPT ![s] = n] /\ n \in Nat
      /\ UNCHANGED <<schedVars, locked, wait_queue, timers, now, kont, held>>
  BY SyncAssumption DEF sys_semaphore_create
<1>2. KernelTypeOK'
  BY <1>1, ObjectKinds DEF IInv, KernelTypeOK, SchedTypeOK, schedVars
<1>3. NoTaskLost' /\ NoTaskTwice' /\ SleepEntry'
  BY Zenon, <1>1 DEF IInv, NoTaskLost, NoTaskTwice, SleepEntry, OnProcessor, InQueue, InTimers, schedVars
<1>4. MutualExclusion' /\ LockedAgrees'
  BY Zenon, <1>1 DEF IInv, MutualExclusion, LockedAgrees, Owns, Granted, InQueue
<1>5. SemaphoreAccounting'
  BY <1>1 DEF IInv, KernelTypeOK, SemaphoreAccounting
<1> QED
  BY <1>2, <1>3, <1>4, <1>5 DEF IInv

\* A waiter of a semaphore or a condvar.
LEMMA SleeperFacts ==
  ASSUME IInv, NEW o \in Sems \cup Condvars, NEW h \in Range(wait_queue[o])
  PROVE  /\ h \in Tasks /\ kont[h].obj = o /\ kont[h].at # "lock" /\ current # h
         /\ ~InTimers(h) /\ h \notin Range(ready_queue)
         /\ \A p \in Objects : h \in Range(wait_queue[p]) => p = o
<1>0. o \in Objects /\ o \notin Mutexes
  BY ObjectKinds
<1>1. h \in Tasks
  BY <1>0, QueueEmptyRange DEF IInv, KernelTypeOK
<1>2. /\ kont[h].obj = o /\ current # h /\ ~InTimers(h) /\ h \notin Range(ready_queue)
      /\ \A p \in Objects : h \in Range(wait_queue[p]) => p = o
  <2>1. \A p \in Objects : h \in Range(wait_queue[p]) =>
          kont[h].obj = p /\ current # h /\ h \notin Range(ready_queue) /\ ~InTimers(h)
    BY Zenon, <1>1 DEF IInv, NoTaskTwice, InQueue
  <2>2. kont[h].obj = o
    BY Zenon, <1>0, <2>1
  <2> QED
    BY Zenon, <1>0, <2>1, <2>2
<1>3. kont[h].at # "lock"
  BY Zenon, <1>0, <1>1, <1>2, KontKinds DEF IInv
<1> QED
  BY <1>1, <1>2, <1>3

\* What every step does that takes the tasks W off the queue of a semaphore or
\* a condvar and puts them on the ready queue.
LEMMA WakeSleepers ==
  ASSUME IInv, NEW o \in Sems \cup Condvars, NEW W \in SUBSET Range(wait_queue[o]),
         WaitQueues(wait_queue'), SchedTypeOK', IsInjective(ready_queue'),
         \A p \in Objects : p # o => wait_queue'[p] = wait_queue[p],
         Range(wait_queue'[o]) = Range(wait_queue[o]) \ W,
         Range(ready_queue') = Range(ready_queue) \cup W,
         count' \in [Sems -> Int],
         UNCHANGED <<current, created, locked, timers, now, kont, held>>
  PROVE  /\ KernelTypeOK' /\ NoTaskLost' /\ NoTaskTwice' /\ SleepEntry'
         /\ MutualExclusion' /\ LockedAgrees'
<1>0. o \in Objects /\ o \notin Mutexes /\ Mutexes \subseteq Objects
  BY ObjectKinds
<1>h. \A h \in W : /\ h \in Tasks /\ kont[h].obj = o /\ kont[h].at # "lock" /\ current # h
                    /\ ~InTimers(h) /\ h \notin Range(ready_queue)
                    /\ \A p \in Objects : h \in Range(wait_queue[p]) => p = o
  BY Zenon, SleeperFacts
<1>w. \A u \in Tasks, p \in Objects :
        u \in Range(wait_queue'[p]) <=> u \in Range(wait_queue[p]) /\ u \notin W
  BY <1>0, <1>h
<1>k. \A u \in Tasks : kont[u].obj \in Objects \cup {NoObj}
  BY Zenon, KontKinds DEF IInv
<1>1. KernelTypeOK'
  BY DEF IInv, KernelTypeOK, WaitQueues
<1>2. NoTaskLost' /\ SleepEntry'
  BY Zenon, <1>w, <1>k DEF IInv, NoTaskLost, SleepEntry, OnProcessor, InQueue, InTimers
<1>3. NoTaskTwice'
  BY Zenon, <1>w, <1>h DEF IInv, NoTaskTwice, OnProcessor, InQueue, InTimers, WaitQueues
<1>4. \A u \in Tasks, n \in Mutexes : Owns(u, n)' <=> Owns(u, n)
  BY Zenon, <1>0 DEF Owns, Granted, InQueue
<1>5. MutualExclusion' /\ LockedAgrees'
  BY Zenon, <1>0, <1>4 DEF IInv, MutualExclusion, LockedAgrees
<1> QED
  BY <1>1, <1>2, <1>3, <1>5

LEMMA SemaphoreUpStep ==
  ASSUME IInv, NEW t \in Tasks, NEW s \in Sems, sys_semaphore_up(t, s)
  PROVE  IInv'
<1> DEFINE wakes == count[s] + 1 <= 0 /\ wait_queue[s] # <<>>
           h == Head(wait_queue[s])
<1>0. /\ count' = [count EXCEPT ![s] = @ + 1] /\ s \in created
      /\ wait_queue' = IF wakes THEN pop_front(wait_queue, s) ELSE wait_queue
      /\ wakeup_task(IF wakes THEN <<h>> ELSE <<>>)
      /\ UNCHANGED <<current, created, locked, timers, now, kont, held>>
  BY Zenon DEF sys_semaphore_up, wakeup_task
<1>1. /\ WaitQueues(wait_queue) /\ SchedTypeOK /\ IsInjective(ready_queue)
      /\ s \in Objects /\ count \in [Sems -> Int] /\ count' \in [Sems -> Int]
  BY <1>0, ObjectKinds DEF IInv, KernelTypeOK, NoTaskTwice, WaitQueues
<1>s. /\ Len(wait_queue[s]) = IF count[s] < 0 THEN -count[s] ELSE 0
      /\ wait_queue[s] = <<>> <=> Len(wait_queue[s]) = 0
      /\ Len(wait_queue[s]) \in Nat /\ count[s] \in Int
  BY <1>1, QueueEmptyRange DEF IInv, SemaphoreAccounting, WaitQueues
<1>2. CASE wakes
  <2>1. /\ WaitQueues(pop_front(wait_queue, s)) /\ h \in Tasks /\ h \in Range(wait_queue[s])
        /\ Range(pop_front(wait_queue, s)[s]) = Range(wait_queue[s]) \ {h}
        /\ Len(pop_front(wait_queue, s)[s]) = Len(wait_queue[s]) - 1
        /\ \A p \in Objects : p # s => pop_front(wait_queue, s)[p] = wait_queue[p]
    BY Zenon, <1>1, <1>2, Dequeue
  <2> HIDE DEF h
  <2>2. FreshlyWoken(<<h>>) /\ Range(<<h>>) = {h}
    <3>1. <<h>> \in Seq(Tasks) /\ Range(<<h>>) = {h} /\ IsInjective(<<h>>)
      BY Zenon, <2>1, QueueEmpty
    <3>2. h \notin Range(ready_queue) /\ current # h
      BY Zenon, <2>1, SleeperFacts
    <3> QED
      BY Zenon, <3>1, <3>2 DEF FreshlyWoken
  <2>3. /\ SchedTypeOK' /\ IsInjective(ready_queue')
        /\ Range(ready_queue') = Range(ready_queue) \cup {h}
    <3>1. wakeup_task(<<h>>)
      BY <1>0, <1>2
    <3> QED
      BY <3>1, <1>1, <2>2, WakeupStep
  <2>4. wait_queue' = pop_front(wait_queue, s)
    BY <1>0, <1>2
  <2>5. KernelTypeOK' /\ NoTaskLost' /\ NoTaskTwice' /\ SleepEntry' /\ MutualExclusion' /\ LockedAgrees'
    <3>1. {h} \in SUBSET Range(wait_queue[s]) /\ s \in Sems \cup Condvars
      BY <2>1
    <3> QED
      BY Zenon, <3>1, <2>1, <2>3, <2>4, <1>0, <1>1, WakeSleepers
  <2>6. SemaphoreAccounting'
    <3>1. ASSUME NEW z \in Sems, z # s
          PROVE  wait_queue'[z] = wait_queue[z] /\ count'[z] = count[z]
      BY Zenon, <3>1, <1>0, <1>1, <2>1, <2>4, ObjectKinds
    <3>2. count'[s] = count[s] + 1 /\ Len(wait_queue'[s]) = Len(wait_queue[s]) - 1
      BY Zenon, <1>0, <1>1, <2>1, <2>4
    <3> QED
      BY <3>1, <3>2, <1>0, <1>2, <1>s DEF IInv, SemaphoreAccounting
  <2> QED
    BY <2>5, <2>6 DEF IInv
<1>3. CASE ~wakes
  <2>1. wait_queue' = wait_queue /\ wakeup_task(<<>>)
    BY Zenon, <1>0, <1>3
  <2>2. /\ SchedTypeOK' /\ IsInjective(ready_queue')
        /\ Range(ready_queue') = Range(ready_queue) \cup {}
    BY Zenon, <2>1, <1>1, WakeupStep, NobodyWoken
  <2>3. KernelTypeOK' /\ NoTaskLost' /\ NoTaskTwice' /\ SleepEntry' /\ MutualExclusion' /\ LockedAgrees'
    <3>1. {} \in SUBSET Range(wait_queue[s]) /\ s \in Sems \cup Condvars
      OBVIOUS
    <3> QED
      BY Zenon, <3>1, <2>1, <2>2, <1>0, <1>1, WakeSleepers
  <2>4. SemaphoreAccounting'
    BY <1>0, <1>1, <1>3, <1>s, <2>1 DEF IInv, SemaphoreAccounting
  <2> QED
    BY <2>3, <2>4 DEF IInv
<1> QED
  BY <1>2, <1>3

LEMMA SemaphoreDownStep ==
  ASSUME IInv, NEW t \in Tasks, NEW s \in Sems, sys_semaphore_down(t, s)
  PROVE  IInv'
<1>0. /\ WaitQueues(wait_queue) /\ SchedTypeOK /\ IsInjective(ready_queue)
      /\ current = t /\ kont[t].at = "user"
      /\ t \notin Range(ready_queue) /\ ~InTimers(t)
      /\ \A o \in Objects : t \notin Range(wait_queue[o])
      /\ \A u \in Tasks : kont[u].obj \in Objects \cup {NoObj}
  BY Zenon, UserFacts DEF sys_semaphore_down, Calls
<1>1. /\ count' = [count EXCEPT ![s] = @ - 1] /\ s \in created
      /\ UNCHANGED <<created, locked, timers, now, held>>
  BY DEF sys_semaphore_down
<1>2. /\ count \in [Sems -> Int] /\ count' \in [Sems -> Int] /\ s \in Objects /\ s \notin Mutexes
      /\ \A z \in Sems : count'[z] = IF z = s THEN count[s] - 1 ELSE count[z]
  BY <1>1, ObjectKinds DEF IInv, KernelTypeOK
<1>3. CASE count[s] - 1 >= 0
  <2>1. UNCHANGED <<schedVars, kont, wait_queue>>
    BY <1>2, <1>3 DEF sys_semaphore_down
  <2>2. KernelTypeOK'
    BY <1>1, <1>2, <2>1 DEF IInv, KernelTypeOK, SchedTypeOK, schedVars
  <2>3. NoTaskLost' /\ NoTaskTwice' /\ SleepEntry'
    BY Zenon, <1>1, <2>1 DEF IInv, NoTaskLost, NoTaskTwice, SleepEntry, OnProcessor, InQueue,
                     InTimers, schedVars
  <2>4. MutualExclusion' /\ LockedAgrees'
    BY Zenon, <1>1, <2>1 DEF IInv, MutualExclusion, LockedAgrees, Owns, Granted, InQueue
  <2>5. SemaphoreAccounting'
    BY <1>1, <1>2, <1>3, <2>1 DEF IInv, SemaphoreAccounting
  <2> QED
    BY <2>2, <2>3, <2>4, <2>5 DEF IInv
<1>4. CASE count[s] - 1 < 0
  <2>0. /\ wait_queue' = push_back(wait_queue, s, t)
        /\ kont' = [kont EXCEPT ![t] = In("down", s, NoObj)]
        /\ block_current_and_run_next(<<>>)
    BY <1>2, <1>4 DEF sys_semaphore_down, Goto
  <2>1. /\ WaitQueues(wait_queue')
        /\ Range(wait_queue'[s]) = Range(wait_queue[s]) \cup {t}
        /\ Len(wait_queue'[s]) = Len(wait_queue[s]) + 1
        /\ \A p \in Objects : p # s => wait_queue'[p] = wait_queue[p]
    <3>1. /\ WaitQueues(push_back(wait_queue, s, t))
          /\ Range(push_back(wait_queue, s, t)[s]) = Range(wait_queue[s]) \cup {t}
          /\ Len(push_back(wait_queue, s, t)[s]) = Len(wait_queue[s]) + 1
          /\ \A p \in Objects : p # s => push_back(wait_queue, s, t)[p] = wait_queue[p]
      BY Zenon, <1>0, <1>2, Enqueue
    <3> QED
      BY Zenon, <3>1, <2>0
  <2>2. /\ SchedTypeOK' /\ current' = NoTask /\ IsInjective(ready_queue')
        /\ Range(ready_queue') = Range(ready_queue)
    BY Zenon, <1>0, <2>0, BlockStep, NobodyWoken
  <2>k. /\ kont'[t].at = "down" /\ kont'[t].obj = s
        /\ \A u \in Tasks : u # t => kont'[u] = kont[u]
    BY <2>0 DEF IInv, KernelTypeOK, In
  <2>w. \A u \in Tasks, o \in Objects :
          u \in Range(wait_queue'[o]) <=> u \in Range(wait_queue[o]) \/ (u = t /\ o = s)
    BY Zenon, <2>1
  <2>3. KernelTypeOK'
    BY Zenon, <1>1, <1>2, <2>0, <2>1, <2>2 DEF IInv, KernelTypeOK, WaitQueues, Konts, In
  <2>s. SleepEntry'
    BY Zenon, <1>0, <2>k, <2>2 DEF IInv, SleepEntry
  <2>4. NoTaskLost'
    <3>1. /\ kont'[t].obj # NoObj /\ t \in Range(wait_queue'[s])
      BY Zenon, <1>2, <2>k, <2>w, ObjectKinds
    <3>2. ASSUME NEW u \in Tasks, u # t
          PROVE  \/ u \in Range(ready_queue')
                 \/ kont'[u].obj # NoObj /\ u \in Range(wait_queue'[kont'[u].obj])
                 \/ \E x \in timers : x.task = u
      BY Zenon, <3>2, <1>0, <2>k, <2>2, <2>w DEF IInv, NoTaskLost, OnProcessor, InQueue, InTimers
    <3> QED
      BY Zenon, <3>1, <3>2, <1>1, <2>k DEF NoTaskLost, InQueue, InTimers
  <2>5. NoTaskTwice'
    <3>1. IsInjective(ready_queue') /\ \A o \in Objects : IsInjective(wait_queue'[o])
      BY <2>1, <2>2 DEF WaitQueues
    <3>2. current' # t /\ \A u \in Tasks : u # NoTask
      BY <1>0, <2>2, NoTaskAssumption
    <3>3. ASSUME NEW u \in Tasks
          PROVE  /\ OnProcessor(u)' => u \notin Range(ready_queue') /\ ~InTimers(u)'
                 /\ u \in Range(ready_queue') => ~InTimers(u)'
                 /\ \A o \in Objects : u \in Range(wait_queue'[o]) =>
                      /\ kont'[u].obj = o /\ current' # u
                      /\ u \notin Range(ready_queue') /\ ~InTimers(u)'
      <4>1. CASE u = t
        BY <1>0, <1>1, <1>2, <2>k, <2>2, <2>w, <3>2, <4>1
           DEF IInv, NoTaskTwice, OnProcessor, InQueue, InTimers
      <4>2. CASE u # t
        BY <1>0, <1>1, <1>2, <2>k, <2>2, <2>w, <3>2, <4>2
           DEF IInv, NoTaskTwice, OnProcessor, InQueue, InTimers
      <4> QED
        BY Zenon, <4>1, <4>2
    <3>4. \A x, y \in timers' : x.task = y.task => x = y
      BY Zenon, <1>1 DEF IInv, NoTaskTwice
    <3> QED
      BY Zenon, <3>1, <3>3, <3>4 DEF NoTaskTwice, InQueue
  <2>6. \A u \in Tasks, n \in Mutexes : Owns(u, n)' <=> Owns(u, n)
    <3>1. \A u \in Tasks, n \in Mutexes :
            u \in Range(wait_queue'[n]) <=> u \in Range(wait_queue[n])
      BY Zenon, <1>2, <2>w, ObjectKinds
    <3>2. \A n \in Mutexes : kont[t] # In("lock", n, NoObj) /\ kont'[t] # In("lock", n, NoObj)
      BY ONLY <1>0, <2>k DEF In
    <3> QED
      BY Zenon, <3>1, <3>2, <1>1, <2>k DEF Owns, Granted, InQueue
  <2>7. MutualExclusion' /\ LockedAgrees'
    BY Zenon, <1>1, <1>2, <2>1, <2>6, ObjectKinds DEF IInv, MutualExclusion, LockedAgrees
  <2>8. SemaphoreAccounting'
    <3>1. \A z \in Sems : z # s => wait_queue'[z] = wait_queue[z]
      BY <2>1, ObjectKinds
    <3>2. Len(wait_queue[s]) \in Nat
      BY Zenon, <1>0, <1>2, QueueEmptyRange DEF WaitQueues
    <3> QED
      BY <3>1, <3>2, <1>1, <1>2, <1>4, <2>1 DEF IInv, SemaphoreAccounting
  <2> QED
    BY <2>3, <2>s, <2>4, <2>5, <2>7, <2>8 DEF IInv
<1> QED
  BY <1>2, <1>3, <1>4

-----------------------------------------------------------------------------
(* Condvars                                                                *)

LEMMA SignalStep ==
  ASSUME IInv, NEW t \in Tasks, NEW c \in Condvars, sys_condvar_signal(t, c)
  PROVE  IInv'
<1> DEFINE h == Head(wait_queue[c])
<1>0. UNCHANGED <<created, locked, count, timers, now, kont, held>>
  BY Zenon DEF sys_condvar_signal
<1>1. /\ WaitQueues(wait_queue) /\ SchedTypeOK /\ IsInjective(ready_queue)
      /\ c \in Objects /\ c \in Sems \cup Condvars /\ count' \in [Sems -> Int]
  BY Zenon, <1>0, ObjectKinds DEF IInv, KernelTypeOK, NoTaskTwice, WaitQueues
<1>2. CASE wait_queue[c] = <<>>
  <2>1. UNCHANGED <<current, ready_queue, task_status, wait_queue>>
    BY Zenon, <1>2 DEF sys_condvar_signal, schedVars
  <2> QED
    BY Zenon, <1>0, <2>1 DEF IInv, KernelTypeOK, SchedTypeOK, NoTaskLost, NoTaskTwice, SleepEntry,
       OnProcessor, InQueue, InTimers, MutualExclusion, LockedAgrees, Owns, Granted,
       SemaphoreAccounting
<1>3. CASE wait_queue[c] # <<>>
  <2>0. wait_queue' = pop_front(wait_queue, c) /\ wakeup_task(<<h>>)
    BY Zenon, <1>3 DEF sys_condvar_signal
  <2>1. /\ WaitQueues(pop_front(wait_queue, c)) /\ h \in Tasks /\ h \in Range(wait_queue[c])
        /\ Range(pop_front(wait_queue, c)[c]) = Range(wait_queue[c]) \ {h}
        /\ \A p \in Objects : p # c => pop_front(wait_queue, c)[p] = wait_queue[p]
    BY Zenon, <1>1, <1>3, Dequeue
  <2> HIDE DEF h
  <2>2. FreshlyWoken(<<h>>) /\ Range(<<h>>) = {h}
    BY <1>1, <2>1, QueueEmpty, SleeperFacts DEF FreshlyWoken
  <2>3. /\ SchedTypeOK' /\ IsInjective(ready_queue') /\ current' = current
        /\ Range(ready_queue') = Range(ready_queue) \cup {h}
    BY <1>1, <2>0, <2>2, WakeupStep
  <2>4. KernelTypeOK' /\ NoTaskLost' /\ NoTaskTwice' /\ SleepEntry' /\ MutualExclusion' /\ LockedAgrees'
    <3>1. {h} \in SUBSET Range(wait_queue[c])
      BY Zenon, <2>1
    <3> QED
      BY Zenon, <3>1, <2>0, <2>1, <2>3, <1>0, <1>1, WakeSleepers
  <2>5. SemaphoreAccounting'
    BY Zenon, <1>0, <2>0, <2>1, ObjectKinds DEF IInv, SemaphoreAccounting
  <2> QED
    BY <2>4, <2>5 DEF IInv
<1> QED
  BY <1>2, <1>3

LEMMA SignalAllStep ==
  ASSUME IInv, NEW t \in Tasks, NEW c \in Condvars, sys_condvar_signal_all(t, c)
  PROVE  IInv'
<1>0. /\ UNCHANGED <<created, locked, count, timers, now, kont, held>>
      /\ wait_queue' = [wait_queue EXCEPT ![c] = <<>>]
      /\ wakeup_task(wait_queue[c])
  BY DEF sys_condvar_signal_all
<1>1. /\ WaitQueues(wait_queue) /\ SchedTypeOK /\ IsInjective(ready_queue)
      /\ c \in Objects /\ c \in Sems \cup Condvars /\ count' \in [Sems -> Int]
  BY <1>0, ObjectKinds DEF IInv, KernelTypeOK, NoTaskTwice, WaitQueues
<1>2. /\ WaitQueues(wait_queue') /\ Range(wait_queue'[c]) = {}
      /\ \A p \in Objects : p # c => wait_queue'[p] = wait_queue[p]
  <2>1. <<>> \in Seq(Tasks) /\ Range(<<>>) = {} /\ IsInjective(<<>>)
    BY Zenon, QueueEmpty, SyncAssumption
  <2> QED
    BY <2>1, <1>0, <1>1 DEF WaitQueues
<1>3. FreshlyWoken(wait_queue[c])
  BY Zenon, <1>1, SleeperFacts DEF FreshlyWoken, WaitQueues
<1>4. /\ SchedTypeOK' /\ IsInjective(ready_queue') /\ current' = current
      /\ Range(ready_queue') = Range(ready_queue) \cup Range(wait_queue[c])
  BY <1>0, <1>1, <1>3, WakeupStep
<1>5. KernelTypeOK' /\ NoTaskLost' /\ NoTaskTwice' /\ SleepEntry' /\ MutualExclusion' /\ LockedAgrees'
  <2>1. /\ Range(wait_queue[c]) \in SUBSET Range(wait_queue[c])
        /\ Range(wait_queue'[c]) = Range(wait_queue[c]) \ Range(wait_queue[c])
    BY Zenon, <1>2
  <2> QED
    BY Zenon, <2>1, <1>0, <1>1, <1>2, <1>4, WakeSleepers
<1>6. SemaphoreAccounting'
  BY <1>0, <1>2, ObjectKinds DEF IInv, SemaphoreAccounting
<1> QED
  BY <1>5, <1>6 DEF IInv

-----------------------------------------------------------------------------
(* System calls that come back                                             *)

LEMMA LockReturnsStep ==
  ASSUME IInv, NEW t \in Tasks, MutexLockReturns(t)
  PROVE  IInv'
<1> DEFINE m == kont[t].obj
<1>0. /\ current = t /\ kont[t].at = "lock"
      /\ held' = [held EXCEPT ![t] = @ \cup {m}]
      /\ kont' = [kont EXCEPT ![t] = User]
      /\ UNCHANGED <<current, ready_queue, task_status, created, locked, count,
                     wait_queue, timers, now>>
  BY DEF MutexLockReturns, Resumes, Goto, schedVars, syncVars
<1>1. /\ m \in Mutexes /\ m \in Objects /\ kont[t] = In("lock", m, NoObj)
      /\ OnProcessor(t) /\ t \notin Range(wait_queue[m])
      /\ \A o \in Objects : t \notin Range(wait_queue[o])
  BY Zenon, <1>0, RunningFacts, KontKinds, ObjectKinds DEF IInv
<1> HIDE DEF m
<1>k. /\ kont'[t] = User /\ kont'[t].at = "user" /\ kont'[t].obj = NoObj
      /\ \A u \in Tasks : u # t => kont'[u] = kont[u]
  BY <1>0 DEF IInv, KernelTypeOK, User, In
<1>2. KernelTypeOK'
  BY Zenon, <1>0, <1>1 DEF IInv, KernelTypeOK, SchedTypeOK, Konts, User, In
<1>3. NoTaskLost' /\ NoTaskTwice' /\ SleepEntry'
  <2>1. NoTaskLost'
    BY Zenon, <1>0, <1>1, <1>k DEF IInv, NoTaskLost, OnProcessor, InQueue, InTimers
  <2>2. NoTaskTwice'
    <3>1. /\ IsInjective(ready_queue') /\ \A o \in Objects : IsInjective(wait_queue'[o])
          /\ \A x, y \in timers' : x.task = y.task => x = y
          /\ t \notin Range(ready_queue) /\ ~InTimers(t)
      BY Zenon, <1>0, <1>1 DEF IInv, NoTaskTwice, InQueue
    <3>2. ASSUME NEW u \in Tasks
          PROVE  /\ OnProcessor(u)' => u \notin Range(ready_queue') /\ ~InTimers(u)'
                 /\ u \in Range(ready_queue') => ~InTimers(u)'
                 /\ \A o \in Objects : u \in Range(wait_queue'[o]) =>
                      /\ kont'[u].obj = o /\ current' # u
                      /\ u \notin Range(ready_queue') /\ ~InTimers(u)'
      <4>1. CASE u = t
        BY Zenon, <1>0, <1>1, <3>1, <4>1 DEF InTimers
      <4>2. CASE u # t
        BY <1>0, <1>k, <4>2 DEF IInv, NoTaskTwice, OnProcessor, InQueue, InTimers
      <4> QED
        BY Zenon, <4>1, <4>2
    <3> QED
      BY Zenon, <3>1, <3>2 DEF NoTaskTwice, InQueue
  <2>3. SleepEntry'
    BY <1>0, <1>k DEF IInv, SleepEntry
  <2> QED BY <2>1, <2>2, <2>3
<1>4. ASSUME NEW u \in Tasks, NEW n \in Mutexes PROVE Owns(u, n)' <=> Owns(u, n)
  <2>1. CASE u # t
    BY Zenon, <1>0, <1>1, <1>k, <2>1 DEF IInv, KernelTypeOK, Owns, Granted, InQueue, In, User
  <2>2. CASE u = t
    <3>1. /\ kont'[t] # In("lock", n, NoObj) /\ (kont[t] = In("lock", n, NoObj) <=> n = m)
      BY ONLY <1>1, <1>k DEF In, User
    <3>2. held'[t] = held[t] \cup {m}
      BY Zenon, <1>0 DEF IInv, KernelTypeOK
    <3> QED
      BY Zenon, <1>1, <2>2, <3>1, <3>2 DEF Owns, Granted, InQueue
  <2> QED
    BY <2>1, <2>2
<1>5. MutualExclusion' /\ LockedAgrees'
  BY Zenon, <1>0, <1>4 DEF IInv, MutualExclusion, LockedAgrees
<1>6. SemaphoreAccounting'
  BY <1>0 DEF IInv, SemaphoreAccounting
<1> QED
  BY <1>2, <1>3, <1>5, <1>6 DEF IInv

\* Semaphore::down and sys_sleep only go back to user mode.
LEMMA ReturnsStep ==
  ASSUME IInv, NEW t \in Tasks, SemaphoreDownReturns(t) \/ SleepReturns(t)
  PROVE  IInv'
<1>0. /\ current = t /\ kont[t].at \in {"down", "sleep"}
      /\ kont' = [kont EXCEPT ![t] = User]
      /\ UNCHANGED <<current, ready_queue, task_status, created, locked, count,
                     wait_queue, timers, now, held>>
  BY DEF SemaphoreDownReturns, SleepReturns, Resumes, Goto, schedVars, syncVars
<1>1. /\ OnProcessor(t) /\ kont[t].at # "lock"
      /\ \A o \in Objects : t \notin Range(wait_queue[o])
  BY <1>0, RunningFacts
<1>k. /\ kont'[t] = User /\ kont'[t].at = "user" /\ kont'[t].obj = NoObj
      /\ \A u \in Tasks : u # t => kont'[u] = kont[u]
  BY Zenon, <1>0 DEF IInv, KernelTypeOK, User, In
<1>2. KernelTypeOK'
  BY Zenon, <1>0 DEF IInv, KernelTypeOK, SchedTypeOK, Konts, User, In
<1>3. NoTaskLost' /\ NoTaskTwice' /\ SleepEntry'
  <2>1. NoTaskLost'
    BY Zenon, <1>0, <1>1, <1>k DEF IInv, NoTaskLost, OnProcessor, InQueue, InTimers
  <2>2. NoTaskTwice'
    <3>1. /\ IsInjective(ready_queue') /\ \A o \in Objects : IsInjective(wait_queue'[o])
          /\ \A x, y \in timers' : x.task = y.task => x = y
          /\ t \notin Range(ready_queue) /\ ~InTimers(t)
      BY Zenon, <1>0, <1>1 DEF IInv, NoTaskTwice, InQueue
    <3>2. ASSUME NEW u \in Tasks
          PROVE  /\ OnProcessor(u)' => u \notin Range(ready_queue') /\ ~InTimers(u)'
                 /\ u \in Range(ready_queue') => ~InTimers(u)'
                 /\ \A o \in Objects : u \in Range(wait_queue'[o]) =>
                      /\ kont'[u].obj = o /\ current' # u
                      /\ u \notin Range(ready_queue') /\ ~InTimers(u)'
      <4>1. CASE u = t
        BY Zenon, <1>0, <1>1, <3>1, <4>1 DEF InTimers
      <4>2. CASE u # t
        BY <1>0, <1>k, <4>2 DEF IInv, NoTaskTwice, OnProcessor, InQueue, InTimers
      <4> QED
        BY Zenon, <4>1, <4>2
    <3> QED
      BY Zenon, <3>1, <3>2 DEF NoTaskTwice, InQueue
  <2>3. SleepEntry'
    BY <1>0, <1>k DEF IInv, SleepEntry
  <2> QED BY <2>1, <2>2, <2>3
<1>4. ASSUME NEW u \in Tasks, NEW n \in Mutexes PROVE Owns(u, n)' <=> Owns(u, n)
  <2>1. CASE u # t
    BY Zenon, <1>0, <1>1, <1>k, <2>1 DEF Owns, Granted, InQueue, In, User
  <2>2. CASE u = t
    BY <1>0, <1>1, <1>k, <2>2 DEF Owns, Granted, InQueue, In, User
  <2> QED
    BY <2>1, <2>2
<1>5. MutualExclusion' /\ LockedAgrees'
  BY Zenon, <1>0, <1>4 DEF IInv, MutualExclusion, LockedAgrees
<1>6. SemaphoreAccounting'
  BY <1>0 DEF IInv, SemaphoreAccounting
<1> QED
  BY <1>2, <1>3, <1>5, <1>6 DEF IInv

-----------------------------------------------------------------------------
(* The invariant                                                           *)

LEMMA InitIInv == Init => IInv
<1> SUFFICES ASSUME Init PROVE IInv
  OBVIOUS
<1> DEFINE n == Cardinality(Tasks)
<1>1. PICK order \in Bijection(1..n, Tasks) : SchedInit(order)
  BY DEF Init
<1>2. order \in Seq(Tasks) /\ IsInjective(order) /\ Range(order) = Tasks
  <2>1. n \in Nat
    BY SyncAssumption, FS_CardinalityType
  <2> HIDE DEF n
  <2>2. /\ order \in [1..n -> Tasks] /\ IsInjective(order)
        /\ \A t \in Tasks : \E i \in 1..n : order[i] = t
    BY DEF Bijection, Injection, Surjection, IsInjective
  <2>3. Range(order) = Tasks
    BY <2>2 DEF Range
  <2> QED
    BY <2>1, <2>2, <2>3
<1>3. /\ current = NoTask /\ ready_queue = order
      /\ task_status = [t \in Tasks |-> "Ready"]
      /\ created = {} /\ timers = {} /\ now = 0
      /\ locked = [m \in Mutexes |-> FALSE] /\ count = [s \in Sems |-> 0]
      /\ wait_queue = [o \in Objects |-> <<>>]
      /\ kont = [t \in Tasks |-> User] /\ held = [t \in Tasks |-> {}]
  BY <1>1 DEF Init, SyncInit, SchedInit
<1>4. <<>> \in Seq(Tasks) /\ Range(<<>>) = {} /\ IsInjective(<<>>) /\ Len(<<>>) = 0
  BY Zenon, QueueEmpty, SyncAssumption
<1>5. KernelTypeOK
  <2>1. IsFiniteSet(timers)
    BY <1>3, FS_EmptySet
  <2> QED
    BY <2>1, <1>2, <1>3, <1>4 DEF KernelTypeOK, SchedTypeOK, TaskStatus, Konts, User, In
<1>6. NoTaskLost /\ NoTaskTwice /\ SleepEntry
  BY Zenon, <1>1, <1>2, <1>3, <1>4, NoTaskAssumption
     DEF NoTaskLost, NoTaskTwice, SleepEntry, OnProcessor, InQueue, InTimers, User, In
<1>7. MutualExclusion /\ LockedAgrees
  BY Zenon, <1>3, ObjectKinds DEF MutualExclusion, LockedAgrees, Owns, Granted, User, In
<1>8. SemaphoreAccounting
  BY <1>3, <1>4, ObjectKinds DEF SemaphoreAccounting
<1> QED
  BY <1>5, <1>6, <1>7, <1>8 DEF IInv

LEMMA NextIInv == IInv /\ [Next]_vars => IInv'
<1> SUFFICES ASSUME IInv, [Next]_vars PROVE IInv'
  OBVIOUS
<1>1. CASE RunTasks
  BY <1>1, RunTasksStep
<1>2. CASE UserTimerInterrupt
  BY <1>2, UserTimerStep
<1>3. CASE KernelTimerInterrupt
  BY <1>3, KernelTimerStep
<1>4. CASE Tick
  <2>1. now' \in Nat
    BY <1>4 DEF Tick, IInv, KernelTypeOK
  <2> QED
    BY <2>1, <1>4, QuietStep DEF Tick, schedVars, syncVars
<1>5. ASSUME NEW t \in Tasks, Create(t) PROVE IInv'
  <2>1. CASE \E m \in Mutexes : sys_mutex_create(t, m)
    BY <2>1, QuietStep DEF sys_mutex_create, schedVars
  <2>2. CASE \E s \in Sems, n \in ResCounts : sys_semaphore_create(t, s, n)
    BY <2>2, SemaphoreCreateStep
  <2>3. CASE \E c \in Condvars : sys_condvar_create(t, c)
    BY <2>3, QuietStep DEF sys_condvar_create, schedVars
  <2> QED
    BY <1>5, <2>1, <2>2, <2>3 DEF Create
<1>6. ASSUME NEW t \in Tasks, Call(t) PROVE IInv'
  <2>1. ASSUME NEW m \in Mutexes, sys_mutex_lock(t, m) PROVE IInv'
    <3>1. current = t /\ kont[t].at = "user" /\ lock(t, m) /\ UNCHANGED <<timers, now>>
      BY <2>1 DEF sys_mutex_lock, Calls, User, In
    <3> QED
      BY <3>1, LockStep
  <2>2. ASSUME NEW m \in Mutexes, sys_mutex_unlock(t, m) PROVE IInv'
    BY <2>2, MutexUnlockStep
  <2>3. ASSUME NEW s \in Sems, sys_semaphore_up(t, s) \/ sys_semaphore_down(t, s) PROVE IInv'
    BY <2>3, SemaphoreUpStep, SemaphoreDownStep
  <2>4. ASSUME NEW c \in Condvars, sys_condvar_signal(t, c) \/ sys_condvar_signal_all(t, c)
        PROVE  IInv'
    BY <2>4, SignalStep, SignalAllStep
  <2>5. ASSUME NEW c \in Condvars, NEW m \in Mutexes, sys_condvar_wait(t, c, m) PROVE IInv'
    BY <2>5, CondvarWaitStep
  <2>6. ASSUME NEW ms \in SleepTimes, sys_sleep(t, ms) PROVE IInv'
    BY <2>6, SleepStep
  <2>7. CASE sys_yield(t)
    BY <2>7, YieldStep
  <2> QED
    BY <1>6, <2>1, <2>2, <2>3, <2>4, <2>5, <2>6, <2>7 DEF Call
<1>7. ASSUME NEW t \in Tasks, Continue(t) PROVE IInv'
  <2>1. CASE MutexSpinRetry(t)
    <3>1. kont[t].obj \in Mutexes
      BY Zenon, <2>1, KontKinds, SyncAssumption DEF IInv, MutexSpinRetry, Resumes
    <3> QED
      BY <3>1, <2>1, LockStep DEF MutexSpinRetry, Resumes
  <2>2. CASE MutexLockReturns(t)
    BY <2>2, LockReturnsStep
  <2>3. CASE SemaphoreDownReturns(t) \/ SleepReturns(t)
    BY <2>3, ReturnsStep
  <2>4. CASE CondvarWaitRelocks(t)
    <3>1. kont[t].mutex \in Mutexes
      BY Zenon, <2>4, KontKinds DEF IInv, CondvarWaitRelocks, Resumes
    <3> QED
      BY Zenon, <3>1, <2>4, LockStep DEF CondvarWaitRelocks, Resumes
  <2>5. CASE SleepBlocks(t)
    BY <2>5, SleepBlocksStep
  <2> QED
    BY <1>7, <2>1, <2>2, <2>3, <2>4, <2>5 DEF Continue
<1>8. CASE Halted \/ UNCHANGED vars
  BY <1>8, QuietStep DEF Halted, vars, kernelVars, schedVars, syncVars
<1> QED
  BY <1>1, <1>2, <1>3, <1>4, <1>5, <1>6, <1>7, <1>8 DEF Next

\* Every reachable state of the kernel satisfies the inductive invariant.
THEOREM Invariance == Spec => []IInv
BY InitIInv, NextIInv, PTL DEF Spec

\* The kernel's tables, queues and flags keep their types, and a task inside a
\* system call waits for an object of the kind that system call is about.
THEOREM TypeCorrect == Spec => []TypeOK
<1>1. IInv => KernelTypeOK
  BY DEF IInv
<1>2. Init => panicked \in BOOLEAN
  BY DEF Init, SyncInit
<1>3. panicked \in BOOLEAN /\ [Next]_vars => (panicked \in BOOLEAN)'
  BY DEF Next, Interruptible, Uninterrupted, Halted, vars
<1> QED
  BY <1>1, <1>2, <1>3, Invariance, PTL DEF Spec, TypeOK

\* No task is lost, whatever the number of threads and whenever the timer
\* interrupts (wakeup_task, block_current_task, check_timer).
THEOREM TasksAccountedFor == Spec => []NoTaskLost
<1>1. IInv => NoTaskLost
  BY DEF IInv
<1> QED
  BY <1>1, Invariance, PTL

\* No task is in two queues, or in one queue twice (wakeup_task, the wait queues
\* of os/src/sync and signal_all).
THEOREM NothingQueuedTwice == Spec => []NoTaskTwice
<1>1. IInv => NoTaskTwice
  BY DEF IInv
<1> QED
  BY <1>1, Invariance, PTL

\* MutexSpin and MutexBlocking have at most one owner (os/src/sync/mutex.rs).
THEOREM MutexesCorrect == Spec => []MutualExclusion
<1>1. IInv => MutualExclusion
  BY DEF IInv
<1> QED
  BY <1>1, Invariance, PTL

\* `locked' of a mutex says whether it has an owner, also while it is handed from
\* the owner to a waiter that has not run yet (os/src/sync/mutex.rs).
THEOREM LockedFlagExact == Spec => []LockedAgrees
<1>1. IInv => LockedAgrees
  BY DEF IInv
<1> QED
  BY <1>1, Invariance, PTL

\* A negative count is the number of waiters (os/src/sync/semaphore.rs).
THEOREM SemaphoresCorrect == Spec => []SemaphoreAccounting
<1>1. IInv => SemaphoreAccounting
  BY DEF IInv
<1> QED
  BY <1>1, Invariance, PTL

-----------------------------------------------------------------------------
(* First come, first served                                                *)

\* A step that gives n to u.
Barges(u, n) ==
  /\ n \in held'[u] \ held[u]
  /\ kont[u] # In("lock", n, NoObj) /\ wait_queue[n] # <<>>

LEMMA LockDoesNotBarge ==
  ASSUME IInv, NEW t \in Tasks, NEW m \in Mutexes, lock(t, m),
         NEW u \in Tasks, NEW n \in Mutexes
  PROVE  ~Barges(u, n)
<1>1. CASE ~locked[m]
  <2>1. wait_queue[m] = <<>> /\ held' = [held EXCEPT ![t] = @ \cup {m}]
    BY Zenon, <1>1 DEF lock, IInv, LockedAgrees
  <2> QED
    BY <2>1 DEF Barges, IInv, KernelTypeOK
<1>2. CASE locked[m]
  BY Zenon, <1>2 DEF lock, Barges
<1> QED
  BY <1>1, <1>2

\* A MutexBlocking is never given to a thread that was not waiting while
\* another one has been waiting for it.
THEOREM FirstComeFirstServed == Spec => NoBarging
<1>1. IInv /\ [Next]_vars => [GivenInTurn]_vars
  <2> SUFFICES ASSUME IInv, Next, NEW n \in Mutexes \ SpinMutexes, NEW u \in Tasks
               PROVE  ~Barges(u, n)
    BY DEF Barges, GivenInTurn
  <2>1. ASSUME held' = held PROVE ~Barges(u, n)
    BY <2>1 DEF Barges
  <2>2. ASSUME NEW t \in Tasks, Create(t) PROVE ~Barges(u, n)
    BY <2>1, <2>2 DEF Create, sys_mutex_create, sys_semaphore_create, sys_condvar_create
  <2>3. ASSUME NEW t \in Tasks, NEW m \in Mutexes, held' = [held EXCEPT ![t] = @ \ {m}]
        PROVE  ~Barges(u, n)
    BY <2>3 DEF Barges, IInv, KernelTypeOK
  <2>4. ASSUME NEW t \in Tasks, Call(t) PROVE ~Barges(u, n)
    <3>1. ASSUME NEW m \in Mutexes, sys_mutex_lock(t, m) PROVE ~Barges(u, n)
      BY <3>1, LockDoesNotBarge DEF sys_mutex_lock
    <3>2. ASSUME NEW m \in Mutexes, sys_mutex_unlock(t, m) PROVE ~Barges(u, n)
      BY Zenon, <3>2, <2>3 DEF sys_mutex_unlock, unlock
    <3>3. ASSUME NEW c \in Condvars, NEW m \in Mutexes, sys_condvar_wait(t, c, m)
          PROVE  ~Barges(u, n)
      BY Zenon, <3>3, <2>3 DEF sys_condvar_wait, unlock
    <3>4. ASSUME NEW s \in Sems, sys_semaphore_up(t, s) \/ sys_semaphore_down(t, s)
          PROVE  ~Barges(u, n)
      BY Zenon, <3>4, <2>1 DEF sys_semaphore_up, sys_semaphore_down
    <3>5. ASSUME NEW c \in Condvars, sys_condvar_signal(t, c) \/ sys_condvar_signal_all(t, c)
          PROVE  ~Barges(u, n)
      BY <3>5, <2>1 DEF sys_condvar_signal, sys_condvar_signal_all
    <3>6. ASSUME NEW ms \in SleepTimes, sys_sleep(t, ms) PROVE ~Barges(u, n)
      BY <3>6, <2>1 DEF sys_sleep
    <3>7. CASE sys_yield(t)
      BY <3>7, <2>1 DEF sys_yield
    <3> QED
      BY <2>4, <3>1, <3>2, <3>3, <3>4, <3>5, <3>6, <3>7 DEF Call
  <2>5. ASSUME NEW t \in Tasks, Continue(t) PROVE ~Barges(u, n)
    <3>1. CASE MutexSpinRetry(t)
      <4>1. kont[t].obj \in Mutexes /\ lock(t, kont[t].obj)
        BY Zenon, <3>1, KontKinds, SyncAssumption DEF IInv, MutexSpinRetry, Resumes
      <4> QED
        BY <4>1, LockDoesNotBarge
    <3>2. CASE MutexLockReturns(t)
      <4>1. /\ held' = [held EXCEPT ![t] = @ \cup {kont[t].obj}]
            /\ kont[t] = In("lock", kont[t].obj, NoObj)
        BY Zenon, <3>2, KontKinds DEF IInv, MutexLockReturns, Resumes
      <4> QED
        BY <4>1 DEF Barges, IInv, KernelTypeOK
    <3>3. CASE CondvarWaitRelocks(t)
      <4>1. kont[t].mutex \in Mutexes /\ lock(t, kont[t].mutex)
        BY Zenon, <3>3, KontKinds DEF IInv, CondvarWaitRelocks, Resumes
      <4> QED
        BY <4>1, LockDoesNotBarge
    <3>4. CASE SemaphoreDownReturns(t) \/ SleepBlocks(t) \/ SleepReturns(t)
      BY <3>4, <2>1 DEF SemaphoreDownReturns, SleepBlocks, SleepReturns
    <3> QED
      BY <2>5, <3>1, <3>2, <3>3, <3>4 DEF Continue
  <2>6. CASE RunTasks \/ UserTimerInterrupt \/ KernelTimerInterrupt \/ Tick \/ Halted
    BY <2>6, <2>1 DEF RunTasks, UserTimerInterrupt, KernelTimerInterrupt, Tick, Halted,
         vars, kernelVars
  <2> QED
    BY <2>2, <2>4, <2>5, <2>6 DEF Next
<1> QED
  BY <1>1, Invariance, PTL DEF Spec, NoBarging

-----------------------------------------------------------------------------
(* Deadlines in order                                                      *)

\* Of two expired timers the earlier is popped first, so that its task comes
\* before the other's in what check_timer adds to the ready queue.
LEMMA EarlierFirst ==
  ASSUME IInv, NEW order \in PopOrders(Expired),
         NEW x \in Expired, NEW y \in Expired, x.expire_ms < y.expire_ms
  PROVE  \E i, j \in DOMAIN (ready_queue \o TasksOf(order)) :
           /\ i < j
           /\ (ready_queue \o TasksOf(order))[i] = x.task
           /\ (ready_queue \o TasksOf(order))[j] = y.task
<1> DEFINE w == TasksOf(order)
<1>1. ready_queue \in Seq(Tasks) /\ w \in Seq(Tasks)
  BY CheckTimerFacts DEF FreshlyWoken, IInv, KernelTypeOK, SchedTypeOK
<1>2. PICK k, l \in DOMAIN order : order[k] = x /\ order[l] = y
  BY Zenon DEF PopOrders, Range
<1>3. DOMAIN w = DOMAIN order /\ w[k] = x.task /\ w[l] = y.task
  BY <1>2 DEF TasksOf
<1>4. k < l
  <2>1. k \in Int /\ l \in Int /\ x.expire_ms \in Int /\ y.expire_ms \in Int
    BY <1>1, <1>3 DEF Expired, IInv, KernelTypeOK
  <2>2. l < k => y.expire_ms <= x.expire_ms
    BY Zenon, <1>2 DEF PopOrders
  <2>3. k # l
    BY <1>2, <2>1
  <2> QED
    BY <2>1, <2>2, <2>3
<1> HIDE DEF w
<1>5. /\ Len(ready_queue) + k \in DOMAIN (ready_queue \o w)
      /\ Len(ready_queue) + l \in DOMAIN (ready_queue \o w)
      /\ (ready_queue \o w)[Len(ready_queue) + k] = w[k]
      /\ (ready_queue \o w)[Len(ready_queue) + l] = w[l]
      /\ Len(ready_queue) + k < Len(ready_queue) + l
  BY <1>1, <1>2, <1>3, <1>4
<1> QED
  BY Zenon, <1>3, <1>5 DEF w

\* A timer leaves the heap only when a timer interrupt finds it expired.
LEMMA TimersPopped ==
  ASSUME [Next]_vars, NEW y \in timers, y \notin timers'
  PROVE  UserTimerInterrupt \/ KernelTimerInterrupt
<1>1. ASSUME NEW t \in Tasks, Create(t) \/ Call(t) \/ Continue(t) PROVE timers \subseteq timers'
  <2>1. CASE Create(t)
    BY Zenon, <2>1 DEF Create, sys_mutex_create, sys_semaphore_create, sys_condvar_create
  <2>2. CASE Call(t)
    BY Zenon, <2>2 DEF Call, sys_mutex_lock, sys_mutex_unlock, sys_semaphore_up, sys_semaphore_down,
         sys_condvar_signal, sys_condvar_signal_all, sys_condvar_wait, sys_sleep, sys_yield
  <2>3. CASE Continue(t)
    BY Zenon, <2>3 DEF Continue, MutexSpinRetry, MutexLockReturns, SemaphoreDownReturns,
         CondvarWaitRelocks, SleepBlocks, SleepReturns
  <2> QED
    BY <1>1, <2>1, <2>2, <2>3
<1>2. CASE RunTasks \/ Tick \/ Halted \/ UNCHANGED vars
  BY Zenon, <1>2 DEF RunTasks, Tick, Halted, vars, kernelVars
<1> QED
  BY Zenon, <1>1, <1>2 DEF Next

\* check_timer wakes the sleepers in the order of their deadlines, for any number
\* of sleepers and whatever the interrupt meets (os/src/timer.rs, the reversed
\* Ord of TimerCondVar; trap_handler and trap_from_kernel).
THEOREM SleepersWakeInOrder == Spec => DeadlineOrder
<1>1. ASSUME IInv, [Next]_vars, NEW x \in timers, NEW y \in timers,
             x.expire_ms < y.expire_ms, y \notin timers'
      PROVE  /\ x \notin timers'
             /\ \E i, j \in DOMAIN ready_queue' :
                  i < j /\ ready_queue'[i] = x.task /\ ready_queue'[j] = y.task
  <2>1. PICK order \in PopOrders(Expired) :
          /\ check_timer(order)
          /\ \/ suspend_current_and_run_next(TasksOf(order)) /\ current \in Tasks
             \/ wakeup_task(TasksOf(order))
    BY Zenon, <1>1, TimersPopped DEF UserTimerInterrupt, KernelTimerInterrupt
  <2>2. x \in Expired /\ y \in Expired /\ timers' = timers \ Expired
    BY <1>1, <2>1 DEF check_timer, Expired, IInv, KernelTypeOK
  <2> DEFINE q == ready_queue \o TasksOf(order)
  <2>3. \E i, j \in DOMAIN q : i < j /\ q[i] = x.task /\ q[j] = y.task
    BY <1>1, <2>2, EarlierFirst
  <2>4. q \in Seq(Tasks)
    BY <1>1, CheckTimerFacts DEF FreshlyWoken, IInv, KernelTypeOK, SchedTypeOK
  <2>5. ready_queue' = q \/ (current \in Tasks /\ ready_queue' = Append(q, current))
    BY Zenon, <2>1 DEF suspend_current_and_run_next, wakeup_task
  <2> HIDE DEF q
  <2>6. DOMAIN q \subseteq DOMAIN ready_queue' /\ \A i \in DOMAIN q : ready_queue'[i] = q[i]
    BY <2>4, <2>5
  <2> QED
    BY Zenon, <2>2, <2>3, <2>6
<1>2. IInv /\ [Next]_vars => [WokenInTurn]_vars
  BY Zenon, <1>1 DEF WokenInTurn
<1> QED
  BY <1>2, Invariance, PTL DEF Spec, DeadlineOrder
=============================================================================
