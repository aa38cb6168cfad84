------------------------------- MODULE Process -------------------------------
(***************************************************************************)
(* The life of processes and threads: ProcessControlBlock and              *)
(* TaskControlBlock (os/src/task/process.rs, task.rs, id.rs), the exit     *)
(* path (os/src/task/mod.rs), PID2PCB (manager.rs) and the system calls    *)
(* fork, exit, waitpid, thread_create and waittid.                         *)
(*                                                                         *)
(* What is freed, and when, is decided by Rust's reference counts, so the  *)
(* model keeps the owners of every Arc.  A PCB is owned by the children    *)
(* list of its parent, by PID2PCB while it lives, and by the kernel stack  *)
(* of each of its threads that is suspended inside a system call which     *)
(* keeps current_process() in a local variable.  A TCB is owned by the     *)
(* tasks vector of its process and, while it is not running, by the ready  *)
(* queue, a timer or the wait queue of a kernel object.  A kernel stack    *)
(* that is freed is not unwound: what its locals own is never dropped.     *)
(***************************************************************************)
EXTENDS RecycleAllocator, FiniteSets

CONSTANTS
  Procs,     \* the ProcessControlBlocks; one can be reused once it is dropped
  InitProc,  \* INITPROC
  NoProc, NoTcb,
  MaxTid,    \* bound: the largest thread id
  MaxKstack  \* bound: the largest kernel stack id

\* Where a thread is:
\*   user    in user mode, or runnable in a call that holds nothing
\*   lock    blocked in sys_mutex_lock, which has dropped its Arc of the PCB
\*   down    blocked in sys_semaphore_down or sys_condvar_wait, which has not
\*   read    runnable inside the loop of a pipe, with an Arc of the PCB
\*   exited  its exit code is set
Points == {"user", "lock", "down", "read", "exited"}
Blocked == {"lock", "down"}
HoldsProcess == {"down", "read"}

TCBs == [kstack : Nat, at : Points]

ASSUME ProcessAssumption ==
  /\ InitProc \in Procs /\ NoProc \notin Procs /\ MaxTid \in Nat /\ MaxKstack \in Nat
  /\ NoTcb \notin TCBs

VARIABLES
  status,    \* of a PCB: "none" (not allocated), "live", or "zombie"
  pid,       \* PidHandle
  parent,    \* ProcessControlBlockInner::parent
  children,  \* ProcessControlBlockInner::children
  tasks,     \* ProcessControlBlockInner::tasks, tid i at position i + 1
  tids,      \* ProcessControlBlockInner::task_res_allocator
  PID2PCB,   \* the processes in the map PID2PCB
  pids,      \* PID_ALLOCATOR
  kstacks,   \* KSTACK_ALLOCATOR
  pins,      \* Arcs of a PCB on the kernel stacks of its removed threads
  stranded,  \* <<process, kernel stack>> of removed threads that a queue still owns
  exiting,   \* the kernel stack that exit_current_and_run_next runs on
  panicked   \* an assertion of the kernel failed

treeVars == <<status, pid, parent, children, PID2PCB, pids>>
taskVars == <<tasks, tids, kstacks>>
leakVars == <<pins, stranded>>
vars == <<treeVars, taskVars, leakVars, exiting, panicked>>

Tcb(k) == [kstack |-> k, at |-> "user"]

Allocators == [current : Nat, recycled : Seq(Nat)]

TypeOK ==
  /\ status \in [Procs -> {"none", "live", "zombie"}]
  /\ pid \in [Procs -> Nat]
  /\ parent \in [Procs -> Procs \cup {NoProc}]
  /\ children \in [Procs -> Seq(Procs)]
  /\ tasks \in [Procs -> Seq(TCBs \cup {NoTcb})]
  /\ tids \in [Procs -> Allocators]
  /\ PID2PCB \subseteq Procs
  /\ pids \in Allocators
  /\ kstacks \in Allocators
  /\ pins \in [Procs -> Nat]
  /\ stranded \subseteq Procs \X Nat
  /\ exiting \in Nat \cup {NoTcb}
  /\ panicked \in BOOLEAN

\* ProcessControlBlock::new of INITPROC.
Init ==
  /\ status = [p \in Procs |-> IF p = InitProc THEN "live" ELSE "none"]
  /\ pid = [p \in Procs |-> 0]
  /\ parent = [p \in Procs |-> NoProc]
  /\ children = [p \in Procs |-> <<>>]
  /\ tasks = [p \in Procs |-> IF p = InitProc THEN <<Tcb(0)>> ELSE <<>>]
  /\ tids = [p \in Procs |-> IF p = InitProc THEN alloc(NewAllocator) ELSE NewAllocator]
  /\ PID2PCB = {InitProc}
  /\ pids = alloc(NewAllocator)
  /\ kstacks = alloc(NewAllocator)
  /\ pins = [p \in Procs |-> 0]
  /\ stranded = {}
  /\ exiting = NoTcb
  /\ panicked = FALSE

Tids == 0..MaxTid
HasTcb(p, i) == i + 1 \in DOMAIN tasks[p] /\ tasks[p][i + 1] # NoTcb
At(p, i) == tasks[p][i + 1].at
Kstack(p, i) == tasks[p][i + 1].kstack

\* Thread i of p, in user mode, makes a system call.
Calls(p, i) ==
  /\ ~panicked /\ exiting = NoTcb
  /\ status[p] = "live" /\ HasTcb(p, i) /\ At(p, i) = "user"

MovesTo(p, i, point) == tasks' = [tasks EXCEPT ![p][i + 1].at = point]

\* Arc::strong_count of a PCB that has been taken out of its parent's list.
OtherArcs(p) ==
  (IF p \in PID2PCB THEN 1 ELSE 0) + pins[p]
    + Cardinality({i \in Tids : HasTcb(p, i) /\ At(p, i) \in HoldsProcess})

-----------------------------------------------------------------------------
(* Threads                                                                 *)

Suspends(p, i, point) ==
  /\ Calls(p, i) /\ p # InitProc
  /\ MovesTo(p, i, point)
  /\ UNCHANGED <<treeVars, tids, kstacks, leakVars, exiting, panicked>>

Resumes(p, i) ==
  /\ ~panicked /\ exiting = NoTcb
  /\ status[p] = "live" /\ HasTcb(p, i) /\ At(p, i) \in Blocked \cup {"read"}
  /\ MovesTo(p, i, "user")
  /\ UNCHANGED <<treeVars, tids, kstacks, leakVars, exiting, panicked>>

PadTo(s, n) == [k \in 1..(IF Len(s) < n THEN n ELSE Len(s)) |-> IF k <= Len(s) THEN s[k] ELSE NoTcb]

\* The TCB of an exited thread that had the same tid is overwritten, and with it
\* goes its kernel stack.
sys_thread_create(p, i) ==
  LET tid == NextId(tids[p])
      k == NextId(kstacks)
      after == alloc(kstacks)
  IN /\ Calls(p, i) /\ p # InitProc
     /\ tid <= MaxTid /\ k <= MaxKstack
     /\ tids' = [tids EXCEPT ![p] = alloc(@)]
     /\ tasks' = [tasks EXCEPT ![p] = [PadTo(@, tid + 1) EXCEPT ![tid + 1] = Tcb(k)]]
     /\ kstacks' = IF HasTcb(p, tid) THEN dealloc(after, Kstack(p, tid)) ELSE after
     /\ UNCHANGED <<treeVars, leakVars, exiting, panicked>>

\* A caller asks for a tid of its process other than its own; the cases that
\* return -1 or -2 change nothing.
sys_waittid(p, i, tid) ==
  /\ Calls(p, i) /\ tid # i
  /\ HasTcb(p, tid) /\ At(p, tid) = "exited"
  /\ tasks' = [tasks EXCEPT ![p][tid + 1] = NoTcb]
  /\ kstacks' = dealloc(kstacks, Kstack(p, tid))
  /\ UNCHANGED <<treeVars, tids, leakVars, exiting, panicked>>

\* exit_current_and_run_next of a thread that is not the main thread: its
\* TaskUserRes is dropped at once, and with it the tid.
ThreadExits(p, i) ==
  /\ Calls(p, i) /\ i # 0
  /\ MovesTo(p, i, "exited")
  /\ tids' = [tids EXCEPT ![p] = dealloc(@, i)]
  /\ UNCHANGED <<treeVars, kstacks, leakVars, exiting, panicked>>

-----------------------------------------------------------------------------
(* Processes                                                               *)

\* fork asserts that the tasks vector has one entry.  The init process forks
\* once, before anything else.
fork(p, i, c) ==
  /\ Calls(p, i) /\ Len(tasks[p]) = 1
  /\ p = InitProc => pids.current = 1
  /\ status[c] = "none" /\ NextId(kstacks) <= MaxKstack
  /\ status' = [status EXCEPT ![c] = "live"]
  /\ pid' = [pid EXCEPT ![c] = NextId(pids)]
  /\ pids' = alloc(pids)
  /\ parent' = [parent EXCEPT ![c] = p]
  /\ children' = [children EXCEPT ![p] = Append(@, c), ![c] = <<>>]
  /\ PID2PCB' = PID2PCB \cup {c}
  /\ tids' = [tids EXCEPT ![c] = alloc(NewAllocator)]
  /\ tasks' = [tasks EXCEPT ![c] = <<Tcb(NextId(kstacks))>>]
  /\ kstacks' = alloc(kstacks)
  /\ UNCHANGED <<leakVars, exiting, panicked>>

\* An exit that sets the parent of the children and forgets the other list.
Orphans_forgotten(p) ==
  /\ parent' = [c \in Procs |-> IF c \in Range(children[p]) THEN InitProc ELSE parent[c]]
  /\ children' = [children EXCEPT ![p] = <<>>]

\* The children of a process that exits become children of INITPROC.
Reparent(p) ==
  /\ parent' = [c \in Procs |-> IF c \in Range(children[p]) THEN InitProc ELSE parent[c]]
  /\ children' = [children EXCEPT ![InitProc] = @ \o children[p], ![p] = <<>>]

\* remove_inactive_task takes a thread out of the ready queue and the timers, and
\* nothing takes it out of a wait queue.
Dropped(p) == {i \in Tids : HasTcb(p, i) /\ At(p, i) \notin Blocked}
StrandedBy(p) == {<<p, Kstack(p, i)>> : i \in {j \in Tids : HasTcb(p, j) /\ At(p, j) \in Blocked}}

\* A bug: the map keeps its Arc.
remove_from_pid2process_never(p) == UNCHANGED PID2PCB
remove_from_pid2process(p) == PID2PCB' = PID2PCB \ {p}

\* exit_current_and_run_next of the main thread, up to the call of schedule.  The
\* kernel stacks are freed in the order of the vector, that of the caller first.
ProcessExits(p) ==
  /\ Calls(p, 0) /\ p # InitProc
  /\ status' = [status EXCEPT ![p] = "zombie"]
  /\ remove_from_pid2process(p)
  /\ Reparent(p)
  /\ \E order \in Bijection(1..Cardinality(Dropped(p)), Dropped(p)) :
       /\ \A j, k \in DOMAIN order : j < k => order[j] < order[k]
       /\ kstacks' = [kstacks EXCEPT !.recycled =
                        @ \o [k \in DOMAIN order |-> Kstack(p, order[k])]]
  /\ stranded' = stranded \cup StrandedBy(p)
  /\ pins' = [pins EXCEPT ![p] =
                @ + Cardinality({i \in Tids : HasTcb(p, i) /\ At(p, i) \in HoldsProcess})]
  /\ tasks' = [tasks EXCEPT ![p] = <<>>]
  /\ tids' = [tids EXCEPT ![p] = NewAllocator]
  /\ exiting' = Kstack(p, 0)
  /\ UNCHANGED <<pid, pids, panicked>>

schedule ==
  /\ exiting # NoTcb
  /\ exiting' = NoTcb
  /\ UNCHANGED <<treeVars, taskVars, leakVars, panicked>>

\* A waitpid that takes -1 for a pid.
Found_exact(p, any, n) ==
  {k \in DOMAIN children[p] :
     status[children[p][k]] = "zombie" /\ pid[children[p][k]] = n}

\* The zombies of the children list that match; `any' is pid == -1.
Found(p, any, n) ==
  {k \in DOMAIN children[p] :
     LET c == children[p][k]
     IN status[c] = "zombie" /\ (any \/ pid[c] = n)}

Without(s, k) == [j \in 1..(Len(s) - 1) |-> IF j < k THEN s[j] ELSE s[j + 1]]

\* It takes the first one; the calls that return -1 or -2 change nothing.
sys_waitpid(p, i, any, n) ==
  /\ Calls(p, i)
  /\ p = InitProc => any
  /\ \E k \in Found(p, any, n) :
       LET c == children[p][k]
       IN  /\ \A j \in Found(p, any, n) : k <= j
           /\ children' = [children EXCEPT ![p] = Without(@, k)]
           /\ \/ /\ OtherArcs(c) = 0
                 /\ status' = [status EXCEPT ![c] = "none"]
                 /\ pids' = dealloc(pids, pid[c])
                 /\ pid' = [pid EXCEPT ![c] = 0]
                 /\ parent' = [parent EXCEPT ![c] = NoProc]
                 /\ UNCHANGED panicked
              \/ /\ OtherArcs(c) # 0
                 /\ panicked' = TRUE
                 /\ UNCHANGED <<status, pids, pid, parent>>
  /\ UNCHANGED <<PID2PCB, taskVars, leakVars, exiting>>

Next ==
  \/ \E p \in Procs, i \in Tids :
       \/ \E point \in {"lock", "down", "read"} : Suspends(p, i, point)
       \/ Resumes(p, i)
       \/ sys_thread_create(p, i)
       \/ \E tid \in Tids : sys_waittid(p, i, tid)
       \/ ThreadExits(p, i)
       \/ \E c \in Procs : fork(p, i, c)
       \/ \E any \in BOOLEAN, c \in Procs : sys_waitpid(p, i, any, pid[c])
  \/ \E p \in Procs : ProcessExits(p)
  \/ schedule

Spec == Init /\ [][Next]_vars

\* The init process waits for any child for ever, between the steps of others
\* (the FIFO scheduler comes back to it), and an exit runs to its end.
Fairness == SF_vars(sys_waitpid(InitProc, 0, TRUE, 0)) /\ WF_vars(schedule)

FairSpec == Spec /\ Fairness

-----------------------------------------------------------------------------
(* Properties                                                              *)

\* No process is lost and none has two parents: every process but INITPROC is
\* exactly once in one children list, that of its parent, which is alive to wait
\* for it.  exit_current_and_run_next moves the children and sys_waitpid removes
\* them by position, in lists that other exits have changed.
FamilyTree ==
  /\ TypeOK
  /\ ~panicked =>
       /\ \A p \in Procs : IsInjective(children[p])
       /\ \A c, p \in Procs : c \in Range(children[p])
                               <=> c # InitProc /\ status[c] # "none" /\ parent[c] = p
       /\ \A c \in Procs \ {InitProc} :
            status[c] # "none" => parent[c] # NoProc /\ status[parent[c]] = "live"

Threads == {e \in Procs \X Tids : HasTcb(e[1], e[2])}
Allocated == {p \in Procs : status[p] # "none"}

\* No id is shared or given out while in use: no two processes have one pid and
\* no two threads one kernel stack, whatever the order in which exit, waitpid,
\* waittid and a reused tid give ids back, so that the asserts of
\* RecycleAllocator::dealloc hold.  And ids are lost in one way only: a kernel
\* stack without a thread is that of a thread which was blocked in a wait queue
\* when its process exited (StacksFreedWithProcess is about those).
IdsAccountedFor ==
  /\ InUse(pids) = {pid[p] : p \in Allocated}
  /\ \A p, q \in Allocated : pid[p] = pid[q] => p = q
  /\ InUse(kstacks) = {Kstack(e[1], e[2]) : e \in Threads} \cup {e[2] : e \in stranded}
  /\ \A e, f \in Threads : Kstack(e[1], e[2]) = Kstack(f[1], f[2]) => e = f
  /\ \A e, f \in stranded : e[2] = f[2] => e = f
  /\ \A e \in Threads, f \in stranded : Kstack(e[1], e[2]) # f[2]
  /\ \A p \in Procs : status[p] = "live" =>
       InUse(tids[p]) = {i \in Tids : HasTcb(p, i) /\ At(p, i) # "exited"}

\* A zombie left to INITPROC is reaped, although other processes are handed over
\* and die all the time: waitpid takes the first zombie of the list and new
\* children come last.
OrphanReaped ==
  \A c \in Procs :
    (status[c] = "zombie" /\ parent[c] = InitProc) ~> (status[c] = "none" \/ panicked)

\* The assertion of sys_waitpid ("confirm that child will be deallocated after
\* being removed from children list") fails for one reason only: a process exited
\* while a thread of it was inside a call that keeps an Arc of the process on its
\* kernel stack.  Such a process is a zombie for ever, and nothing else, neither
\* PID2PCB nor a thread that has exited or is blocked on a mutex, holds one back.
PanicIsLeftArc ==
  /\ \A c \in Procs : pins[c] # 0 => status[c] = "zombie"
  /\ panicked => \E c \in Procs : pins[c] # 0

\* "The blocked tasks are removed when the PCB is deallocated" (task/mod.rs:136):
\* no process that is gone has left a kernel stack behind.
StacksFreedWithProcess == \A e \in stranded : status[e[1]] # "none"
=============================================================================
