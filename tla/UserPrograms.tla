---------------------------- MODULE UserPrograms ----------------------------
(***************************************************************************)
(* The test programs of user/src/bin that synchronise threads, running on  *)
(* KernelSync: the adders, mpsc_sem, barrier_condvar, condsync_condvar and *)
(* sync_sem, with the wrappers and the retry loop of user/src/lib.rs and   *)
(* thread_create, waittid and exit of the kernel.                          *)
(*                                                                         *)
(* A program is a sequence of instructions for each thread.  An            *)
(* instruction is a system call or one access to static memory, and the    *)
(* timer may take the processor away between any two.  Jumps are relative. *)
(***************************************************************************)
EXTENDS KernelSync, RecycleAllocator

CONSTANTS
  Main,         \* the main thread of the program
  Workers,      \* the TCBs of the other threads, in the order of creation
  Programs,     \* the programs to run, by name
  THREAD_COUNT, \* threads of an adder
  PER_THREAD,   \* rounds of a thread of an adder
  PRODUCER_COUNT, NUMBER_PER_PRODUCER,   \* of mpsc_sem
  THREAD_NUM,   \* threads of barrier_condvar
  BUFFER_SIZE   \* of mpsc_sem

VARIABLES
  program,  \* the program that runs
  pc,       \* the next instruction of each thread
  rounds,   \* how often each thread has gone through its loop
  cur,      \* the local variable `cur' of critical_section
  mem,      \* the static variables
  tids,     \* task_res_allocator of the process
  tasks,    \* tasks of the process: thread id -> TCB
  v,        \* the vector of thread ids in main
  exited,   \* the threads that have exited
  out       \* history: what each thread has printed, what is put and not taken

localVars == <<pc, rounds, cur, mem, out>>
threadVars == <<tids, tasks, v, exited>>
allVars == <<vars, program, localVars, threadVars>>

Threads == {Main} \cup Range(Workers)
Tids == 0 .. Len(Workers)
Barriers == {"AB", "BC"}
BarrierMutex == [AB |-> "AB.mutex", BC |-> "BC.mutex"]
BarrierCondvar == [AB |-> "AB.condvar", BC |-> "BC.condvar"]

ASSUME ProgramsAssumption ==
  /\ Threads \subseteq Tasks \ {InitProc}
  /\ IsInjective(Workers) /\ Main \notin Range(Workers)
  /\ \A n \in {THREAD_COUNT, PER_THREAD, PRODUCER_COUNT, NUMBER_PER_PRODUCER, THREAD_NUM,
               BUFFER_SIZE} : n \in Nat \ {0}
  /\ \A n \in {2, THREAD_COUNT, PRODUCER_COUNT + 1, THREAD_NUM} : n <= Len(Workers)

-----------------------------------------------------------------------------
(* The programs                                                            *)

\* The read and the write of A, with a computation between them.
critical_section == << <<"load_A">>, <<"store_A">> >>

\* An adder that releases the lock before it writes.
adder_early(acquire, release) ==
  acquire \o << <<"load_A">> >> \o release \o << <<"store_A">> >>
    \o << <<"loop", Len(acquire \o release) + 2, PER_THREAD>>, <<"exit">> >>

\* f of the adders, for the lock that they test.
adder(acquire, release) ==
  acquire \o critical_section \o release
    \o << <<"loop", Len(acquire \o release) + 2, PER_THREAD>>, <<"exit">> >>

adder_mutex(m) == adder(<< <<"mutex_lock", m>> >>, << <<"mutex_unlock", m>> >>)

adder_atomic ==
  adder(<< <<"compare_exchange">>, <<"yield_back">> >>, << <<"release">> >>)

producer(id) ==
  << <<"semaphore_down", "produce">>, <<"semaphore_down", "mutex">>,
     <<"put", id>>, <<"advance_tail">>,
     <<"semaphore_up", "mutex">>, <<"semaphore_up", "consume">>,
     <<"loop", 6, NUMBER_PER_PRODUCER>>, <<"exit">> >>

\* A consumer that gives the room back before it has read the item.
consumer_frees_first ==
  << <<"semaphore_down", "consume">>, <<"semaphore_up", "produce">>,
     <<"semaphore_down", "mutex">>, <<"take">>, <<"advance_front">>,
     <<"semaphore_up", "mutex">>,
     <<"loop", 6, PRODUCER_COUNT * NUMBER_PER_PRODUCER>>, <<"exit">> >>

consumer ==
  << <<"semaphore_down", "consume">>, <<"semaphore_down", "mutex">>,
     <<"take">>, <<"advance_front">>,
     <<"semaphore_up", "mutex">>, <<"semaphore_up", "produce">>,
     <<"loop", 6, PRODUCER_COUNT * NUMBER_PER_PRODUCER>>, <<"exit">> >>

\* The first use of a lazy_static barrier creates it, under a spinning Once.
lazy_barrier(b) ==
  << <<"once", b, 4>>, <<"mutex_create", BarrierMutex[b]>>,
     <<"condvar_create", BarrierCondvar[b]>>, <<"once_done", b>> >>

\* A barrier where every thread wakes the waiters, not only the last one.
block_wakes_early(b) ==
  << <<"mutex_lock", BarrierMutex[b]>>, <<"load_count", b>>, <<"store_count", b>>,
     <<"condvar_signal_all", BarrierCondvar[b]>>,
     <<"unless_last", b, 2>>, <<"jump", 2>>,
     <<"condvar_wait", BarrierCondvar[b], BarrierMutex[b]>>,
     <<"mutex_unlock", BarrierMutex[b]>> >>

\* Barrier::block
block(b) ==
  << <<"mutex_lock", BarrierMutex[b]>>, <<"load_count", b>>, <<"store_count", b>>,
     <<"unless_last", b, 3>>,
     <<"condvar_signal_all", BarrierCondvar[b]>>, <<"jump", 2>>,
     <<"condvar_wait", BarrierCondvar[b], BarrierMutex[b]>>,
     <<"mutex_unlock", BarrierMutex[b]>> >>

\* thread_fn with two barriers of the four.
thread_fn ==
  << <<"print">> >> \o lazy_barrier("AB") \o block("AB")
    \o << <<"print">> >> \o lazy_barrier("BC") \o block("BC")
    \o << <<"print">>, <<"exit">> >>

condsync_first ==
  << <<"sleep", 1>>, <<"print">>, <<"mutex_lock", "blocking">>, <<"set_A">>,
     <<"condvar_signal", "condvar">>, <<"mutex_unlock", "blocking">>, <<"exit">> >>

condsync_second ==
  << <<"mutex_lock", "blocking">>, <<"unless_zero", 3>>,
     <<"condvar_wait", "condvar", "blocking">>, <<"jump", -2>>,
     <<"print">>, <<"mutex_unlock", "blocking">>, <<"exit">> >>

\* First lets Second go and works afterwards.
sync_first_early == << <<"sleep", 1>>, <<"semaphore_up", "sync">>, <<"print">>, <<"exit">> >>

sync_first == << <<"sleep", 1>>, <<"print">>, <<"semaphore_up", "sync">>, <<"exit">> >>
sync_second == << <<"semaphore_down", "sync">>, <<"print">>, <<"exit">> >>

Creates ==
  [adder_mutex_blocking |-> << <<"mutex_create", "blocking">> >>,
   adder_mutex_spin     |-> << <<"mutex_create", "spin">> >>,
   adder_atomic         |-> <<>>,
   mpsc_sem             |-> << <<"semaphore_create", "mutex", 1>>,
                               <<"semaphore_create", "produce", BUFFER_SIZE>>,
                               <<"semaphore_create", "consume", 0>> >>,
   barrier_condvar      |-> <<>>,
   condsync_condvar     |-> << <<"condvar_create", "condvar">>,
                               <<"mutex_create", "blocking">> >>,
   sync_sem             |-> << <<"semaphore_create", "sync", 0>> >>]

Threads_of ==
  [adder_mutex_blocking |-> [k \in 1..THREAD_COUNT |-> adder_mutex("blocking")],
   adder_mutex_spin     |-> [k \in 1..THREAD_COUNT |-> adder_mutex("spin")],
   adder_atomic         |-> [k \in 1..THREAD_COUNT |-> adder_atomic],
   mpsc_sem             |-> Append([k \in 1..PRODUCER_COUNT |-> producer(k)], consumer),
   barrier_condvar      |-> [k \in 1..THREAD_NUM |-> thread_fn],
   condsync_condvar     |-> <<condsync_first, condsync_second>>,
   sync_sem             |-> <<sync_first, sync_second>>]

\* The loop of waittid in user/src/lib.rs: yield while it returns -2.
waittids(n) ==
  [i \in 1 .. 2 * n |-> IF i % 2 = 1 THEN <<"waittid", (i + 1) \div 2>> ELSE <<"yield_back">>]

thread_creates(n) == [k \in 1..n |-> <<"thread_create", k>>]

\* main: create the kernel objects and the threads, and wait for the threads.
main(p) ==
  Creates[p] \o thread_creates(Len(Threads_of[p]))
    \o waittids(Len(Threads_of[p])) \o << <<"assert">>, <<"exit">> >>

Code ==
  [p \in Programs |-> [k \in 0 .. Len(Threads_of[p]) |->
     IF k = 0 THEN main(p) ELSE Threads_of[p][k]]]

\* The program has been started: its main thread has thread id 0.
ProgramInit ==
  /\ \E order \in Bijection(1..2, {InitProc, Main}) : SchedInit(order)
  /\ SyncInit
  /\ program \in Programs
  /\ pc = [t \in Threads |-> 1]
  /\ rounds = [t \in Threads |-> 0]
  /\ cur = [t \in Threads |-> 0]
  /\ mem = [A |-> 0, OCCUPIED |-> FALSE, BUFFER |-> [i \in 0 .. BUFFER_SIZE - 1 |-> NoObj],
            FRONT |-> 0, TAIL |-> 0, once |-> [b \in Barriers |-> "new"],
            count |-> [b \in Barriers |-> 0]]
  /\ tids = alloc(NewAllocator)
  /\ tasks = [i \in Tids |-> IF i = 0 THEN Main ELSE NoTask]
  /\ v = <<>>
  /\ exited = {}
  /\ out = [printed |-> [t \in Threads |-> 0], put |-> <<>>]

-----------------------------------------------------------------------------
(* Instructions                                                            *)

Number(t) == IF t = Main THEN 0 ELSE CHOOSE k \in DOMAIN Workers : Workers[k] = t
Instr(t) == Code[program][Number(t)][pc[t]]
At(t, name) == t \in Threads \ exited /\ Calls(t) /\ Instr(t)[1] = name
Arg(t) == Instr(t)[2]
Jump(t, offset) == pc' = [pc EXCEPT ![t] = @ + offset]

\* The system calls of KernelSync.
Syscall(t) ==
  /\ \/ At(t, "mutex_create") /\ sys_mutex_create(t, Arg(t))
     \/ At(t, "semaphore_create") /\ sys_semaphore_create(t, Arg(t), Instr(t)[3])
     \/ At(t, "condvar_create") /\ sys_condvar_create(t, Arg(t))
     \/ At(t, "mutex_lock") /\ sys_mutex_lock(t, Arg(t))
     \/ At(t, "mutex_unlock") /\ sys_mutex_unlock(t, Arg(t))
     \/ At(t, "semaphore_up") /\ sys_semaphore_up(t, Arg(t))
     \/ At(t, "semaphore_down") /\ sys_semaphore_down(t, Arg(t))
     \/ At(t, "condvar_signal") /\ sys_condvar_signal(t, Arg(t))
     \/ At(t, "condvar_signal_all") /\ sys_condvar_signal_all(t, Arg(t))
     \/ At(t, "condvar_wait") /\ sys_condvar_wait(t, Arg(t), Instr(t)[3])
     \/ At(t, "sleep") /\ sys_sleep(t, Arg(t))
  /\ Jump(t, 1)
  /\ UNCHANGED <<rounds, cur, mem, out, threadVars>>

\* yield_ at the end of a loop that tries again.
YieldBack(t) ==
  /\ At(t, "yield_back") /\ sys_yield(t)
  /\ Jump(t, -1)
  /\ UNCHANGED <<rounds, cur, mem, out, threadVars>>

\* The new thread gets the thread id that was given back last, and its TCB takes
\* the place of the one that had it.
sys_thread_create(t) ==
  /\ At(t, "thread_create")
  /\ LET w == Workers[Arg(t)]
         tid == NextId(tids)
     IN /\ ready_queue' = Append(ready_queue, w)
        /\ tids' = alloc(tids)
        /\ tasks' = [tasks EXCEPT ![tid] = w]
        /\ v' = Append(v, tid)
  /\ Jump(t, 1)
  /\ UNCHANGED <<current, task_status, syncVars, timers, now, kont, held>>
  /\ UNCHANGED <<rounds, cur, mem, out, exited>>

\* It returns -1 when there is no such thread, -2 while the thread runs, and
\* the exit code when it has exited; the library tries again after -2.
sys_waittid(t) ==
  /\ At(t, "waittid")
  /\ LET tid == v[Arg(t)]
     IN \/ /\ tasks[tid] \in exited
           /\ tasks' = [tasks EXCEPT ![tid] = NoTask]
           /\ Jump(t, 2)
        \/ /\ tasks[tid] = NoTask
           /\ Jump(t, 2)
           /\ UNCHANGED tasks
        \/ /\ tasks[tid] \notin exited \cup {NoTask}
           /\ Jump(t, 1)
           /\ UNCHANGED tasks
  /\ UNCHANGED <<kernelVars, rounds, cur, mem, out, tids, v, exited>>

\* A thread exits: its thread id is given back at once.
ThreadExits(t) ==
  /\ At(t, "exit") /\ t # Main
  /\ exited' = exited \cup {t}
  /\ tids' = dealloc(tids, CHOOSE i \in Tids : tasks[i] = t)
  /\ current' = NoTask
  /\ UNCHANGED <<ready_queue, task_status, syncVars, timers, now, kont, held>>
  /\ UNCHANGED <<localVars, tasks, v>>

\* remove_inactive_task for every thread of the process.
remove_tasks == SelectSeq(ready_queue, LAMBDA u : u \notin Threads)
remove_timers == {timer \in timers : timer.task \notin Threads}

\* The main thread exits, and the process with it: its threads are taken out of
\* the ready queue and the timers.
ProcessExits(t) ==
  /\ At(t, "exit") /\ t = Main
  /\ exited' = Threads
  /\ ready_queue' = remove_tasks
  /\ timers' = remove_timers
  /\ tasks' = [i \in Tids |-> NoTask]
  /\ current' = NoTask
  /\ UNCHANGED <<task_status, syncVars, now, kont, held>>
  /\ UNCHANGED <<localVars, tids, v>>

Assign(field, value) == mem' = [mem EXCEPT ![field] = value]

\* Static memory of the adders.
Adds(t) ==
  \/ /\ At(t, "load_A") /\ cur' = [cur EXCEPT ![t] = mem.A]
     /\ Jump(t, 1) /\ UNCHANGED mem
  \/ /\ At(t, "store_A") /\ Assign("A", cur[t] + 1)
     /\ Jump(t, 1) /\ UNCHANGED cur
  \/ /\ At(t, "compare_exchange") /\ Assign("OCCUPIED", TRUE)
     /\ Jump(t, IF mem.OCCUPIED THEN 1 ELSE 2) /\ UNCHANGED cur
  \/ /\ At(t, "release") /\ Assign("OCCUPIED", FALSE)
     /\ Jump(t, 1) /\ UNCHANGED cur

\* The ring of mpsc_sem.
MovesItem(t) ==
  \/ /\ At(t, "put")
     /\ Assign("BUFFER", [mem.BUFFER EXCEPT ![mem.TAIL] = Arg(t)])
     /\ out' = [out EXCEPT !.put = Append(@, Arg(t))]
  \/ /\ At(t, "take")
     /\ out' = [out EXCEPT !.put = Tail(@)]
     /\ UNCHANGED mem
  \/ /\ At(t, "advance_tail") /\ Assign("TAIL", (mem.TAIL + 1) % BUFFER_SIZE)
     /\ UNCHANGED out
  \/ /\ At(t, "advance_front") /\ Assign("FRONT", (mem.FRONT + 1) % BUFFER_SIZE)
     /\ UNCHANGED out

\* Static memory of the barrier: spin::Once, and the count.
UsesBarrier(t) ==
  \/ /\ At(t, "once") /\ mem.once[Arg(t)] = "new"
     /\ Assign("once", [mem.once EXCEPT ![Arg(t)] = "running"])
     /\ Jump(t, 1) /\ UNCHANGED cur
  \/ /\ At(t, "once") /\ mem.once[Arg(t)] = "done"
     /\ Jump(t, Instr(t)[3]) /\ UNCHANGED <<mem, cur>>
  \/ /\ At(t, "once_done")
     /\ Assign("once", [mem.once EXCEPT ![Arg(t)] = "done"])
     /\ Jump(t, 1) /\ UNCHANGED cur
  \/ /\ At(t, "load_count") /\ cur' = [cur EXCEPT ![t] = mem.count[Arg(t)]]
     /\ Jump(t, 1) /\ UNCHANGED mem
  \/ /\ At(t, "store_count")
     /\ Assign("count", [mem.count EXCEPT ![Arg(t)] = cur[t] + 1])
     /\ Jump(t, 1) /\ UNCHANGED cur
  \/ /\ At(t, "unless_last")
     /\ Jump(t, IF mem.count[Arg(t)] = THREAD_NUM THEN 1 ELSE Instr(t)[3]) /\ UNCHANGED <<mem, cur>>

\* The rest: the flag A of condsync_condvar, jumps, and printing.
Control(t) ==
  \/ /\ At(t, "set_A") /\ Assign("A", 1)
     /\ Jump(t, 1) /\ UNCHANGED <<rounds, out>>
  \/ /\ At(t, "unless_zero") /\ Jump(t, IF mem.A # 0 THEN Arg(t) ELSE 1)
     /\ UNCHANGED <<rounds, mem, out>>
  \/ /\ At(t, "jump") /\ Jump(t, Arg(t))
     /\ UNCHANGED <<rounds, mem, out>>
  \/ /\ At(t, "loop")
     /\ rounds' = [rounds EXCEPT ![t] = @ + 1]
     /\ Jump(t, IF rounds[t] + 1 < Instr(t)[3] THEN -Arg(t) ELSE 1)
     /\ UNCHANGED <<mem, out>>
  \/ /\ At(t, "print") /\ out' = [out EXCEPT !.printed[t] = @ + 1]
     /\ Jump(t, 1) /\ UNCHANGED <<rounds, mem>>
  \/ /\ At(t, "assert") /\ Jump(t, 1)
     /\ UNCHANGED <<rounds, mem, out>>

Local(t) ==
  /\ \/ Adds(t) /\ UNCHANGED <<rounds, out>>
     \/ MovesItem(t) /\ Jump(t, 1) /\ UNCHANGED <<rounds, cur>>
     \/ UsesBarrier(t) /\ UNCHANGED <<rounds, out>>
     \/ Control(t) /\ UNCHANGED cur
  /\ UNCHANGED <<kernelVars, threadVars>>

\* Two system calls borrow more: sys_waittid the TCB of the thread, which may have
\* an expired timer, and the exit of the process TASK_MANAGER and TIMERS.
ThreadCallPanics(t) ==
  /\ panicked'
  /\ \/ \E timer \in Expired : At(t, "waittid") /\ timer.task = tasks[v[Arg(t)]]
     \/ Main \in exited'

\* A thread of the program executes an instruction.
Step(t) ==
  /\ \/ Syscall(t) \/ YieldBack(t) \/ Local(t)
     \/ sys_thread_create(t) \/ sys_waittid(t) \/ ThreadExits(t) \/ ProcessExits(t)
  /\ Interruptible \/ (~panicked /\ panicked' = TRUE /\ ThreadCallPanics(t))
  /\ UNCHANGED program

-----------------------------------------------------------------------------
Quiet == UNCHANGED <<program, localVars, threadVars>>

\* The clock matters while somebody sleeps.
Kernel ==
  /\ \/ /\ RunTasks \/ sys_yield(InitProc) \/ \E t \in Threads : Continue(t)
        /\ Interruptible
     \/ /\ UserTimerInterrupt \/ KernelTimerInterrupt \/ (timers # {} /\ Tick)
        /\ Uninterrupted
     \/ Halted
  /\ Quiet

ProgramNext == Kernel \/ \E t \in Threads : Step(t)

\* The idle loop looks for tasks, the timer interrupts, time passes and kernel
\* code runs on.  A thread that gets the processor again and again executes an
\* instruction at last: the timer leaves it 10 ms.  A step may end in a panic,
\* and after a panic nothing is due.
ProgramFairness ==
  /\ WF_allVars(RunTasks /\ Interruptible /\ Quiet)
  /\ WF_allVars((UserTimerInterrupt \/ KernelTimerInterrupt) /\ Uninterrupted /\ Quiet)
  /\ WF_allVars(timers # {} /\ Tick /\ Uninterrupted /\ Quiet)
  /\ \A t \in Threads :
       WF_allVars(Continue(t) /\ Interruptible /\ Quiet) /\ SF_allVars(Step(t))

ProgramSpec == ProgramInit /\ [][ProgramNext]_allVars /\ ProgramFairness

-----------------------------------------------------------------------------
(* Properties                                                              *)

\* The programs in which a thread sleeps.
Sleepers == {"condsync_condvar", "sync_sem"}

\* Wherever the timer interrupts, every program comes to its end: no wakeup is
\* lost, nobody waits for ever, and waittid of a thread id that was reused does
\* not wait for a thread that is gone.  A program in which a thread sleeps does
\* so unless the timer meets a borrowed cell and the kernel panics; the others
\* have no timers for it to trip over before they exit.
ProgramEnds == <>(Main \in exited \/ (panicked /\ program \in Sleepers))

\* The init process gets the processor again and again, until the kernel panics,
\* also while threads spin in user mode or in the kernel; it has the zombies to
\* reap.
InitProcRuns == []<>(current = InitProc \/ panicked)

\* The assert at the end of the adders: no increment is lost, and main does not
\* get there before every thread has exited, even if two threads have had the
\* same thread id.
SumsCorrect ==
  Instr(Main)[1] = "assert"
    => /\ {Workers[k] : k \in 1 .. Len(Threads_of[program])} \subseteq exited
       /\ program \in {"adder_mutex_blocking", "adder_mutex_spin", "adder_atomic"}
            => mem.A = PER_THREAD * THREAD_COUNT

\* Nobody passes a barrier before all have come to it, although the condvar wait
\* of Barrier::block is not in a loop (barrier_condvar.rs:30-45).
BarrierHolds ==
  program = "barrier_condvar" =>
    \A j, k \in 1..THREAD_NUM : out.printed[Workers[j]] <= out.printed[Workers[k]] + 1

\* The consumer takes the items in the order in which they were put into the
\* ring, none before it was put or after it was overwritten, and all of them
\* (mpsc_sem.rs:24-48): where it reads the ring it finds the oldest item.
ItemsInOrder ==
  program = "mpsc_sem" =>
    /\ Instr(Workers[PRODUCER_COUNT + 1])[1] = "take"
         => out.put # <<>> /\ mem.BUFFER[mem.FRONT] = Head(out.put)
    /\ Instr(Main)[1] = "assert" => out.put = <<>>

\* Second works after First has, whichever of them comes first to the condvar or
\* the semaphore (condsync_condvar.rs:21-41, sync_sem.rs:14-26).
SecondAfterFirst ==
  program \in {"condsync_condvar", "sync_sem"} =>
    out.printed[Workers[2]] <= out.printed[Workers[1]]
=============================================================================
