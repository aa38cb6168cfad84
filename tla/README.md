# Verification of the tCore kernel

tCore is a small Unix-like kernel for one RISC-V hart, written in Rust: `os/` is the kernel,
`easy-fs/` its disk file system, `user/` the user library and programs. This directory holds TLA+
models of the parts of it that keep state, TLC configurations that check them on small instances,
and TLAPS proofs of the properties that matter most.

## The system

The kernel is **not preemptive**: a system call runs until it blocks, yields or returns. What comes
in between are interrupts. A timer interrupt in user mode suspends the task; in the kernel it only
wakes sleepers. A device interrupt runs its driver's handler and wakes waiting tasks. Interrupts are
on during system calls and off inside the sessions of a driver's cell. The init process forks once
and then calls wait and yield for ever, so the ready queue is never empty for long.

Sources are relative to `src/`.

| Part | State | Operations | What is hard about it |
|---|---|---|---|
| Scheduler (`os/src/task/manager.rs`, `processor.rs`, `mod.rs`) | ready queue, current task | suspend, block, wake up, `run_tasks` | every task in exactly one place |
| Mutexes, semaphores, condvars (`os/src/sync`, `syscall/sync.rs`) | `locked`, `count`, wait queues | create, lock, unlock, up, down, wait, signal, signal_all | hand-over without unlocking; re-locking in `wait` |
| Sleep (`os/src/timer.rs`) | heap of deadlines | `sys_sleep`, `check_timer` | the timer fires before the sleeper blocks |
| Pipes (`os/src/fs/pipe.rs`) | ring buffer, weak reference to the write end | read, write, dup, close, fork, exit | half-done transfers; end of file from reference counts |
| Processes and threads (`os/src/task/process.rs`, `id.rs`, `syscall/{process,thread}.rs`) | family tree, thread vectors, id allocators | fork, exit, waitpid, thread_create, waittid | re-parenting; who owns each `Arc`; id reuse |
| Signals (`os/src/task/{mod,signal,action}.rs`) | pending set, masks, actions, one saved context | kill, sigaction, sigprocmask, sigreturn, `handle_signals` | order of the pass, stop and continue, one backup |
| Memory (`os/src/mm`) | frames, page tables, areas | fork, exec, thread creation and exit, exit, reaping, frame buffer, translation of user buffers | each frame owned once, private memories, page boundaries |
| easy-fs (`easy-fs/src`, `os/src/fs/inode.rs`) | bitmaps, inodes, blocks, open files | open, create, truncate, read, write, close | boundaries of direct and indirect blocks, full disk |
| Devices (`os/src/drivers`, `sync/up.rs`, `trap/mod.rs`, `block_cache.rs`) | masking level, driver buffers, cache, disk | console read, `event_get`, `key_pressed`, block requests, interrupt handlers, eviction, sync | lost wakeups, nested sessions, locks over sleeps |
| Eventfd (`os/src/fs/eventfd.rs`) | counter, wait queue | eventfd, read, write | a count copied before the block and used after it, a `usize` read as `u32` |
| Test programs (`user/src/bin`) | static variables, local state of the threads | adders, `mpsc_sem`, `barrier_condvar`, `condsync_condvar`, `sync_sem` | preemption between any two instructions, over the kernel's own objects |

`PROJECT.json` lists all components, the hazards with their lines, and the source lines behind each
definition.

## Modules

| Module | Models | Notes |
|---|---|---|
| `Scheduler` | `TaskManager`, `Processor` | operators used by `KernelSync` |
| `KernelSync` | synchronisation objects, sleep, timer interrupts | composed with `Scheduler` |
| `UserPrograms` | seven programs of `user/src/bin`, the wrappers of `user/src/lib.rs`, `thread_create`, `waittid`, exit | composed with `KernelSync` |
| `Eventfd` | the eventfd and the tasks that share it | composed with `Scheduler`, refines `EventCounter` |
| `RingBuffer`, `Pipe` | `PipeRingBuffer`; `Pipe` and its descriptors | `Pipe` refines `BoundedFifo` |
| `RecycleAllocator`, `Process` | ids; processes and threads | keeps the owners of each `Arc` |
| `Signals` | one process and its pending signals | its main thread is in user mode, in the kernel or blocked in a call |
| `FrameAllocator`, `Memory` | frames; address spaces | `Memory` refines `AddressSpaces` |
| `UserBuffers` | page table walk, `translated_*`, `UserBufferIterator` | pure operators over the states of `Memory` |
| `EasyFs` | the file system and `OSInode` | refines `FileStore` |
| `Interrupts`, `BlockDriver` | `IntrMaskingInfo`; console, keyboard, mouse, disk, block cache, traps | one read loop for the three input devices |
| `BoundedFifo`, `EventCounter`, `FileStore`, `AddressSpaces` | abstract specifications | no code behind them |
| `Queue_lemmas` | facts about duplicate-free queues | used by the proofs below |
| `KernelSync_proofs`, `Eventfd_proofs`, `Pipe_proofs`, `Signals_proofs`, `Process_proofs` | proofs about `KernelSync`, `Eventfd`, `Pipe`, `Signals`, `Process` | |
| `BlockDriver_lemmas`, `BlockDriver_proofs` | proofs about `BlockDriver` | the invariant and half of its steps; the other half and the theorems |
| `MC*` | constants of the instances | |

An action is a system call or handler, up to the point where the kernel gives up the processor. A
system call that sleeps continues in a second action, and a record per task says where
(`kont` in `KernelSync`, `op` in `Pipe`, `pc` in `BlockDriver`). `BlockDriver` is finer: a step ends
wherever an interrupt may be taken. Variables keep the names of the fields they stand for. A
variable `panicked` records an assertion or panic that ends the system; runs whose system may stop
that way, or when all programs exit, do not check deadlock.

Some definitions that nothing uses are deliberate mistakes: they stand before the definition they
spoil and have its name with a suffix (`Woken_late` before `Woken`). Each property of each passing run
is violated when the right definition is replaced by its mistaken form. The types of `Process`,
`Signals`, `EasyFs`, `Memory` and `BlockDriver` are a conjunct of their first invariant; those of
`KernelSync`, `Pipe` and `Eventfd` are only proved.

## Runs

| Run | Checks | Instance | Distinct states |
|---|---|---|---|
| `sync` | no task lost or duplicated, mutual exclusion, semaphore accounting, first come first served, deadlines in order | 3 threads and init; 2 mutexes, 1 semaphore, 1 condvar; time to 2 | 1,123,427 |
| `programs` | every program ends and init keeps running, up to the panic of the timer; sums, barrier, ring and order are right | 7 programs, 2 or 3 threads each, ring of 2 | 467,960 |
| `pipe` | refines the FIFO, readers see the end, a reader and a writer do not both wait for ever | 2 processes, 3 threads, ring of 2 bytes, 3 bytes sent | 264,384 |
| `process` | the family tree, ids have one owner, orphans are reaped, the assertion of `sys_waitpid` fails for one reason only | init and 2 processes, 2 threads each | 314,586 |
| `signals` | the context is kept unless handlers nest, signals are consumed by handlers, no instruction after a fatal signal, continue works | 7 signals, 3 actions, 2 masks | 692,358 |
| `easyfs` | blocks have one owner and assertions hold, refines byte strings | 2 files, 2 open files, 13 blocks of 2 slots | 34,202 |
| `memory` | frames have one owner, page tables agree with areas, refines private memories, buffers are translated byte for byte | 2 processes, 20 frames, 7 calls, pages of 2 bytes | 202,770 |
| `devices` | masking is exact, cache transparent, writes durable, `event_get` never sleeps, input is delivered, calls return | 5 pairs of readers, pollers and a file user, init; cache of 2, 4 blocks, up to 3 characters | 148,263 |
| `eventfd` | a reader is in one place, no wakeup is lost, refines the counter, a value is read | 3 tasks, `u32` of 2 binary digits, count to 6 | 57,960 |
| `process_kstack` | violated: the kernel stacks of a process are freed by the time it is reaped | as `process` | |
| `signals_kill` | violated: a stopped process that is sent SIGKILL exits | 4 signals | |
| `devices_spin` | violated: a task that sleeps on the disk continues | 2 file users | |

### Bounds

Each bound is small, and chosen so that the interesting case happens.

- `sync`: with three threads one holds, one waits and a third barges in. Deadlines 0 and 1 expire in
  one tick or in two.
- `programs`: the real programs, with fewer threads and rounds. Two rounds of two threads lose an
  increment if they can; three threads at two barriers overtake each other if they can. Two producers
  put two items each into a ring of two, so that the indices wrap, the ring is full while a producer
  still has an item, and two items are in it at once.
- `eventfd`: the count passes the width of its `u32` while readers wait.
- `pipe`: a buffer of three bytes does not fit into the ring of two, so every long write suspends
  itself and the ring wraps.
- `process`: with three processes a grandchild is re-parented. Two threads per process are enough to
  reuse a tid while its old thread is not yet waited for.
- `easyfs`: one direct block and two entries per index block, so that one write crosses a boundary
  and two reach the double indirect block. The data area is too small for both files.
- `memory`: 20 frames are too few for two processes with two threads each. `MaxCalls` bounds the
  history, because the order of recycled frames is part of the state. The image of two pages of two
  bytes has buffers that start, end and cross at every offset.
- `devices`: a write of two blocks with a cache of two entries, one of them pinned by the inode,
  evicts a block the same call has modified. A scenario is a pair of tasks beside init: two readers
  of one device, two pollers, or one of each kind, so that an interrupt meets every step of both.

### Fairness

- The idle loop and running kernel code go on (weak fairness): the hart executes.
- Time passes and the timer keeps firing: `set_next_trigger` re-arms it on every tick.
- A suspended task runs again (strong fairness in `Pipe` and for the init process in `Process`):
  the queue is FIFO. `programs` checks this of the scheduler itself as `InitProcRuns`.
- `programs`: `RunTasks`, the timer, the clock while somebody sleeps and the kernel path of a thread
  go on (weak), and a thread that gets the processor again and again executes an instruction before
  the next tick at some time (strong).
- `devices`: the disk answers every request. Readers and pollers that get the processor again
  and again make their call before the tick at some time, and the tick meets a file user or a poller
  in user mode at some time.
- `eventfd`: the idle loop, the timer in user mode and a reader that runs again go on (weak).
- After a panic the machine stops, and nothing is due: `Halted` is the only step. Which step meets the
  panic is nobody's choice, so fairness never asks for it and never rules it out.
- `signals`: a program in user mode traps or blocks (the timer), and `handle_signals` goes on. Nothing
  is assumed of a blocked call, because the code wakes nobody for a signal.

### Assumptions on programs

`KernelSync`: a thread unlocks only what it holds, and does not lock twice. `Signals`: `sigreturn`
is called from a handler only. Nothing is assumed of the masks of handlers.

## What the violated runs show

- `process_kstack`: the comment in `exit_current_and_run_next` says that blocked tasks are removed when
  the PCB is deallocated. The `Arc` of a thread blocked on a mutex or a semaphore is also in the wait queue,
  which the stack itself keeps alive, so its kernel stack is never given back.
- `signals_kill`: the pass over pending signals stops at a user signal without a handler, so a
  stopped process does not see SIGKILL behind it.
- `devices_spin`: easy-fs holds a spin lock while its caller sleeps on the disk. A second task that
  enters the file system spins in the kernel for ever.

### What the passing runs allow

Four properties hold up to something the code does, which the runs reach:

- `PanicIsLeftArc`: a thread asleep in `sys_semaphore_down`, `sys_condvar_wait` or a pipe keeps an `Arc`
  of its process on its kernel stack. The main thread's exit removes that thread without unwinding the
  stack, so the count never falls to one and the parent's `waitpid` panics at its assertion.
- `ContextKept`: a handler whose action does not mask a second signal, as with the default action of the
  user library, is interrupted by that signal's handler. `call_user_signal_handler` then saves the
  context of the first handler over that of the program, and the program never continues.
- `ProgramEnds` and `InitProcRuns`: `check_timer` borrows the heap of timers, the sleeper's TCB and the
  ready queue, and the calls it interrupts borrow them without masking interrupts. The second borrow
  panics. `ProgramEnds` allows this only to `condsync_condvar` and `sync_sem`, the programs that sleep.

The liveness properties of `devices` have the same exception: `TASK_MANAGER` is borrowed with interrupts
on, in the idle loop or in `sys_yield`, while a device interrupt wakes a task.

## Proofs

`KernelSync_proofs` proves, for any finite set of tasks and any sets of mutexes, semaphores and
condvars (`SyncAssumption`, `NoTaskAssumption`):

- `TypeCorrect`, `TasksAccountedFor` (`NoTaskLost`), `NothingQueuedTwice` (`NoTaskTwice`),
  `MutexesCorrect` (`MutualExclusion`), `LockedFlagExact` (`LockedAgrees`), `SemaphoresCorrect`
  (`SemaphoreAccounting`), `FirstComeFirstServed` (`NoBarging`) and `SleepersWakeInOrder`
  (`DeadlineOrder`).

They rest on the inductive invariant `IInv`, the conjunction of these invariants and `SleepEntry`.
None is inductive alone. Mutual exclusion needs to know that a waiter is in one queue only, so that
a hand-over reaches the thread that asked for this mutex. That a task is in one place needs
`LockedAgrees`, because a free mutex must have an empty queue. `SleepEntry` covers the timer that
fires between `add_timer` and the block. There is one lemma per action. `Queue_lemmas` has the facts
about duplicate-free queues (`Append`, `Head`, `Tail`, concatenation); what a step of the scheduler
does to the ready queue is stated first, here and in `Eventfd_proofs`.

`Pipe_proofs` proves, for a ring of any size and any processes, threads and buffers, that every
variable keeps its type (`TypeCorrect`) and that the pipe implements `BoundedFifo` (`PipeIsFifo`).
The invariant adds to the types that the status agrees with the indices (`StatusAgrees`) and that
the budget of a round never exceeds what the ring has (`LoopWithinRing`), which is why `read_byte`
and `write_byte` need no check of their own.

`Eventfd_proofs` proves, for any finite set of tasks and any width of the `u32`, that a reader is in
one place (`ReadersInOnePlace`), that no wakeup is lost (`WakeupsArrive`) and that the eventfd
implements `EventCounter` (`EventfdIsCounter`). The abstract counter is the count modulo the `u32`, so
the proof begins with lemmas on remainders. The invariant joins both facts with the types and
`Unused`, nobody waits before the eventfd exists: a lost wakeup is excluded only if a woken reader is
on its way to the processor and nowhere else.

`Signals_proofs` proves, for any set of actions and masks:

- `TypeCorrect`, and `NothingAfterFatal` (`FatalRunsNothing`): in user mode no fatal signal is pending;
- `ContextsKept` (`ContextKept`): only a handler that starts inside a handler loses the context of the
  program;
- `MaskedProgramsKept`: a program whose running handlers mask every user signal never loses its context,
  which is how handlers have to be written for this kernel;
- `SignalsConsumed` (`SignalConsumedByHandler`): a user signal leaves the pending set only when its
  handler starts.

The invariant joins the types and `FatalRunsNothing` with `BackupTaken`: while the thread is not in
its main program, there is a saved context. `MaskedProgramsKept` rests on the same step: `handling_sig`
names the running handler, and the mask of its action keeps a second one from starting over the one
backup.

`Process_proofs` proves, for any set of processes and any `MaxTid` and `MaxKstack`
(`ProcessAssumption`: the init process is one of them, and the two markers `NoProc` and `NoTcb` are
neither a process nor a TCB):

- `EveryProcessHasALiveParent` (`FamilyTree`) and `EveryIdHasOneOwner` (`IdsAccountedFor`: an id in use
  has one owner, where a stack stranded with a blocked thread counts as an owner of its own);
- `NothingIsFreedTwice`: the asserts of `RecycleAllocator::dealloc` hold in all allocators;
- `PanicHasOneCause` (`PanicIsLeftArc`): if the assertion of `sys_waitpid` fails, some process exited
  while a thread of it was in a call that keeps an `Arc` of the process, and a process that did so is
  never deallocated.

The invariant `IInv` says who owns what; TLC checks it on the instance of `process` before it is
proved. `Lives` says that a process that is not alive has no threads: a PCB that is reused starts
empty, and a zombie holds no kernel stack. `Listed` says that
`PID2PCB` holds exactly the live processes, which makes the count of a zombie's `Arc`s the number left
on freed stacks. `AllocatorsOK` says that what was given back was given out and is there once. The
kernel stacks need all their cases together: a new thread may overwrite the TCB of an exited one with
its tid, and then one step gives out a stack and takes one back; an exit frees the stacks of some
threads and strands those of the blocked ones. That the overwritten thread has exited follows from the
tids (`TidsOwned`). After the panic of `sys_waitpid` the tree is no longer claimed, and the ids still
are: the child has left its parent's list and keeps its pid.

`BlockDriver_proofs` proves, for any finite sets of readers, pollers and users of files, any scenario,
any data blocks and calls and any cache of two blocks or more (`DeviceAssumption`; a call of the model
holds the block of the inode while it gets another, so one entry would be too few):

- `MaskingExact` (`SessionsMasked`), `CacheIsTransparent` (`CacheTransparent`), `WritesAreDurable`
  (`WritesDurable`) and `EventGetNeverSleeps` (`EventGetAnswers`).

One inductive invariant, `IInv` of `BlockDriver_lemmas`, carries the four. `Masked` and `InOnePlace` say
where a task is: a session belongs to the current task, and a task is in at most one of the ready queue,
a condition variable, the requests in flight and the used ring. `OneInside` says that the holder of the
lock of the file system is the only task with a request; without it a read could bring an old copy of a
block into the cache while another task writes it back. `CallsReady` says what a call has before its
next step: the block it works on is cached, and a block that is being read has kept its room, although
the caller slept. `ContentsKept` says where the contents of a block are: unmodified on the disk, or
modified in the cache, or on the way to the disk. `EventSeen` says that no interrupt and no other poller
takes the event that a poller has seen, which holds because nothing switches tasks between the two
sessions. TLC checks `IInv` on the instances of both runs before it is proved.

Only model-checked:

- All liveness properties: liveness under fairness is beyond the proof system as installed.
- `EasyFs`, `Memory` and `UserBuffers`: what a file or an address space holds is computed by folds and
  flattened sequences (the index blocks of an inode, the areas of a process, the pages of a buffer).
  Facts about them for every length need induction over data, which the installed provers cannot do.
- `UserPrograms`: its invariants are those of the programs composed with `KernelSync`, and need an
  assertion for each instruction of the seven programs.

## Abstractions

- `KernelSync` does not keep `sie`: a timer interrupt may meet any kernel step. It panics when it finds
  borrowed what it borrows itself (`TimerFindsBorrowed`), and the panic keeps the effect of the step it
  meets, which nobody can observe any more.
- `EasyFs` has calls as single steps. A call that finds the disk full panics with the blocks it has
  handed out still marked, in memory; what of this reaches the disk is not modelled.
- `BlockDriver` has files without index blocks, so a call holds one block, that of the inode, while it
  gets another; the code holds up to three, and has sixteen entries for them. The lock of
  `BLOCK_CACHE_MANAGER` has no variable of its own: all calls after boot take the lock of the file
  system first, so it is never contended.

## Not modelled

- Register save and restore, console output, the PLIC, the virtio library, drawing, boot, the kernel
  heap and the image builder: plain input and output, or code without state of its own.
- Permissions of pages, the address space of the kernel, and pointers into the upper half.
- The polling mode of the disk, used at boot only, and mounting an existing file system: `EasyFs`
  starts from a fresh one. A data bitmap with more bits than blocks needs a disk of thousands of
  blocks.
- A power failure between the writes of `block_cache_sync_all`: the system has no recovery whose
  correctness could be stated.
- An `OSInode` that two threads use at once: the composition of `EasyFs` and `BlockDriver` is beyond
  the states TLC can enumerate.
- `waittid` with a thread id beyond the vector, and a pipe writer whose last reader is gone: the
  first panics, the second yields for ever, in one call and without another actor.
- The Peterson adder, whose plain stores the compiler may reorder, the shell, and the programs that
  test single calls.
