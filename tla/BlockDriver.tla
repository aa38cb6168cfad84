----------------------------- MODULE BlockDriver ------------------------------
(***************************************************************************)
(* Device input and output: the console (UART), the keyboard, the mouse,   *)
(* the disk (virtio-blk) and the block cache of easy-fs above it, with the *)
(* interrupt handlers and the masking of interrupts that keeps them apart  *)
(* from the system calls.                                                  *)
(* Sources: os/src/drivers/{chardev/ns16550a,input/mod,block/virtio_blk}.rs*)
(* os/src/syscall/input.rs, os/src/boards/qemu.rs, os/src/trap/mod.rs,     *)
(* os/src/sync/{up,condvar}.rs, os/src/task/{manager,processor}.rs and     *)
(* easy-fs/src/block_cache.rs.                                             *)
(*                                                                         *)
(* One processor runs the kernel path of the current task, or the idle     *)
(* loop.  An interrupt is taken before the next step as soon as the        *)
(* processor accepts it: in user mode always, in the kernel while sie is   *)
(* on.  __switch does not save sie, so a task continues with the sie that  *)
(* the processor happens to have.                                          *)
(***************************************************************************)
EXTENDS Interrupts, Sequences, FiniteSets, Functions

CONSTANTS Readers,           \* tasks that read the console in a loop
          Pollers,           \* tasks that ask for events and keys in a loop
          FsUsers,           \* tasks that read and write files in a loop
          initproc,          \* yields in a loop, see user/src/bin/initproc.rs
          DataBlocks,        \* data blocks of the files, positive numbers
          BLOCK_CACHE_SIZE,
          Calls,             \* operation and data blocks of the calls in use
          Values,            \* what is written to blocks
          Scenarios          \* tasks that run together, and how much they are sent

Idle == "idle"
None == "none"
Tasks == Readers \cup Pollers \cup FsUsers \cup {initproc}
Inputs == {"uart", "keyboard", "mouse"}
INODE_BLOCK == 0
Blocks == DataBlocks \cup {INODE_BLOCK}
Blank == 0                   \* contents of the blocks at boot

\* A task runs one of the programs; the cache has room for a data block beside
\* the block of the inode, the only one a call holds here (the code holds up to
\* three, with index blocks, and its cache has sixteen entries).
ASSUME DeviceAssumption ==
  /\ IsFiniteSet(Tasks) /\ Idle \notin Tasks /\ None \notin Tasks
  /\ Readers \cap Pollers = {} /\ (Readers \cup Pollers) \cap FsUsers = {}
  /\ initproc \notin Readers \cup Pollers \cup FsUsers
  /\ DataBlocks \subseteq Nat \ {INODE_BLOCK}
  /\ Calls \subseteq [op : {"read", "write"}, blocks : Seq(DataBlocks) \ {<<>>}]
  /\ BLOCK_CACHE_SIZE \in Nat \ {0, 1} /\ Values \subseteq Nat
  /\ \A s \in Scenarios : s.tasks \subseteq Tasks /\ s.sent \in [Inputs -> Nat]

VARIABLES
  masking,      \* sie and INTR_MASKING_INFO
  current,      \* the task whose kernel stack is in use, or Idle
  idle_pc,      \* "top", or "borrowed": TASK_MANAGER is borrowed by fetch_task
  ready,        \* the ready queue
  pc,           \* task -> its next step
  coming,       \* input device -> how much more it will receive
  rx,           \* input device -> characters or events that were not read yet
  buffer,       \* read_buffer of the UART's driver, events of the other two
  condvar,      \* wait queue of the driver's condition variable
  dev,          \* task -> the input device it reads
  received,     \* input device -> how many programs got
  io,           \* task -> block request it works on, and where it continues
  inflight,     \* tasks whose request the device has
  used,         \* tasks whose request is done, the used ring
  disk,         \* block -> contents
  cache,        \* queue of the cache manager
  fs_lock,      \* holder of the lock of the file system, or None
  call,         \* task -> file system call it is in
  written,      \* block -> contents as the programs wrote them (history)
  panicked      \* "no", or the reason of the panic that ended the system

cpu == <<masking, current, idle_pc, ready, pc>>
input == <<coming, rx, buffer, condvar, dev, received>>
blk == <<io, inflight, used, disk>>
fs == <<cache, fs_lock, call, written>>
vars == <<cpu, input, blk, fs, panicked>>

NoIo == [op |-> None, block |-> INODE_BLOCK, data |-> Blank, then |-> None]
NoCall == [op |-> None, blocks |-> <<>>, data |-> Blank]

Init ==
  /\ masking = Unmasked(FALSE) /\ current = Idle /\ idle_pc = "top"
  /\ \E s \in Scenarios : LET S == s.tasks \cup {initproc}
                          IN  ready \in Bijection(1..Cardinality(S), S) /\ coming = s.sent
  /\ pc = [t \in Tasks |-> "user"]
  /\ rx = [d \in Inputs |-> <<>>] /\ buffer = [d \in Inputs |-> <<>>]
  /\ condvar = [d \in Inputs |-> <<>>] /\ received = [d \in Inputs |-> 0]
  /\ dev = [t \in Readers \cup Pollers |-> "uart"]
  /\ io = [t \in FsUsers |-> NoIo] /\ inflight = {} /\ used = <<>>
  /\ disk = [b \in Blocks |-> Blank]
  /\ cache = <<>> /\ fs_lock = None
  /\ call = [t \in FsUsers |-> NoCall] /\ written = [b \in Blocks |-> Blank]
  /\ panicked = "no"

-----------------------------------------------------------------------------
(* The processor                                                           *)

\* UPSafeCell does not mask interrupts: TASK_MANAGER may be borrowed with sie on.
TaskManagerBorrowed ==
  IF current = Idle THEN idle_pc = "borrowed" ELSE pc[current] = "adding"

InputBorrowed(d) ==
  \E t \in Readers \cup Pollers : dev[t] = d /\ pc[t] \in {"test", "leave", "queued"}
BlkBorrowed == \E t \in FsUsers : pc[t] \in {"io_inside", "io_queued"}

Accepts == masking.sie \/ (current # Idle /\ pc[current] = "user")
Pending == used # <<>> \/ \E d \in Inputs : rx[d] # <<>>

\* The processor takes the next step of t, not an interrupt.
Runs(t) == panicked = "no" /\ current = t /\ ~(Pending /\ Accepts)

Goto(t, label) == pc' = [pc EXCEPT ![t] = label]

\* A bug: the task that came last is taken first.
fetch_newest == [task |-> ready[Len(ready)], rest |-> SubSeq(ready, 1, Len(ready) - 1)]
fetch == [task |-> Head(ready), rest |-> Tail(ready)]

\* run_tasks: fetch_task, then __switch to the task.
run_tasks ==
  /\ Runs(Idle)
  /\ idle_pc' = IF idle_pc = "top" THEN "borrowed" ELSE "top"
  /\ IF idle_pc = "top" \/ ready = <<>> THEN UNCHANGED <<current, ready>>
     ELSE current' = fetch.task /\ ready' = fetch.rest
  /\ UNCHANGED <<masking, pc, input, blk, fs, panicked>>

\* schedule: switch to the idle loop; where the task continues later.
Resume == [switch_ret |-> "ret", switch_input |-> "enter", switch_io |-> "io_done"]

schedule(t) ==
  /\ Runs(t) /\ pc[t] \in DOMAIN Resume
  /\ current' = Idle
  /\ Goto(t, Resume[pc[t]])
  /\ UNCHANGED <<masking, idle_pc, ready, input, blk, fs, panicked>>

\* A system call: trap_handler turns interrupts on before syscall.
trap_handler(t) ==
  /\ Runs(t) /\ pc[t] = "user"
  /\ masking' = [masking EXCEPT !.sie = TRUE]
  /\ \/ t \in Readers /\ Goto(t, "enter") /\ UNCHANGED call
     \/ t \in Pollers /\ Goto(t, "event_get") /\ UNCHANGED call
     \/ t \in Pollers /\ Goto(t, "key_pressed") /\ UNCHANGED call
     \/ t = initproc /\ Goto(t, "adding") /\ UNCHANGED call
     \/ /\ t \in FsUsers /\ Goto(t, "lock")
        /\ \E c \in Calls, v \in Values :
             call' = [call EXCEPT ![t] = [op |-> c.op, blocks |-> c.blocks, data |-> v]]
  /\ UNCHANGED <<current, idle_pc, ready, input, blk, cache, fs_lock, written, panicked>>

\* The timer interrupts user mode; interrupts stay off.
timer_interrupt(t) ==
  /\ Runs(t) /\ pc[t] = "user"
  /\ Goto(t, "adding")
  /\ UNCHANGED <<masking, current, idle_pc, ready, input, blk, fs, panicked>>

\* suspend_current_and_run_next: add_task, then schedule.
suspend(t) ==
  /\ Runs(t) /\ pc[t] = "adding"
  /\ ready' = Append(ready, t)
  /\ Goto(t, "switch_ret")
  /\ UNCHANGED <<masking, current, idle_pc, input, blk, fs, panicked>>

trap_return(t) ==
  /\ Runs(t) /\ pc[t] = "ret"
  /\ masking' = [masking EXCEPT !.sie = FALSE]
  /\ Goto(t, "user")
  /\ UNCHANGED <<current, idle_pc, ready, input, blk, fs, panicked>>

-----------------------------------------------------------------------------
(* Input: NS16550a::read, VirtIOInputWrapper::read_event and handle_irq    *)

arrives(d) ==
  /\ panicked = "no" /\ coming[d] > 0
  /\ coming' = [coming EXCEPT ![d] = @ - 1]
  /\ rx' = [rx EXCEPT ![d] = Append(@, d)]
  /\ UNCHANGED <<cpu, buffer, condvar, dev, received, blk, fs, panicked>>

\* exclusive_access of the driver's cell.
input_enter(t) ==
  /\ Runs(t) /\ pc[t] = "enter"
  /\ masking' = enter(masking)
  /\ Goto(t, "test")
  /\ UNCHANGED <<current, idle_pc, ready, input, blk, fs, panicked>>

\* The buffer has something, or the reader goes to the wait queue (wait_no_sched).
input_test(t) ==
  /\ Runs(t) /\ pc[t] = "test"
  /\ IF buffer[dev[t]] # <<>>
     THEN /\ buffer' = [buffer EXCEPT ![dev[t]] = Tail(@)]
          /\ received' = [received EXCEPT ![dev[t]] = @ + 1]
          /\ Goto(t, "leave")
          /\ UNCHANGED <<masking, condvar>>
     ELSE /\ condvar' = [condvar EXCEPT ![dev[t]] = Append(@, t)]
          /\ masking' = session(masking)
          /\ Goto(t, "queued")
          /\ UNCHANGED <<buffer, received>>
  /\ UNCHANGED <<current, idle_pc, ready, coming, rx, dev, blk, fs, panicked>>

\* drop(inner), at the return or before schedule.
input_drop(t) ==
  /\ Runs(t) /\ pc[t] \in {"leave", "queued"}
  /\ masking' = exit(masking)
  /\ Goto(t, IF pc[t] = "leave" THEN "ret" ELSE "switch_input")
  /\ UNCHANGED <<current, idle_pc, ready, input, blk, fs, panicked>>

read_step(t) == input_enter(t) \/ input_test(t) \/ input_drop(t)

\* NS16550a::read and read_event are the same loop.
uart_read(t) == t \in Readers /\ read_step(t)
read_event(t) == t \in Pollers /\ read_step(t)

\* A bug: the mouse is read without a look into its buffer.
next_source_blind(t) ==
  CASE pc[t] = "event_get" /\ buffer["keyboard"] # <<>> -> "keyboard"
    [] pc[t] = "mouse" -> "mouse"
    [] OTHER -> "none"

\* The device sys_event_get reads after one of its tests, if any.
next_source(t) ==
  CASE pc[t] = "event_get" /\ buffer["keyboard"] # <<>> -> "keyboard"
    [] pc[t] = "mouse" /\ buffer["mouse"] # <<>> -> "mouse"
    [] OTHER -> "none"

\* Ask the keyboard and then the mouse, each in a session of is_empty.
sys_event_get(t) ==
  /\ Runs(t) /\ pc[t] \in {"event_get", "mouse"}
  /\ masking' = session(masking)
  /\ IF next_source(t) # "none"
     THEN dev' = [dev EXCEPT ![t] = next_source(t)] /\ Goto(t, "enter")
     ELSE Goto(t, IF pc[t] = "event_get" THEN "mouse" ELSE "ret") /\ UNCHANGED dev
  /\ UNCHANGED <<current, idle_pc, ready, coming, rx, buffer, condvar, received>>
  /\ UNCHANGED <<blk, fs, panicked>>

\* read_buffer_is_empty of the UART.
sys_key_pressed(t) ==
  /\ Runs(t) /\ pc[t] = "key_pressed"
  /\ masking' = session(masking)
  /\ Goto(t, "ret")
  /\ UNCHANGED <<current, idle_pc, ready, input, blk, fs, panicked>>

\* An interrupt handler has its own sessions, and the return restores sie.
Handled == [session([masking EXCEPT !.sie = FALSE]) EXCEPT !.sie = masking.sie]

\* A bug: one character is not enough to wake a reader.
Woken_late(d) ==
  IF condvar[d] = <<>> \/ Len(rx[d]) <= 1 THEN <<>> ELSE <<Head(condvar[d])>>

\* The reader that signal takes from the wait queue, if any.
Woken(d) == IF condvar[d] = <<>> THEN <<>> ELSE <<Head(condvar[d])>>

handle_irq(d) ==
  /\ panicked = "no" /\ Accepts /\ rx[d] # <<>>
  /\ IF InputBorrowed(d) \/ (Woken(d) # <<>> /\ TaskManagerBorrowed)
     THEN /\ panicked' = IF InputBorrowed(d) THEN "device" ELSE "task_manager"
          /\ UNCHANGED <<masking, ready, rx, buffer, condvar>>
     ELSE /\ masking' = Handled
          /\ rx' = [rx EXCEPT ![d] = <<>>]
          /\ buffer' = [buffer EXCEPT ![d] = @ \o rx[d]]
          /\ condvar' = [condvar EXCEPT ![d] = SubSeq(@, Len(Woken(d)) + 1, Len(@))]
          /\ ready' = ready \o Woken(d)
          /\ UNCHANGED panicked
  /\ UNCHANGED <<current, idle_pc, pc, coming, dev, received, blk, fs>>

uart_handle_irq == handle_irq("uart")
input_handle_irq == handle_irq("keyboard") \/ handle_irq("mouse")

-----------------------------------------------------------------------------
(* The disk: VirtIOBlock::read_block, write_block and handle_irq           *)

\* The start of a request, from the cache.
Request(t, op, block, data, then) ==
  /\ io' = [io EXCEPT ![t] = [op |-> op, block |-> block, data |-> data, then |-> then]]
  /\ Goto(t, "io_enter")

io_enter(t) ==
  /\ Runs(t) /\ pc[t] = "io_enter"
  /\ masking' = enter(masking)
  /\ Goto(t, "io_inside")
  /\ UNCHANGED <<current, idle_pc, ready, input, blk, fs, panicked>>

\* The device gets the request, the task waits for its token.
io_submit(t) ==
  /\ Runs(t) /\ pc[t] = "io_inside"
  /\ inflight' = inflight \cup {t}
  /\ masking' = session(masking)
  /\ Goto(t, "io_queued")
  /\ UNCHANGED <<current, idle_pc, ready, input, io, used, disk, fs, panicked>>

io_drop(t) ==
  /\ Runs(t) /\ pc[t] = "io_queued"
  /\ masking' = exit(masking)
  /\ Goto(t, "switch_io")
  /\ UNCHANGED <<current, idle_pc, ready, input, blk, fs, panicked>>

\* The device: data moves between the block and the buffer of the sleeping task.
device_done(t) ==
  /\ panicked = "no" /\ t \in inflight
  /\ inflight' = inflight \ {t}
  /\ used' = Append(used, t)
  /\ IF io[t].op = "write"
     THEN disk' = [disk EXCEPT ![io[t].block] = io[t].data] /\ UNCHANGED io
     ELSE io' = [io EXCEPT ![t].data = disk[io[t].block]] /\ UNCHANGED disk
  /\ UNCHANGED <<cpu, input, fs, panicked>>

blk_handle_irq ==
  /\ panicked = "no" /\ Accepts /\ used # <<>>
  /\ IF BlkBorrowed \/ TaskManagerBorrowed
     THEN /\ panicked' = IF BlkBorrowed THEN "device" ELSE "task_manager"
          /\ UNCHANGED <<masking, ready, used>>
     ELSE /\ masking' = Handled
          /\ ready' = ready \o used
          /\ used' = <<>>
          /\ UNCHANGED panicked
  /\ UNCHANGED <<current, idle_pc, pc, input, io, inflight, disk, fs>>

\* The interrupt controller presents one of the devices that wait.
irq_handler == uart_handle_irq \/ input_handle_irq \/ blk_handle_irq

-----------------------------------------------------------------------------
(* A file system call over the block cache: it holds the lock of the file  *)
(* system, has the block of the inode at hand while it works on its data   *)
(* blocks, and writes everything back at the end if it changed something.  *)

\* Another task spins here, and does not give up the processor.
lock(t) ==
  /\ Runs(t) /\ pc[t] = "lock" /\ fs_lock = None
  /\ fs_lock' = t
  /\ Goto(t, "get_inode")
  /\ UNCHANGED <<masking, current, idle_pc, ready, input, blk, cache, call, written, panicked>>

Cached(b) == {i \in DOMAIN cache : cache[i].block = b}

\* The entries that no one holds.  read_at and write_at hold the block of the inode
\* while they get a data block; a file with index blocks would hold those as well.
Evictable(t) ==
  {i \in DOMAIN cache : pc[t] = "get_inode" \/ cache[i].block # INODE_BLOCK}

Full == Len(cache) = BLOCK_CACHE_SIZE

\* The queue without its entry idx.
drain(queue, idx) == SubSeq(queue, 1, idx - 1) \o SubSeq(queue, idx + 1, Len(queue))

\* A bug: a modified entry is dropped like any other.
drop_syncs_never(i) == FALSE
\* Drop of a cache entry writes it back.
drop_syncs(i) == cache[i].modified

\* Find the block, or make room and load it.  A modified block is written back
\* when it is dropped; the task then comes here again and finds the room.
get_block_cache(t) ==
  /\ Runs(t) /\ pc[t] \in {"get_inode", "get_data"}
  /\ LET id == IF pc[t] = "get_inode" THEN INODE_BLOCK ELSE Head(call[t].blocks)
         next == IF pc[t] = "get_inode" THEN "get_data" ELSE "access"
     IN  IF Cached(id) # {}
         THEN Goto(t, next) /\ UNCHANGED <<io, cache, panicked>>
         ELSE IF ~Full
         THEN Request(t, "read", id, Blank, next) /\ UNCHANGED <<cache, panicked>>
         ELSE IF Evictable(t) = {}
         THEN panicked' = "Run out of BlockCache!" /\ UNCHANGED <<pc, io, cache>>
         ELSE \E i \in Evictable(t) :
                /\ \A j \in Evictable(t) : i <= j
                /\ cache' = drain(cache, i)
                /\ IF drop_syncs(i)
                   THEN Request(t, "write", cache[i].block, cache[i].data, pc[t])
                   ELSE Request(t, "read", id, Blank, next)
                /\ UNCHANGED panicked
  /\ UNCHANGED <<masking, current, idle_pc, ready, input, inflight, used, disk>>
  /\ UNCHANGED <<fs_lock, call, written>>

\* The task continues after its request.
io_done(t) ==
  /\ Runs(t) /\ pc[t] = "io_done"
  /\ Goto(t, io[t].then)
  /\ io' = [io EXCEPT ![t] = NoIo]
  /\ cache' = IF io[t].op = "read"
              THEN Append(cache, [block |-> io[t].block, data |-> io[t].data,
                                  modified |-> FALSE])
              ELSE cache
  /\ UNCHANGED <<masking, current, idle_pc, ready, input, inflight, used, disk>>
  /\ UNCHANGED <<fs_lock, call, written, panicked>>

\* Read or write the data block, and go on with the next one.  A write also marks
\* the block of the inode as modified.
access(t) ==
  LET b == Head(call[t].blocks)
      rest == Tail(call[t].blocks)
  IN  /\ Runs(t) /\ pc[t] = "access"
      /\ Goto(t, IF rest # <<>> THEN "get_data"
                 ELSE IF call[t].op = "read" THEN "unlock" ELSE "sync")
      /\ call' = [call EXCEPT ![t].blocks = rest]
      /\ IF call[t].op = "read" THEN UNCHANGED <<cache, written>>
         ELSE /\ cache' = [i \in DOMAIN cache |->
                    CASE cache[i].block = b ->
                           [cache[i] EXCEPT !.data = call[t].data, !.modified = TRUE]
                      [] cache[i].block = INODE_BLOCK -> [cache[i] EXCEPT !.modified = TRUE]
                      [] OTHER -> cache[i]]
              /\ written' = [written EXCEPT ![b] = call[t].data]
      /\ UNCHANGED <<masking, current, idle_pc, ready, input, blk, fs_lock, panicked>>

\* A bug: the loop stops before the last entry.
Unsynced_but_last == {i \in DOMAIN cache : i < Len(cache) /\ cache[i].modified}
Unsynced == {i \in DOMAIN cache : cache[i].modified}

block_cache_sync_all(t) ==
  /\ Runs(t) /\ pc[t] = "sync"
  /\ IF Unsynced = {} THEN Goto(t, "unlock") /\ UNCHANGED <<io, cache>>
     ELSE \E i \in Unsynced :
            /\ \A j \in Unsynced : i <= j
            /\ cache' = [cache EXCEPT ![i].modified = FALSE]
            /\ Request(t, "write", cache[i].block, cache[i].data, "sync")
  /\ UNCHANGED <<masking, current, idle_pc, ready, input, inflight, used, disk>>
  /\ UNCHANGED <<fs_lock, call, written, panicked>>

unlock(t) ==
  /\ Runs(t) /\ pc[t] = "unlock"
  /\ fs_lock' = None
  /\ call' = [call EXCEPT ![t] = NoCall]
  /\ Goto(t, "ret")
  /\ UNCHANGED <<masking, current, idle_pc, ready, input, blk, cache, written, panicked>>

-----------------------------------------------------------------------------
CpuStep ==
  \/ run_tasks
  \/ \E t \in Tasks :
       schedule(t) \/ trap_handler(t) \/ timer_interrupt(t) \/ suspend(t) \/ trap_return(t)
  \/ \E t \in Readers : uart_read(t)
  \/ \E t \in Pollers : sys_event_get(t) \/ read_event(t) \/ sys_key_pressed(t)
  \/ \E t \in FsUsers :
       \/ io_enter(t) \/ io_submit(t) \/ io_drop(t) \/ io_done(t)
       \/ lock(t) \/ get_block_cache(t) \/ access(t) \/ block_cache_sync_all(t) \/ unlock(t)
  \/ irq_handler

Next == CpuStep \/ (\E d \in Inputs : arrives(d)) \/ \E t \in FsUsers : device_done(t)

Spec == Init /\ [][Next]_vars

\* The processor goes on and the disk answers.  The period of the timer is not
\* tied to what programs do: programs that get the processor again and again
\* make their calls before the tick some time, and a tick meets a program that
\* never has to wait in user mode some time.
Fairness ==
  /\ WF_vars(CpuStep)
  /\ \A t \in FsUsers : WF_vars(device_done(t))
  /\ SF_vars(\E t \in Readers : trap_handler(t))
  /\ SF_vars(\E t \in Pollers : trap_handler(t) /\ pc'[t] = "event_get")
  /\ \A t \in FsUsers \cup Pollers : SF_vars(timer_interrupt(t))

FairSpec == Spec /\ Fairness

-----------------------------------------------------------------------------
(* Properties                                                              *)

\* Types: queues of tasks and blocks within their bounds.
TypeOK ==
  /\ masking \in [sie : BOOLEAN, nested_level : 0..1, sie_before_masking : BOOLEAN]
  /\ current \in Tasks \cup {Idle}
  /\ Range(ready) \cup Range(used) \cup inflight \subseteq Tasks
  /\ Len(ready) <= Cardinality(Tasks) /\ Len(cache) <= BLOCK_CACHE_SIZE
  /\ received \in [Inputs -> Nat] /\ dev \in [Readers \cup Pollers -> Inputs]
  /\ fs_lock \in FsUsers \cup {None}
  /\ disk \in [Blocks -> Values \cup {Blank}]
  /\ panicked \in {"no", "device", "task_manager", "Run out of BlockCache!"}

\* The masking of interrupts is exact over task switches, nested sessions and
\* handlers that come between two sessions: interrupts are off while a driver's
\* cell is borrowed, no session is open when the processor leaves a task or
\* accepts an interrupt, and so no handler finds the cell of its driver borrowed.
SessionsMasked ==
  LET open == {t \in Tasks : pc[t] \in {"test", "leave", "queued", "io_inside", "io_queued"}}
  IN  /\ TypeOK
      /\ open \subseteq {current}
      /\ masking.nested_level = Cardinality(open)
      /\ open # {} => ~masking.sie
      /\ panicked # "device"

\* The contents of a block as the cache and the disk together have it: cached,
\* on the way to the disk, or on the disk.
Contents(b) ==
  IF Cached(b) # {} THEN cache[CHOOSE i \in Cached(b) : TRUE].data
  ELSE IF \E t \in FsUsers : io[t].op = "write" /\ io[t].block = b
  THEN io[CHOOSE t \in FsUsers : io[t].op = "write" /\ io[t].block = b].data
  ELSE disk[b]

\* The cache is transparent: whatever was evicted, written back or is in flight,
\* a block has the contents last written to it, and is cached once; and the
\* cache never runs out of entries to evict.
CacheTransparent ==
  /\ panicked # "Run out of BlockCache!"
  /\ \A b \in Blocks : Contents(b) = written[b] /\ Cardinality(Cached(b)) <= 1

\* A call that writes returns only when all it wrote is on the disk
\* (block_cache_sync_all at the end of write_at, clear and create_inode).
WritesDurable ==
  \A t \in FsUsers : pc[t] = "unlock" /\ call[t].op = "write" => disk = written

\* What arrived reaches the programs, also when an interrupt brings more than one
\* character and wakes one reader of two: no wakeup is lost between the test of
\* the buffer and the switch, unless TASK_MANAGER was borrowed and the kernel
\* panicked.
InputDelivered ==
  \A d \in Inputs : rx[d] \o buffer[d] # <<>> ~> rx[d] \o buffer[d] = <<>> \/ panicked # "no"

\* sys_event_get answers at once, with 0 if there is no event (syscall/input.rs,
\* line 3): although it looks into the buffer in one session and takes the event
\* in another, interrupts and another poller cannot make it sleep.
EventGetAnswers == condvar["keyboard"] = <<>> /\ condvar["mouse"] = <<>>

\* A file system call returns: its requests are answered and the task runs again.
FsCallsReturn ==
  \A t \in FsUsers : pc[t] = "lock" ~> pc[t] = "user" \/ panicked # "no"

\* "The thread sleeps until the driver has fetched the data and wakes it through
\* the condition variable" (virtio_blk.rs, line 27): a task with a request in
\* flight runs again.
SleeperContinues ==
  \A t \in FsUsers : t \in inflight ~> current = t \/ panicked # "no"
=============================================================================
