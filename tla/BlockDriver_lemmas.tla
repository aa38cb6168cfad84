-------------------------- MODULE BlockDriver_lemmas --------------------------
(***************************************************************************)
(* The inductive invariant of BlockDriver, and that every step keeps the   *)
(* parts of it that are about types, sessions, queues and input.  The rest *)
(* of the proof, and the theorems, are in BlockDriver_proofs.              *)
(***************************************************************************)
EXTENDS BlockDriver, Queue_lemmas

-----------------------------------------------------------------------------
(* The inductive invariant                                                 *)

\* The steps of every program, those inside a file system call, and those of a
\* block request.
CommonSteps == {"user", "adding", "switch_ret", "ret"}
ReadSteps == {"enter", "test", "leave"}
WaitSteps == {"queued", "switch_input"}
PollSteps == {"event_get", "mouse", "key_pressed"}
FsSteps == {"get_inode", "get_data", "access", "sync", "unlock"}
IoSteps == {"io_enter", "io_inside", "io_queued", "switch_io", "io_done"}

Steps == CommonSteps \cup ReadSteps \cup WaitSteps \cup PollSteps
           \cup FsSteps \cup IoSteps \cup {"lock"}

\* The steps inside a session of a driver's cell.
SessionSteps == {"test", "leave", "queued", "io_inside", "io_queued"}

Bytes == Values \cup {Blank}
Entries == [block : Blocks, data : Bytes, modified : BOOLEAN]
Requests == [op : {None, "read", "write"}, block : Blocks, data : Bytes,
             then : {None, "get_inode", "get_data", "access", "sync"}]
FsCalls == [op : {None, "read", "write"}, blocks : Seq(DataBlocks), data : Bytes]

Maskings == [sie : BOOLEAN, nested_level : 0..1, sie_before_masking : BOOLEAN]

CpuTypes ==
  /\ masking \in Maskings
  /\ current \in Tasks \cup {Idle}
  /\ idle_pc \in {"top", "borrowed"}
  /\ ready \in Seq(Tasks) /\ used \in Seq(Tasks)
  /\ pc \in [Tasks -> Steps]
  /\ \A t \in Readers : pc[t] \in CommonSteps \cup ReadSteps \cup WaitSteps
  /\ \A t \in Pollers : pc[t] \in CommonSteps \cup ReadSteps \cup PollSteps
  /\ \A t \in FsUsers : pc[t] \in CommonSteps \cup FsSteps \cup IoSteps \cup {"lock"}
  /\ pc[initproc] \in CommonSteps
  /\ panicked \in {"no", "device", "task_manager", "Run out of BlockCache!"}

InputTypes ==
  /\ coming \in [Inputs -> Nat]
  /\ rx \in [Inputs -> Seq(Inputs)] /\ buffer \in [Inputs -> Seq(Inputs)]
  /\ condvar \in [Inputs -> Seq(Tasks)]
  /\ dev \in [Readers \cup Pollers -> Inputs]
  /\ received \in [Inputs -> Nat]

BlockTypes ==
  /\ io \in [FsUsers -> Requests]
  /\ inflight \subseteq FsUsers
  /\ disk \in [Blocks -> Bytes] /\ written \in [Blocks -> Bytes]
  /\ cache \in Seq(Entries) /\ Len(cache) <= BLOCK_CACHE_SIZE
  /\ fs_lock \in FsUsers \cup {None}
  /\ call \in [FsUsers -> FsCalls]

\* A session is that of the current task, and interrupts are off inside it.
Masked ==
  /\ \A t \in Tasks : pc[t] \in SessionSteps =>
       current = t /\ masking.nested_level = 1 /\ ~masking.sie
  /\ (\A t \in Tasks : pc[t] \notin SessionSteps) => masking.nested_level = 0
  /\ panicked # "device"

\* A task is in one queue at most, in the one that fits what it does, and the
\* task on the processor only between joining the queue and the switch.
InOnePlace ==
  /\ IsInjective(ready) /\ IsInjective(used)
  /\ \A d \in Inputs : IsInjective(condvar[d])
  /\ \A d \in Inputs \ {"uart"} : condvar[d] = <<>>
  /\ \A t \in Range(condvar["uart"]) :
       t \notin Range(ready) /\ pc[t] \in {"queued", "switch_input", "enter"}
  /\ \A t \in inflight \cup Range(used) :
       t \notin Range(ready) /\ pc[t] \in {"io_queued", "switch_io", "io_done"}
  /\ \A t \in inflight : t \notin Range(used)
  /\ \A t \in Tasks :
       IF t = current
       THEN \/ pc[t] \in {"switch_ret", "switch_input", "switch_io", "queued", "io_queued"}
            \/ /\ t \notin Range(ready) \cup inflight \cup Range(used)
               /\ t \notin Range(condvar["uart"])
       ELSE pc[t] \in {"user", "ret", "enter", "io_done"}

\* A poller that is about to take an event has seen it, and it is still there.
EventSeen ==
  /\ \A t \in Readers : dev[t] = "uart"
  /\ \A t \in Pollers : pc[t] \in {"enter", "test"} =>
       current = t /\ buffer[dev[t]] # <<>>

\* The device is done with the request of t.
Finished(t) == pc[t] \in {"io_queued", "switch_io", "io_done"} /\ t \notin inflight

\* The holder of the lock is the one inside the file system, and its request is
\* the only one.
OneInside ==
  \A t \in FsUsers :
    /\ pc[t] \in FsSteps \cup IoSteps <=> fs_lock = t
    /\ pc[t] \notin IoSteps <=> io[t].op = None

\* The step that follows, once the request is done if there is one.
NextStep(t) == IF pc[t] \in IoSteps THEN io[t].then ELSE pc[t]

\* What a call has before it: a block to work on, and that block in the cache
\* before it works on it.  A block that is being read has its room there.
CallReady(t) ==
  /\ NextStep(t) \in {"lock", "get_inode", "get_data", "access"} => call[t].blocks # <<>>
  /\ pc[t] = "access" => Cached(Head(call[t].blocks)) # {}
  /\ pc[t] = "unlock" /\ call[t].op = "write" => Unsynced = {}
  /\ pc[t] \in IoSteps =>
       /\ io[t].then \in {"get_inode", "get_data", "access", "sync"}
       /\ io[t].op = "read" =>
            /\ Cached(io[t].block) = {} /\ Len(cache) < BLOCK_CACHE_SIZE
            /\ io[t].then = "access" => io[t].block = Head(call[t].blocks)
       /\ io[t].op = "write" => io[t].then # "access"

CallsReady == \A t \in FsUsers : CallReady(t)

\* Where the contents of the blocks are: in the cache, on the way to the disk,
\* or on the disk.
ContentsKept ==
  /\ panicked # "Run out of BlockCache!"
  /\ \A i, j \in DOMAIN cache : cache[i].block = cache[j].block => i = j
  /\ \A i \in DOMAIN cache : cache[i].data = written[cache[i].block]
  /\ \A t \in FsUsers : io[t].op = "write" => io[t].data = written[io[t].block]
  /\ \A t \in FsUsers : io[t].op = "read" /\ Finished(t) => io[t].data = disk[io[t].block]
  /\ \A b \in Blocks :
       \/ disk[b] = written[b]
       \/ \E i \in DOMAIN cache : cache[i].block = b /\ cache[i].modified
       \/ \E t \in FsUsers : io[t].op = "write" /\ io[t].block = b /\ ~Finished(t)

IInv ==
  /\ CpuTypes /\ InputTypes /\ BlockTypes
  /\ Masked
  /\ InOnePlace
  /\ EventSeen
  /\ OneInside
  /\ CallsReady
  /\ ContentsKept

-----------------------------------------------------------------------------
(* The queue of the cache manager                                         *)

\* The list without its entry at position i.
LEMMA DrainOutcome ==
  ASSUME NEW S, NEW q \in Seq(S), NEW i \in DOMAIN q
  PROVE  /\ drain(q, i) \in Seq(S)
         /\ Len(drain(q, i)) = Len(q) - 1 /\ Len(q) \in Nat
         /\ DOMAIN q = 1..Len(q)
         /\ DOMAIN drain(q, i) = 1 .. Len(q) - 1
         /\ \A j \in 1 .. Len(q) - 1 :
              drain(q, i)[j] = IF j < i THEN q[j] ELSE q[j + 1]
<1> DEFINE n == Len(q)
           a == SubSeq(q, 1, i - 1)
           b == SubSeq(q, i + 1, n)
<1>1. n \in Nat /\ DOMAIN q = 1..n /\ i \in 1..n /\ \A j \in 1..n : q[j] \in S
  OBVIOUS
<1> HIDE DEF n
<1>2. /\ a \in Seq(S) /\ Len(a) = i - 1
      /\ \A j \in 1 .. i - 1 : a[j] = q[j]
  <2>1. \A j \in 1 .. i - 1 : q[j] \in S
    BY <1>1
  <2>2. /\ a \in Seq(S) /\ Len(a) = IF 1 <= i - 1 THEN i - 1 - 1 + 1 ELSE 0
        /\ \A j \in 1 .. i - 1 - 1 + 1 : a[j] = q[1 + j - 1]
    BY <1>1, <2>1
  <2> QED
    BY <1>1, <2>2
<1>3. /\ b \in Seq(S) /\ Len(b) = n - i
      /\ \A j \in 1 .. n - i : b[j] = q[i + j]
  <2>1. \A j \in i + 1 .. n : q[j] \in S
    BY <1>1
  <2>2. /\ b \in Seq(S) /\ Len(b) = IF i + 1 <= n THEN n - (i + 1) + 1 ELSE 0
        /\ \A j \in 1 .. n - (i + 1) + 1 : b[j] = q[(i + 1) + j - 1]
    BY <1>1, <2>1
  <2> QED
    BY <1>1, <2>2
<1> HIDE DEF a, b
<1> DEFINE c == a \o b
<1>4. /\ c \in Seq(S) /\ Len(c) = n - 1
      /\ \A j \in 1 .. n - 1 : c[j] = IF j <= i - 1 THEN a[j] ELSE b[j - (i - 1)]
  <2>1. /\ c \in Seq(S) /\ Len(c) = Len(a) + Len(b)
        /\ \A j \in 1 .. Len(a) + Len(b) :
             c[j] = IF j <= Len(a) THEN a[j] ELSE b[j - Len(a)]
    BY <1>2, <1>3, ConcatElements
  <2>2. Len(a) = i - 1 /\ Len(b) = n - i /\ Len(a) + Len(b) = n - 1
    BY <1>1, <1>2, <1>3
  <2> HIDE DEF c
  <2> QED
    BY <2>1, <2>2
<1> HIDE DEF c
<1>5. DOMAIN c = 1 .. n - 1
  BY <1>4
<1>6. ASSUME NEW j \in 1 .. n - 1 PROVE c[j] = IF j < i THEN q[j] ELSE q[j + 1]
  <2>1. CASE j < i
    BY <1>1, <1>2, <1>4, <2>1
  <2>2. CASE ~(j < i)
    <3>1. j - (i - 1) \in 1 .. n - i /\ i + (j - (i - 1)) = j + 1
      BY <1>1, <2>2
    <3>2. c[j] = b[j - (i - 1)]
      BY <1>1, <1>4, <2>2
    <3> QED
      BY <1>1, <1>3, <2>2, <3>1, <3>2
  <2> QED
    BY <2>1, <2>2
<1>7. drain(q, i) = c
  BY DEF drain, a, b, c, n
<1> QED
  BY <1>1, <1>4, <1>5, <1>6, <1>7 DEF n

-----------------------------------------------------------------------------
(* Types                                                                   *)

\* What the constants give every proof: the kinds of tasks are disjoint.
LEMMA Kinds ==
  /\ Readers \subseteq Tasks /\ Pollers \subseteq Tasks /\ FsUsers \subseteq Tasks
  /\ initproc \in Tasks /\ Idle \notin Tasks
  /\ \A t \in Readers : t \notin Pollers /\ t \notin FsUsers /\ t # initproc
  /\ \A t \in Pollers : t \notin FsUsers /\ t # initproc
  /\ \A t \in FsUsers : t # initproc /\ t # None /\ t # Idle
  /\ \A t \in Tasks : t # Idle
BY DeviceAssumption DEF Tasks

\* The end of a session: the outermost one restores sie.
LEMMA ExitOp ==
  ASSUME NEW m \in [sie : BOOLEAN, nested_level : Nat, sie_before_masking : BOOLEAN], m.nested_level \in 1..2
  PROVE  /\ exit(m) \in Maskings /\ exit(m).nested_level = m.nested_level - 1
         /\ ~m.sie /\ m.nested_level = 2 => ~exit(m).sie
<1> DEFINE s == m.sie \/ (m.nested_level = 1 /\ m.sie_before_masking)
<1>1. s \in BOOLEAN
  BY Zenon
<1>2. ~m.sie /\ m.nested_level = 2 => s = FALSE
  <2>1. m.nested_level = 2 => m.nested_level # 1
    OBVIOUS
  <2> QED
    BY Zenon, <2>1
<1>0. exit(m) = [m EXCEPT !.nested_level = @ - 1, !.sie = s]
  BY Zenon DEF exit
<1> HIDE DEF s
<1>3. exit(m) = [sie |-> s, nested_level |-> m.nested_level - 1, sie_before_masking |-> m.sie_before_masking]
  BY Zenon, <1>0
<1> QED
  BY <1>1, <1>2, <1>3 DEF Maskings
\* A session inside another one leaves interrupts off and the depth as it was.
LEMMA MaskingOps ==
  ASSUME NEW m \in Maskings
  PROVE  /\ m.nested_level = 0 =>
              enter(m) \in Maskings /\ enter(m).nested_level = 1 /\ ~enter(m).sie
         /\ m.nested_level = 1 => exit(m) \in Maskings /\ exit(m).nested_level = 0
         /\ session(m) \in Maskings /\ session(m).nested_level = m.nested_level
         /\ m.nested_level = 1 /\ ~m.sie => ~session(m).sie
<1>1. /\ enter(m) \in [sie : BOOLEAN, nested_level : Nat, sie_before_masking : BOOLEAN]
      /\ enter(m).nested_level = m.nested_level + 1 /\ ~enter(m).sie
  BY DEF Maskings, enter
<1>2. m.nested_level = 0 =>
              enter(m) \in Maskings /\ enter(m).nested_level = 1 /\ ~enter(m).sie
  BY DEF Maskings, enter
<1>3. m.nested_level = 1 => exit(m) \in Maskings /\ exit(m).nested_level = 0
  BY ExitOp DEF Maskings
<1>4. m.nested_level \in 0..1
  BY DEF Maskings
<1>5. session(m) \in Maskings /\ session(m).nested_level = m.nested_level
         /\ (m.nested_level = 1 => ~session(m).sie)
  BY <1>1, <1>4, ExitOp DEF session
<1> QED
  BY <1>2, <1>3, <1>5

\* A handler of an interrupt leaves sie and the depth as they were.
LEMMA HandledNeutral ==
  ASSUME masking \in Maskings
  PROVE  Handled \in Maskings /\ Handled.nested_level = masking.nested_level
           /\ Handled.sie = masking.sie
<1> DEFINE m == [masking EXCEPT !.sie = FALSE]
<1>1. m \in Maskings /\ m.nested_level = masking.nested_level /\ masking.sie \in BOOLEAN
  BY Zenon DEF Maskings
<1>2. session(m) \in Maskings /\ session(m).nested_level = m.nested_level
  BY Zenon, <1>1, MaskingOps
<1>3. Handled = [session(m) EXCEPT !.sie = masking.sie]
  BY DEF Handled
<1> HIDE DEF m
<1> QED
  BY <1>1, <1>2, <1>3 DEF Maskings

\* A handler never finds the cell of its driver borrowed.
LEMMA NotBorrowed ==
  ASSUME CpuTypes, Masked, Accepts
  PROVE  /\ \A t \in Tasks : pc[t] \notin SessionSteps
         /\ \A d \in Inputs : ~InputBorrowed(d)
         /\ ~BlkBorrowed
<1>1. ASSUME NEW t \in Tasks, pc[t] \in SessionSteps PROVE FALSE
  BY <1>1 DEF CpuTypes, Masked, Accepts, SessionSteps
<1> QED
  BY <1>1, Kinds DEF InputBorrowed, BlkBorrowed, SessionSteps

\* Every step stays within the types of the processor and the scheduler.
LEMMA CpuTypesStep ==
  ASSUME CpuTypes, InputTypes, BlockTypes, Masked, InOnePlace, EventSeen, CallsReady, Next
  PROVE  CpuTypes'
<1> USE Kinds DEF blk, CpuTypes, Runs, Goto, Steps, CommonSteps, ReadSteps, WaitSteps, PollSteps, FsSteps, IoSteps
<1>1. CASE run_tasks
  <2>1. ready # <<>> => Head(ready) \in Tasks /\ Tail(ready) \in Seq(Tasks)
    BY QueueRest
  <2> QED
    BY <1>1, <2>1 DEF run_tasks, fetch
<1>2. ASSUME NEW t \in Tasks, schedule(t) PROVE CpuTypes'
  BY <1>2 DEF schedule, Resume
<1>3. ASSUME NEW t \in Tasks, trap_handler(t) PROVE CpuTypes'
  <2>1. masking' \in Maskings /\ UNCHANGED <<current, idle_pc, ready, blk, panicked>>
    BY Zenon, <1>3 DEF trap_handler, Maskings
  <2>2. PICK x \in {"enter", "event_get", "key_pressed", "adding", "lock"} :
          /\ pc' = [pc EXCEPT ![t] = x]
          /\ \/ t \in Readers /\ x = "enter"
             \/ t \in Pollers /\ x \in {"event_get", "key_pressed"}
             \/ t \in FsUsers /\ x = "lock"
             \/ t = initproc /\ x = "adding"
    BY Zenon, <1>3 DEF trap_handler
  <2> QED
    BY <2>1, <2>2
<1>4. ASSUME NEW t \in Tasks, timer_interrupt(t) PROVE CpuTypes'
  BY <1>4 DEF timer_interrupt
<1>5. ASSUME NEW t \in Tasks, suspend(t) PROVE CpuTypes'
  BY <1>5 DEF suspend
<1>6. ASSUME NEW t \in Tasks, trap_return(t) PROVE CpuTypes'
  BY Zenon, <1>6 DEF trap_return, Maskings
<1>7. ASSUME NEW t \in Readers \cup Pollers, input_enter(t) PROVE CpuTypes'
  BY <1>7, MaskingOps DEF input_enter, Masked, SessionSteps
<1>8. ASSUME NEW t \in Readers \cup Pollers, input_test(t) PROVE CpuTypes'
  BY <1>8, MaskingOps DEF input_test, EventSeen
<1>9. ASSUME NEW t \in Readers \cup Pollers, input_drop(t) PROVE CpuTypes'
  BY <1>9, MaskingOps DEF input_drop, Masked, SessionSteps
<1>10. ASSUME NEW t \in Pollers, sys_event_get(t) PROVE CpuTypes'
  BY <1>10, MaskingOps DEF sys_event_get
<1>11. ASSUME NEW t \in Pollers, sys_key_pressed(t) PROVE CpuTypes'
  BY <1>11, MaskingOps DEF sys_key_pressed
<1>12. ASSUME NEW d \in Inputs, handle_irq(d) PROVE CpuTypes'
  <2>1. Woken(d) \in Seq(Tasks)
    <3>1. condvar[d] \in Seq(Tasks)
      BY DEF InputTypes
    <3> QED
      BY Zenon, <3>1, QueuePop, QueueEmpty DEF Woken, InOnePlace
  <2>2. ready \o Woken(d) \in Seq(Tasks)
    BY <2>1, QueueConcat
  <2> HIDE DEF Steps, CommonSteps, ReadSteps, WaitSteps, PollSteps, FsSteps, IoSteps
  <2> QED
    BY <1>12, <2>2, HandledNeutral DEF handle_irq
<1>13. CASE blk_handle_irq
  <2>1. ready \o used \in Seq(Tasks)
    BY QueueConcat
  <2> HIDE DEF Steps, CommonSteps, ReadSteps, WaitSteps, PollSteps, FsSteps, IoSteps
  <2> QED
    BY Zenon, <1>13, <2>1, QueueEmpty, HandledNeutral DEF blk_handle_irq
<1>14. ASSUME NEW t \in FsUsers, io_enter(t) PROVE CpuTypes'
  BY <1>14, MaskingOps DEF io_enter, Masked, SessionSteps
<1>15. ASSUME NEW t \in FsUsers, io_submit(t) PROVE CpuTypes'
  BY <1>15, MaskingOps DEF io_submit
<1>16. ASSUME NEW t \in FsUsers, io_drop(t) PROVE CpuTypes'
  BY <1>16, MaskingOps DEF io_drop, Masked, SessionSteps
<1>17. ASSUME NEW t \in FsUsers, io_done(t) PROVE CpuTypes'
  BY <1>17 DEF io_done, CallsReady, CallReady
<1>18. ASSUME NEW t \in FsUsers, lock(t) PROVE CpuTypes'
  BY <1>18 DEF lock
<1>19. ASSUME NEW t \in FsUsers, get_block_cache(t) PROVE CpuTypes'
  <2>1. PICK x \in {"get_data", "access", "io_enter"} :
          pc' = [pc EXCEPT ![t] = x] \/ pc' = pc
    BY Zenon, <1>19 DEF get_block_cache, Request
  <2> QED
    BY Zenon, <1>19, <2>1 DEF get_block_cache
<1>20. ASSUME NEW t \in FsUsers, access(t) PROVE CpuTypes'
  BY Zenon, <1>20 DEF access
<1>21. ASSUME NEW t \in FsUsers, block_cache_sync_all(t) PROVE CpuTypes'
  BY <1>21 DEF block_cache_sync_all, Request
<1>22. ASSUME NEW t \in FsUsers, unlock(t) PROVE CpuTypes'
  BY <1>22 DEF unlock
<1>23. ASSUME NEW d \in Inputs, arrives(d) PROVE CpuTypes'
  BY <1>23 DEF arrives, cpu
<1>24. ASSUME NEW t \in FsUsers, device_done(t) PROVE CpuTypes'
  BY <1>24 DEF device_done, cpu
<1> QED
  BY ONLY Zenon, Next, <1>1, <1>2, <1>3, <1>4, <1>5, <1>6, <1>7, <1>8, <1>9, <1>10, <1>11, <1>12, <1>13, <1>14,
     <1>15, <1>16, <1>17, <1>18, <1>19, <1>20, <1>21, <1>22, <1>23, <1>24
  DEF Next, CpuStep, uart_read, read_event, read_step, irq_handler, uart_handle_irq, input_handle_irq, Inputs

-----------------------------------------------------------------------------
(* What each part of the state has to do with a step                       *)

\* The steps that touch the input devices and their buffers.
InputMoves ==
  \/ \E t \in Readers \cup Pollers : input_test(t)
  \/ \E t \in Pollers : sys_event_get(t)
  \/ \E d \in Inputs : handle_irq(d) \/ arrives(d)

\* The steps of a task through the file system and the disk.
FsMoves(t) ==
  \/ trap_handler(t)
  \/ schedule(t) /\ pc[t] = "switch_io"
  \/ io_enter(t) \/ io_submit(t) \/ io_drop(t) \/ io_done(t)
  \/ lock(t) \/ get_block_cache(t) \/ access(t) \/ block_cache_sync_all(t) \/ unlock(t)
  \/ device_done(t)

\* No one moves inside the file system.
FsQuiet ==
  /\ UNCHANGED <<io, inflight, disk, fs>>
  /\ \A u \in FsUsers :
       pc'[u] = pc[u] \/ (pc[u] \in CommonSteps /\ pc'[u] \in CommonSteps)

\* Only get_block_cache may run out of entries.
LEMMA Frames ==
  ASSUME CpuTypes, Next
  PROVE  /\ UNCHANGED input \/ InputMoves
         /\ FsQuiet \/ \E t \in FsUsers : FsMoves(t)
         /\ \/ panicked' \in {panicked, "device", "task_manager"}
            \/ \E t \in FsUsers : get_block_cache(t)
<1> DEFINE Goal == /\ UNCHANGED input \/ InputMoves
                   /\ FsQuiet \/ \E t \in FsUsers : FsMoves(t)
                   /\ \/ panicked' \in {panicked, "device", "task_manager"}
                      \/ \E t \in FsUsers : get_block_cache(t)
<1> SUFFICES Goal
  OBVIOUS
<1> USE Kinds
<1>1. CASE run_tasks
  BY <1>1 DEF run_tasks, FsQuiet, blk, fs
<1>2. ASSUME NEW t \in Tasks, schedule(t) PROVE Goal
  <2>1. UNCHANGED <<input, blk, fs, panicked>> /\ pc[t] \in DOMAIN Resume
          /\ pc' = [pc EXCEPT ![t] = Resume[pc[t]]]
    BY <1>2 DEF schedule, Goto
  <2>2. CASE t \in FsUsers /\ pc[t] = "switch_io"
    BY <1>2, <2>1, <2>2 DEF FsMoves
  <2>3. CASE ~(t \in FsUsers /\ pc[t] = "switch_io")
    <3>1. t \in FsUsers => pc[t] = "switch_ret"
      BY <2>1, <2>3 DEF CpuTypes, Resume, CommonSteps, FsSteps, IoSteps
    <3> QED
      <4>1. ASSUME NEW u \in FsUsers
            PROVE  pc'[u] = pc[u] \/ (pc[u] \in CommonSteps /\ pc'[u] \in CommonSteps)
        <5>1. pc[t] = "switch_ret" => Resume[pc[t]] = "ret"
          BY DEF Resume
        <5> QED
          BY <2>1, <3>1, <5>1 DEF CpuTypes, CommonSteps
      <4> QED
        BY <2>1, <4>1 DEF FsQuiet, blk
  <2> QED
    BY <2>2, <2>3
<1>3. ASSUME NEW t \in Tasks, trap_handler(t) PROVE Goal
  BY <1>3 DEF trap_handler, FsQuiet, FsMoves, Runs, Goto, CpuTypes, CommonSteps, ReadSteps, WaitSteps, PollSteps, IoSteps, FsSteps, blk, fs
<1>4. ASSUME NEW t \in Tasks, timer_interrupt(t) PROVE Goal
  BY <1>4 DEF timer_interrupt, FsQuiet, Runs, Goto, CpuTypes, CommonSteps, ReadSteps, WaitSteps, PollSteps, IoSteps, FsSteps, blk, fs
<1>5. ASSUME NEW t \in Tasks, suspend(t) PROVE Goal
  BY <1>5 DEF suspend, FsQuiet, Runs, Goto, CpuTypes, CommonSteps, ReadSteps, WaitSteps, PollSteps, IoSteps, FsSteps, blk, fs
<1>6. ASSUME NEW t \in Tasks, trap_return(t) PROVE Goal
  BY <1>6 DEF trap_return, FsQuiet, Runs, Goto, CpuTypes, CommonSteps, ReadSteps, WaitSteps, PollSteps, IoSteps, FsSteps, blk, fs
<1>7. ASSUME NEW t \in Readers \cup Pollers, input_enter(t) PROVE Goal
  BY <1>7 DEF input_enter, FsQuiet, Runs, Goto, CpuTypes, CommonSteps, blk, fs
<1>8. ASSUME NEW t \in Readers \cup Pollers, input_test(t) PROVE Goal
  BY <1>8 DEF input_test, InputMoves, FsQuiet, Runs, Goto, CpuTypes, CommonSteps, blk, fs
<1>9. ASSUME NEW t \in Readers \cup Pollers, input_drop(t) PROVE Goal
  BY <1>9 DEF input_drop, FsQuiet, Runs, Goto, CpuTypes, CommonSteps, blk, fs
<1>10. ASSUME NEW t \in Pollers, sys_event_get(t) PROVE Goal
  BY <1>10 DEF sys_event_get, InputMoves, FsQuiet, Runs, Goto, CpuTypes, CommonSteps, blk, fs
<1>11. ASSUME NEW t \in Pollers, sys_key_pressed(t) PROVE Goal
  BY <1>11 DEF sys_key_pressed, FsQuiet, Runs, Goto, CpuTypes, CommonSteps, blk, fs
<1>12. ASSUME NEW d \in Inputs, handle_irq(d) PROVE Goal
  BY Zenon, <1>12 DEF handle_irq, InputMoves, FsQuiet, blk, fs
<1>13. CASE blk_handle_irq
  BY <1>13 DEF blk_handle_irq, FsQuiet, fs
<1>14. ASSUME NEW t \in FsUsers, io_enter(t) PROVE Goal
  BY <1>14 DEF io_enter, FsMoves
<1>15. ASSUME NEW t \in FsUsers, io_submit(t) PROVE Goal
  BY <1>15 DEF io_submit, FsMoves
<1>16. ASSUME NEW t \in FsUsers, io_drop(t) PROVE Goal
  BY <1>16 DEF io_drop, FsMoves
<1>17. ASSUME NEW t \in FsUsers, io_done(t) PROVE Goal
  BY Zenon, <1>17 DEF io_done, FsMoves
<1>18. ASSUME NEW t \in FsUsers, lock(t) PROVE Goal
  BY <1>18 DEF lock, FsMoves
<1>19. ASSUME NEW t \in FsUsers, get_block_cache(t) PROVE Goal
  BY Zenon, <1>19 DEF get_block_cache, FsMoves
<1>20. ASSUME NEW t \in FsUsers, access(t) PROVE Goal
  BY Zenon, <1>20 DEF access, FsMoves
<1>21. ASSUME NEW t \in FsUsers, block_cache_sync_all(t) PROVE Goal
  BY <1>21 DEF block_cache_sync_all, FsMoves
<1>22. ASSUME NEW t \in FsUsers, unlock(t) PROVE Goal
  BY Zenon, <1>22 DEF unlock, FsMoves
<1>23. ASSUME NEW d \in Inputs, arrives(d) PROVE Goal
  BY Zenon, <1>23 DEF arrives, InputMoves, FsQuiet, blk, fs, cpu
<1>24. ASSUME NEW t \in FsUsers, device_done(t) PROVE Goal
  BY <1>24 DEF device_done, FsMoves
<1> HIDE DEF Goal
<1> QED
  BY ONLY Zenon, Next, <1>1, <1>2, <1>3, <1>4, <1>5, <1>6, <1>7, <1>8, <1>9, <1>10, <1>11, <1>12, <1>13, <1>14, <1>15, <1>16, <1>17, <1>18, <1>19, <1>20, <1>21, <1>22, <1>23, <1>24
  DEF Next, CpuStep, uart_read, read_event, read_step, irq_handler, uart_handle_irq, input_handle_irq, Inputs

-----------------------------------------------------------------------------
(* The masking of interrupts                                               *)

\* A session opens and closes with the masking of interrupts, whoever runs.
LEMMA MaskedStep ==
  ASSUME CpuTypes, Masked, CallsReady, Next
  PROVE  Masked'
<1> USE Kinds DEF Runs, Goto, SessionSteps
<1>p. pc \in [Tasks -> Steps] /\ masking \in Maskings
  BY DEF CpuTypes
<1>1. CASE run_tasks
  BY <1>1, <1>p DEF Masked, run_tasks
<1>2. ASSUME NEW t \in Tasks, schedule(t) PROVE Masked'
  BY <1>2, <1>p DEF Masked, schedule, Resume
<1>3. ASSUME NEW t \in Tasks, trap_handler(t) PROVE Masked'
  BY <1>3, <1>p DEF Masked, trap_handler, Maskings
<1>4. ASSUME NEW t \in Tasks, timer_interrupt(t) PROVE Masked'
  BY <1>4, <1>p DEF Masked, timer_interrupt
<1>5. ASSUME NEW t \in Tasks, suspend(t) PROVE Masked'
  BY <1>5, <1>p DEF Masked, suspend
<1>6. ASSUME NEW t \in Tasks, trap_return(t) PROVE Masked'
  BY <1>6, <1>p DEF Masked, trap_return, Maskings
<1>7. ASSUME NEW t \in Readers \cup Pollers, input_enter(t) PROVE Masked'
  BY <1>7, <1>p, MaskingOps DEF Masked, input_enter
<1>8. ASSUME NEW t \in Readers \cup Pollers, input_test(t) PROVE Masked'
  BY <1>8, <1>p, MaskingOps DEF Masked, input_test
<1>9. ASSUME NEW t \in Readers \cup Pollers, input_drop(t) PROVE Masked'
  BY <1>9, <1>p, MaskingOps DEF Masked, input_drop
<1>10. ASSUME NEW t \in Pollers, sys_event_get(t) PROVE Masked'
  BY <1>10, <1>p, MaskingOps DEF Masked, sys_event_get
<1>11. ASSUME NEW t \in Pollers, sys_key_pressed(t) PROVE Masked'
  BY <1>11, <1>p, MaskingOps DEF Masked, sys_key_pressed
<1>12. ASSUME NEW d \in Inputs, handle_irq(d) PROVE Masked'
  BY Zenon, <1>12, <1>p, NotBorrowed, HandledNeutral DEF Masked, handle_irq
<1>13. CASE blk_handle_irq
  BY <1>13, <1>p, NotBorrowed, HandledNeutral DEF Masked, blk_handle_irq
<1>14. ASSUME NEW t \in FsUsers, io_enter(t) PROVE Masked'
  BY <1>14, <1>p, MaskingOps DEF Masked, io_enter
<1>15. ASSUME NEW t \in FsUsers, io_submit(t) PROVE Masked'
  BY <1>15, <1>p, MaskingOps DEF Masked, io_submit
<1>16. ASSUME NEW t \in FsUsers, io_drop(t) PROVE Masked'
  BY <1>16, <1>p, MaskingOps DEF Masked, io_drop
<1>17. ASSUME NEW t \in FsUsers, io_done(t) PROVE Masked'
  <2>1. io[t].then \notin SessionSteps
    BY <1>17 DEF io_done, CallsReady, CallReady, IoSteps
  <2> QED
    BY <1>17, <1>p, <2>1 DEF Masked, io_done
<1>18. ASSUME NEW t \in FsUsers, lock(t) PROVE Masked'
  BY <1>18, <1>p DEF Masked, lock
<1>19. ASSUME NEW t \in FsUsers, get_block_cache(t) PROVE Masked'
  BY Zenon, <1>19, <1>p DEF Masked, get_block_cache, Request
<1>20. ASSUME NEW t \in FsUsers, access(t) PROVE Masked'
  BY Zenon, <1>20, <1>p DEF Masked, access
<1>21. ASSUME NEW t \in FsUsers, block_cache_sync_all(t) PROVE Masked'
  BY <1>21, <1>p DEF Masked, block_cache_sync_all, Request
<1>22. ASSUME NEW t \in FsUsers, unlock(t) PROVE Masked'
  BY <1>22, <1>p DEF Masked, unlock
<1>23. ASSUME NEW d \in Inputs, arrives(d) PROVE Masked'
  BY <1>23, <1>p DEF Masked, arrives, cpu
<1>24. ASSUME NEW t \in FsUsers, device_done(t) PROVE Masked'
  BY <1>24, <1>p DEF Masked, device_done, cpu
<1> QED
  BY ONLY Zenon, Next, <1>1, <1>2, <1>3, <1>4, <1>5, <1>6, <1>7, <1>8, <1>9, <1>10, <1>11, <1>12, <1>13, <1>14, <1>15, <1>16, <1>17, <1>18, <1>19, <1>20, <1>21, <1>22, <1>23, <1>24
  DEF Next, CpuStep, uart_read, read_event, read_step, irq_handler, uart_handle_irq, input_handle_irq, Inputs

-----------------------------------------------------------------------------
(* The queues                                                              *)

SwitchSteps == {"switch_ret", "switch_input", "switch_io", "queued", "io_queued"}

\* The task on the processor goes on, and no queue changes.
LEMMA OwnStep ==
  ASSUME CpuTypes, InOnePlace, NEW t \in Tasks, current = t, pc[t] \notin SwitchSteps,
         NEW x, pc' = [pc EXCEPT ![t] = x], UNCHANGED <<current, ready, condvar, inflight, used>>
  PROVE  InOnePlace'
<1>1. pc \in [Tasks -> Steps]
  BY DEF CpuTypes
<1> QED
  BY <1>1 DEF InOnePlace, SwitchSteps

\* A task moves from one queue to another and is never in two.
LEMMA InOnePlaceStep ==
  ASSUME CpuTypes, InputTypes, BlockTypes, InOnePlace, EventSeen, Next
  PROVE  InOnePlace'
<1> USE Kinds DEF Runs, Goto
<1>p. /\ pc \in [Tasks -> Steps] /\ ready \in Seq(Tasks) /\ used \in Seq(Tasks)
      /\ condvar \in [Inputs -> Seq(Tasks)] /\ "uart" \in Inputs
      /\ current \in Tasks \cup {Idle}
  BY DEF CpuTypes, InputTypes, Inputs
<1>1. CASE run_tasks
  <2>1. CASE idle_pc = "top" \/ ready = <<>>
    BY <1>1, <2>1 DEF run_tasks, input, blk, InOnePlace
  <2>2. CASE ~(idle_pc = "top" \/ ready = <<>>)
    <3> DEFINE t == Head(ready)
               rest == Tail(ready)
    <3>1. /\ t \in Tasks /\ t \in Range(ready)
          /\ Range(rest) = Range(ready) \ {t} /\ IsInjective(rest)
      BY <1>p, <2>2, QueuePop DEF InOnePlace
    <3>2. /\ current = Idle /\ current' = t /\ ready' = rest
          /\ UNCHANGED <<pc, condvar, inflight, used>>
      BY <1>1, <2>2 DEF run_tasks, fetch, input, blk
    <3> HIDE DEF t, rest
    <3> QED
      BY <1>p, <3>1, <3>2 DEF InOnePlace
  <2> QED
    BY <2>1, <2>2
<1>2. ASSUME NEW t \in Tasks, schedule(t) PROVE InOnePlace'
  BY <1>2, <1>p DEF schedule, Resume, input, blk, InOnePlace
<1>3. ASSUME NEW t \in Tasks, suspend(t) PROVE InOnePlace'
  <2>1. t \notin Range(ready) /\ t \notin inflight \cup Range(used) /\ t \notin Range(condvar["uart"])
    BY <1>3 DEF suspend, InOnePlace
  <2>2. /\ ready' = Append(ready, t) /\ Range(ready') = Range(ready) \cup {t} /\ IsInjective(ready')
        /\ pc' = [pc EXCEPT ![t] = "switch_ret"] /\ UNCHANGED <<current, condvar, inflight, used>>
        /\ current = t
    BY <1>3, <1>p, <2>1, QueuePush DEF suspend, InOnePlace, input, blk
  <2> QED
    BY <1>p, <2>1, <2>2 DEF InOnePlace
<1>4. ASSUME NEW t \in Readers \cup Pollers, input_test(t) PROVE InOnePlace'
  <2>1. CASE buffer[dev[t]] # <<>>
    BY <1>4, <2>1, OwnStep DEF input_test, SwitchSteps, blk
  <2>2. CASE buffer[dev[t]] = <<>>
    <3>1. t \in Readers /\ dev[t] = "uart"
      BY <1>4, <2>2 DEF input_test, EventSeen
    <3>2. t \notin Range(ready) /\ t \notin inflight \cup Range(used) /\ t \notin Range(condvar["uart"])
      BY <1>4 DEF input_test, InOnePlace
    <3> DEFINE w == Append(condvar["uart"], t)
    <3>3. Range(w) = Range(condvar["uart"]) \cup {t} /\ IsInjective(w)
      BY <1>p, <3>2, QueuePush DEF InOnePlace
    <3> HIDE DEF w
    <3>4. /\ condvar' = [condvar EXCEPT !["uart"] = w]
          /\ pc' = [pc EXCEPT ![t] = "queued"] /\ UNCHANGED <<current, ready, inflight, used>>
          /\ current = t
      BY <1>4, <2>2, <3>1 DEF input_test, blk, w
    <3> QED
      BY <1>p, <3>2, <3>3, <3>4 DEF InOnePlace
  <2> QED
    BY <2>1, <2>2
<1>5. ASSUME NEW t \in Readers \cup Pollers, input_drop(t) PROVE InOnePlace'
  BY <1>5, <1>p DEF input_drop, input, blk, InOnePlace
<1>6. ASSUME NEW d \in Inputs, handle_irq(d) PROVE InOnePlace'
  <2>1. CASE condvar[d] = <<>> \/ UNCHANGED <<ready, condvar>>
    <3>1. UNCHANGED <<ready, condvar>>
      <4>1. CASE UNCHANGED <<ready, condvar>>
        BY <4>1
      <4>2. CASE condvar[d] = <<>> /\ ~UNCHANGED <<ready, condvar>>
        <5>1. Woken(d) = <<>> /\ Len(Woken(d)) = 0 /\ ready \o <<>> = ready
          BY <1>p, <4>2 DEF Woken
        <5>2. SubSeq(condvar[d], Len(Woken(d)) + 1, Len(condvar[d])) = <<>>
          BY <4>2, <5>1
        <5> QED
          BY Zenon, <1>6, <1>p, <4>2, <5>1, <5>2 DEF handle_irq
      <4> QED
        BY <2>1, <4>1, <4>2
    <3> QED
      BY Zenon, <1>6, <3>1 DEF handle_irq, blk, InOnePlace
  <2>2. CASE condvar[d] # <<>> /\ ~UNCHANGED <<ready, condvar>>
    <3>1. d = "uart"
      BY <2>2 DEF InOnePlace
    <3> DEFINE w == condvar["uart"]
    <3>2. /\ Head(w) \in Tasks /\ Head(w) \in Range(w) /\ Tail(w) \in Seq(Tasks)
          /\ Range(Tail(w)) = Range(w) \ {Head(w)} /\ IsInjective(Tail(w))
      BY <1>p, <2>2, <3>1, QueuePop DEF InOnePlace
    <3>3. Woken(d) = <<Head(w)>> /\ Len(Woken(d)) = 1
      BY <2>2, <3>1 DEF Woken
    <3>4. SubSeq(w, Len(Woken(d)) + 1, Len(w)) = Tail(w)
      <4>1. Tail(w) = SubSeq(w, 2, Len(w))
        BY <1>p, <2>2, <3>1
      <4>2. Len(Woken(d)) + 1 = 2
        BY <3>3
      <4> QED
        BY <4>1, <4>2
    <3>5. /\ condvar' = [condvar EXCEPT !["uart"] = Tail(w)]
          /\ ready' = ready \o <<Head(w)>> /\ UNCHANGED <<current, pc, inflight, used>>
      BY Zenon, <1>6, <1>p, <2>2, <3>1, <3>3, <3>4 DEF handle_irq, blk
    <3>6. Range(ready') = Range(ready) \cup {Head(w)} /\ IsInjective(ready')
      <4> DEFINE e == <<Head(w)>>
      <4>1. Head(w) \notin Range(ready) /\ IsInjective(ready)
        BY <3>2 DEF InOnePlace
      <4>2. Range(e) = {Head(w)} /\ IsInjective(e) /\ e \in Seq(Tasks)
        BY Zenon, <3>2, QueueEmpty
      <4>3. ready' = ready \o e
        BY <3>5
      <4> HIDE DEF e, w
      <4>4. Range(ready) \cap Range(e) = {}
        BY <4>1, <4>2
      <4> QED
        BY ONLY <1>p, <4>1, <4>2, <4>3, <4>4, QueueConcat
    <3>7. Head(w) \notin inflight \cup Range(used)
      BY <3>2 DEF InOnePlace
    <3>8. condvar'["uart"] = Tail(w) /\ \A e \in Inputs : e # "uart" => condvar'[e] = condvar[e]
      BY <1>p, <3>5
    <3>9. Head(w) = current => pc[current] \in {"queued", "switch_input"}
      BY <1>p, <3>2 DEF InOnePlace
    <3> QED
      BY Zenon, <1>p, <3>2, <3>5, <3>6, <3>7, <3>8, <3>9 DEF InOnePlace
  <2> QED
    BY <2>1, <2>2
<1>7. CASE blk_handle_irq
  <2>1. CASE UNCHANGED <<ready, used>>
    BY Zenon, <1>7, <2>1 DEF blk_handle_irq, input, InOnePlace
  <2>2. CASE ~UNCHANGED <<ready, used>>
    <3>1. ready' = ready \o used /\ used' = <<>> /\ UNCHANGED <<current, pc, condvar, inflight>>
      BY <1>7, <2>2 DEF blk_handle_irq, input
    <3>2. Range(ready) \cap Range(used) = {}
      BY <1>p DEF InOnePlace
    <3>3. /\ Range(ready') = Range(ready) \cup Range(used) /\ IsInjective(ready')
          /\ Range(used') = {} /\ IsInjective(used')
      <4>1. Range(used') = {} /\ IsInjective(used')
        BY <3>1 DEF Range, IsInjective
      <4> QED
        BY ONLY <1>p, <3>1, <3>2, <4>1, QueueConcat, InOnePlace DEF InOnePlace
    <3> QED
      BY Zenon, <1>p, <3>1, <3>3 DEF InOnePlace
  <2> QED
    BY <2>1, <2>2
<1>8. ASSUME NEW t \in FsUsers, io_submit(t) PROVE InOnePlace'
  BY <1>8, <1>p DEF io_submit, input, InOnePlace
<1>9. ASSUME NEW t \in FsUsers, io_drop(t) PROVE InOnePlace'
  BY <1>9, <1>p DEF io_drop, input, blk, InOnePlace
<1>10. ASSUME NEW t \in FsUsers, device_done(t) PROVE InOnePlace'
  <2>1. /\ t \in inflight /\ t \notin Range(used) /\ inflight' = inflight \ {t}
        /\ used' = Append(used, t) /\ UNCHANGED <<current, ready, pc, condvar>>
    BY <1>10 DEF device_done, cpu, input, InOnePlace
  <2>2. Range(used') = Range(used) \cup {t} /\ IsInjective(used')
    BY <1>p, <2>1, QueuePush DEF InOnePlace
  <2> QED
    BY <1>p, <2>1, <2>2 DEF InOnePlace
<1>11. ASSUME NEW d \in Inputs, arrives(d) PROVE InOnePlace'
  BY <1>11, <1>p DEF arrives, cpu, blk, InOnePlace
<1>12. ASSUME NEW t \in Tasks, trap_handler(t) PROVE InOnePlace'
  BY Zenon, <1>12, OwnStep DEF trap_handler, input, blk, SwitchSteps
<1>13. ASSUME NEW t \in Tasks, timer_interrupt(t) PROVE InOnePlace'
  BY Zenon, <1>13, OwnStep DEF timer_interrupt, input, blk, SwitchSteps
<1>14. ASSUME NEW t \in Tasks, trap_return(t) PROVE InOnePlace'
  BY Zenon, <1>14, OwnStep DEF trap_return, input, blk, SwitchSteps
<1>15. ASSUME NEW t \in Readers \cup Pollers, input_enter(t) PROVE InOnePlace'
  BY Zenon, <1>15, OwnStep DEF input_enter, input, blk, SwitchSteps
<1>16. ASSUME NEW t \in Pollers, sys_event_get(t) PROVE InOnePlace'
  BY Zenon, <1>16, OwnStep DEF sys_event_get, input, blk, SwitchSteps
<1>17. ASSUME NEW t \in Pollers, sys_key_pressed(t) PROVE InOnePlace'
  BY Zenon, <1>17, OwnStep DEF sys_key_pressed, input, blk, SwitchSteps
<1>18. ASSUME NEW t \in FsUsers, io_enter(t) PROVE InOnePlace'
  BY Zenon, <1>18, OwnStep DEF io_enter, input, blk, SwitchSteps
<1>19. ASSUME NEW t \in FsUsers, io_done(t) PROVE InOnePlace'
  BY Zenon, <1>19, OwnStep DEF io_done, input, SwitchSteps
<1>20. ASSUME NEW t \in FsUsers, lock(t) PROVE InOnePlace'
  BY Zenon, <1>20, OwnStep DEF lock, input, blk, SwitchSteps
<1>21. ASSUME NEW t \in FsUsers, access(t) PROVE InOnePlace'
  BY Zenon, <1>21, OwnStep DEF access, input, blk, SwitchSteps
<1>22. ASSUME NEW t \in FsUsers, block_cache_sync_all(t) PROVE InOnePlace'
  BY Zenon, <1>22, OwnStep DEF block_cache_sync_all, input, Request, SwitchSteps
<1>23. ASSUME NEW t \in FsUsers, unlock(t) PROVE InOnePlace'
  BY Zenon, <1>23, OwnStep DEF unlock, input, blk, SwitchSteps
<1>24. ASSUME NEW t \in FsUsers, get_block_cache(t) PROVE InOnePlace'
  <2>1. UNCHANGED pc \/ \E x : pc' = [pc EXCEPT ![t] = x]
    BY Zenon, <1>24 DEF get_block_cache, Request
  <2>2. current = t /\ pc[t] \notin SwitchSteps /\ UNCHANGED <<current, ready, condvar, inflight, used>>
    BY <1>24 DEF get_block_cache, SwitchSteps, input
  <2>3. CASE UNCHANGED pc
    BY Zenon, <2>2, <2>3 DEF InOnePlace
  <2> QED
    BY <2>1, <2>2, <2>3, OwnStep
<1> QED
  BY ONLY Zenon, Next, <1>1, <1>2, <1>3, <1>4, <1>5, <1>6, <1>7, <1>8, <1>9, <1>10, <1>11, <1>12, <1>13, <1>14, <1>15, <1>16, <1>17, <1>18, <1>19, <1>20, <1>21, <1>22, <1>23, <1>24
  DEF Next, CpuStep, uart_read, read_event, read_step, irq_handler, uart_handle_irq, input_handle_irq, Inputs

-----------------------------------------------------------------------------
(* The input devices                                                       *)

\* Every step stays within the types of the input devices.
LEMMA InputTypesStep ==
  ASSUME CpuTypes, InputTypes, InOnePlace, Next
  PROVE  InputTypes'
<1>1. CASE UNCHANGED input
  BY <1>1 DEF input, InputTypes
<1>2. ASSUME NEW t \in Readers \cup Pollers, input_test(t) PROVE InputTypes'
  <2>1. dev[t] \in Inputs /\ buffer[dev[t]] \in Seq(Inputs) /\ condvar[dev[t]] \in Seq(Tasks)
    BY DEF InputTypes
  <2>2. buffer[dev[t]] # <<>> => Tail(buffer[dev[t]]) \in Seq(Inputs)
    BY <2>1
  <2>3. Append(condvar[dev[t]], t) \in Seq(Tasks)
    BY <2>1, Kinds, QueuePush
  <2> QED
    <3>1. CASE buffer[dev[t]] # <<>>
      <4>1. received[dev[t]] + 1 \in Nat
        BY <2>1 DEF InputTypes
      <4> QED
        BY Zenon, <1>2, <2>1, <2>2, <3>1, <4>1 DEF input_test, InputTypes
    <3>2. CASE buffer[dev[t]] = <<>>
      BY Zenon, <1>2, <2>1, <2>3, <3>2 DEF input_test, InputTypes
    <3> QED
      BY <3>1, <3>2
<1>3. ASSUME NEW t \in Pollers, sys_event_get(t) PROVE InputTypes'
  BY Zenon, <1>3 DEF sys_event_get, InputTypes, next_source, Inputs
<1>4. ASSUME NEW d \in Inputs, handle_irq(d) PROVE InputTypes'
  <2>1. rx[d] \in Seq(Inputs) /\ buffer[d] \in Seq(Inputs) /\ condvar[d] \in Seq(Tasks)
    BY DEF InputTypes
  <2>2. <<>> \in Seq(Inputs) /\ buffer[d] \o rx[d] \in Seq(Inputs)
    BY <2>1, QueueConcat, QueueEmpty
  <2>3. SubSeq(condvar[d], Len(Woken(d)) + 1, Len(condvar[d])) \in Seq(Tasks)
    <3>1. Len(Woken(d)) \in Nat /\ Len(condvar[d]) \in Nat
      BY <2>1, QueueEmptyRange DEF Woken
    <3>2. \A i \in Len(Woken(d)) + 1 .. Len(condvar[d]) : condvar[d][i] \in Tasks
      BY <2>1, <3>1
    <3> QED
      BY <3>1, <3>2
  <2> QED
    BY Zenon, <1>4, <2>2, <2>3 DEF handle_irq, InputTypes
<1>5. ASSUME NEW d \in Inputs, arrives(d) PROVE InputTypes'
  <2>1. Append(rx[d], d) \in Seq(Inputs)
    BY QueuePush DEF InputTypes
  <2> QED
    BY <1>5, <2>1 DEF arrives, InputTypes
<1> QED
  BY <1>1, <1>2, <1>3, <1>4, <1>5, Frames DEF InputMoves

\* Nobody takes the event a poller has seen before the poller does.
LEMMA EventSeenStep ==
  ASSUME CpuTypes, InputTypes, EventSeen, Next
  PROVE  EventSeen'
<1> USE Kinds DEF Runs, Goto, EventSeen
<1>p. /\ pc \in [Tasks -> Steps] /\ current \in Tasks \cup {Idle}
      /\ dev \in [Readers \cup Pollers -> Inputs] /\ buffer \in [Inputs -> Seq(Inputs)]
  BY DEF CpuTypes, InputTypes
<1>1. CASE run_tasks
  BY <1>1, <1>p DEF run_tasks, input
<1>2. ASSUME NEW t \in Tasks, schedule(t) PROVE EventSeen'
  <2>1. /\ current = t /\ pc[t] \in {"switch_ret", "switch_input", "switch_io"}
        /\ pc' = [pc EXCEPT ![t] = Resume[pc[t]]] /\ UNCHANGED <<dev, buffer>>
    BY Zenon, <1>2 DEF schedule, Resume, input
  <2>2. t \in Pollers => pc[t] = "switch_ret"
    BY <2>1 DEF CpuTypes, CommonSteps, ReadSteps, PollSteps
  <2>3. pc[t] = "switch_ret" => Resume[pc[t]] = "ret"
    BY DEF Resume
  <2> QED
    BY <1>p, <2>1, <2>2, <2>3
<1>3. ASSUME NEW t \in Tasks, trap_handler(t) PROVE EventSeen'
  BY <1>3, <1>p DEF trap_handler, input
<1>4. ASSUME NEW t \in Tasks, timer_interrupt(t) PROVE EventSeen'
  BY <1>4, <1>p DEF timer_interrupt, input
<1>5. ASSUME NEW t \in Tasks, suspend(t) PROVE EventSeen'
  BY <1>5, <1>p DEF suspend, input
<1>6. ASSUME NEW t \in Tasks, trap_return(t) PROVE EventSeen'
  BY <1>6, <1>p DEF trap_return, input
<1>7. ASSUME NEW t \in Readers \cup Pollers, input_enter(t) PROVE EventSeen'
  BY <1>7, <1>p DEF input_enter, input
<1>8. ASSUME NEW t \in Readers \cup Pollers, input_test(t) PROVE EventSeen'
  BY <1>8, <1>p DEF input_test
<1>9. ASSUME NEW t \in Readers \cup Pollers, input_drop(t) PROVE EventSeen'
  BY <1>9, <1>p DEF input_drop, input
<1>10. ASSUME NEW t \in Pollers, sys_event_get(t) PROVE EventSeen'
  BY <1>10, <1>p DEF sys_event_get, next_source
<1>11. ASSUME NEW t \in Pollers, sys_key_pressed(t) PROVE EventSeen'
  BY <1>11, <1>p DEF sys_key_pressed, input
<1>12. ASSUME NEW d \in Inputs, handle_irq(d) PROVE EventSeen'
  BY <1>12, <1>p DEF handle_irq
<1>13. CASE blk_handle_irq
  BY <1>13, <1>p DEF blk_handle_irq, input
<1>14. ASSUME NEW t \in FsUsers, io_enter(t) PROVE EventSeen'
  BY <1>14, <1>p DEF io_enter, input
<1>15. ASSUME NEW t \in FsUsers, io_submit(t) PROVE EventSeen'
  BY <1>15, <1>p DEF io_submit, input
<1>16. ASSUME NEW t \in FsUsers, io_drop(t) PROVE EventSeen'
  BY <1>16, <1>p DEF io_drop, input
<1>17. ASSUME NEW t \in FsUsers, io_done(t) PROVE EventSeen'
  BY <1>17, <1>p DEF io_done, input
<1>18. ASSUME NEW t \in FsUsers, lock(t) PROVE EventSeen'
  BY <1>18, <1>p DEF lock, input
<1>19. ASSUME NEW t \in FsUsers, get_block_cache(t) PROVE EventSeen'
  BY Zenon, <1>19, <1>p DEF get_block_cache, Request, input
<1>20. ASSUME NEW t \in FsUsers, access(t) PROVE EventSeen'
  BY Zenon, <1>20, <1>p DEF access, input
<1>21. ASSUME NEW t \in FsUsers, block_cache_sync_all(t) PROVE EventSeen'
  BY <1>21, <1>p DEF block_cache_sync_all, Request, input
<1>22. ASSUME NEW t \in FsUsers, unlock(t) PROVE EventSeen'
  BY <1>22, <1>p DEF unlock, input
<1>23. ASSUME NEW d \in Inputs, arrives(d) PROVE EventSeen'
  BY <1>23, <1>p DEF arrives, cpu
<1>24. ASSUME NEW t \in FsUsers, device_done(t) PROVE EventSeen'
  BY <1>24, <1>p DEF device_done, cpu, input
<1> QED
  BY ONLY Zenon, Next, <1>1, <1>2, <1>3, <1>4, <1>5, <1>6, <1>7, <1>8, <1>9, <1>10, <1>11, <1>12, <1>13, <1>14, <1>15, <1>16, <1>17, <1>18, <1>19, <1>20, <1>21, <1>22, <1>23, <1>24
  DEF Next, CpuStep, uart_read, read_event, read_step, irq_handler, uart_handle_irq, input_handle_irq, Inputs

-----------------------------------------------------------------------------
(* The disk and the block cache                                            *)

\* The entries of the cache are those at the positions of the queue, and the
\* entry to evict or to write back is one of them.
LEMMA CacheFacts ==
  ASSUME BlockTypes
  PROVE  /\ Len(cache) \in Nat /\ DOMAIN cache = 1..Len(cache)
         /\ \A i \in DOMAIN cache : cache[i] \in Entries
BY DEF BlockTypes

\* The blocks of the requests and entries, and the contents of a block.
LEMMA BlockFacts ==
  /\ INODE_BLOCK \in Blocks /\ DataBlocks \subseteq Blocks /\ INODE_BLOCK \notin DataBlocks
  /\ Blank \in Bytes /\ Values \subseteq Bytes
  /\ NoIo \in Requests /\ NoCall \in FsCalls
  /\ \A c \in Calls, v \in Values :
       /\ [op |-> c.op, blocks |-> c.blocks, data |-> v] \in FsCalls
       /\ c.blocks # <<>>
<1>1. INODE_BLOCK \in Blocks /\ DataBlocks \subseteq Blocks /\ INODE_BLOCK \notin DataBlocks
  BY Zenon, DeviceAssumption DEF Blocks
<1>2. Blank \in Bytes /\ Values \subseteq Bytes
  BY DEF Bytes
<1>3. NoIo \in Requests
  BY <1>1, <1>2 DEF NoIo, Requests
<1>4. NoCall \in FsCalls
  BY <1>2 DEF NoCall, FsCalls
<1>5. ASSUME NEW c \in Calls, NEW v \in Values
      PROVE  [op |-> c.op, blocks |-> c.blocks, data |-> v] \in FsCalls /\ c.blocks # <<>>
  <2>1. c.op \in {"read", "write"} /\ c.blocks \in Seq(DataBlocks) /\ c.blocks # <<>>
    BY DeviceAssumption
  <2> QED
    BY <1>2, <2>1 DEF FsCalls
<1> QED
  BY <1>1, <1>2, <1>3, <1>4, <1>5

\* The block that get_block_cache looks for, and where it continues.
Wanted(t) == IF pc[t] = "get_inode" THEN INODE_BLOCK ELSE Head(call[t].blocks)
After(t) == IF pc[t] = "get_inode" THEN "get_data" ELSE "access"

\* What get_block_cache does: a hit, a load into free room, or an eviction; it
\* never runs out, because at most one entry, that of the inode, is held.
LEMMA GetBlockOutcomes ==
  ASSUME CpuTypes, BlockTypes, CallsReady, ContentsKept, NEW t \in FsUsers, get_block_cache(t)
  PROVE  /\ current = t /\ pc[t] \in {"get_inode", "get_data"}
         /\ Wanted(t) \in Blocks /\ call[t].blocks # <<>>
         /\ UNCHANGED <<inflight, disk, fs_lock, call, written, panicked>>
         /\ \/ Cached(Wanted(t)) # {} /\ Goto(t, After(t)) /\ UNCHANGED <<io, cache>>
            \/ /\ Cached(Wanted(t)) = {} /\ Len(cache) < BLOCK_CACHE_SIZE /\ UNCHANGED cache
               /\ Request(t, "read", Wanted(t), Blank, After(t))
            \/ \E i \in DOMAIN cache :
                 /\ cache' = drain(cache, i)
                 /\ IF cache[i].modified
                    THEN Request(t, "write", cache[i].block, cache[i].data, pc[t])
                    ELSE /\ Cached(Wanted(t)) = {}
                         /\ Request(t, "read", Wanted(t), Blank, After(t))
<1>1. /\ current = t /\ pc[t] \in {"get_inode", "get_data"}
      /\ UNCHANGED <<inflight, disk, fs_lock, call, written>>
  BY Zenon DEF get_block_cache, Runs
<1>2. call[t].blocks # <<>>
  BY <1>1 DEF CallsReady, CallReady, NextStep, IoSteps
<1>3. Wanted(t) \in Blocks
  <2>1. call[t].blocks \in Seq(DataBlocks)
    BY DEF BlockTypes, FsCalls
  <2>2. Head(call[t].blocks) \in DataBlocks
    BY <1>2, <2>1
  <2> QED
    BY Zenon, <2>2, BlockFacts DEF Wanted
<1>4. Full => Evictable(t) # {}
  <2> SUFFICES ASSUME Full PROVE Evictable(t) # {}
    OBVIOUS
  <2>1. 1 \in DOMAIN cache /\ 2 \in DOMAIN cache
    BY CacheFacts, DeviceAssumption DEF Full
  <2>2. cache[1].block # INODE_BLOCK \/ cache[2].block # INODE_BLOCK
    <3>1. cache[1].block = cache[2].block => 1 = 2
      BY Zenon, <2>1 DEF ContentsKept
    <3> QED
      BY <3>1
  <2> QED
    BY <2>1, <2>2 DEF Evictable
<1>5. ~Full => Len(cache) < BLOCK_CACHE_SIZE
  <2>1. Len(cache) \in Nat /\ Len(cache) <= BLOCK_CACHE_SIZE
    BY Zenon, CacheFacts DEF BlockTypes
  <2> QED
    BY <2>1, DeviceAssumption DEF Full
<1>7. CASE Cached(Wanted(t)) # {}
  <2>1. Goto(t, After(t)) /\ UNCHANGED <<io, cache, panicked>>
    BY Zenon, <1>7 DEF get_block_cache, Wanted, After
  <2> QED
    BY Zenon, <1>1, <1>2, <1>3, <1>7, <2>1
<1>8. CASE Cached(Wanted(t)) = {} /\ ~Full
  <2>1. Request(t, "read", Wanted(t), Blank, After(t)) /\ UNCHANGED <<cache, panicked>>
    BY Zenon, <1>8 DEF get_block_cache, Wanted, After
  <2> QED
    BY Zenon, <1>1, <1>2, <1>3, <1>5, <1>8, <2>1
<1>9. CASE Cached(Wanted(t)) = {} /\ Full
  <2>1. PICK i \in Evictable(t) :
          /\ cache' = drain(cache, i) /\ UNCHANGED panicked
          /\ IF cache[i].modified
             THEN Request(t, "write", cache[i].block, cache[i].data, pc[t])
             ELSE Request(t, "read", Wanted(t), Blank, After(t))
    BY Zenon, <1>4, <1>9 DEF get_block_cache, Wanted, After, drop_syncs
  <2>2. i \in DOMAIN cache
    BY DEF Evictable
  <2> QED
    BY Zenon, <1>1, <1>2, <1>3, <1>9, <2>1, <2>2
<1> QED
  BY Zenon, <1>7, <1>8, <1>9

\* What access does to the cache: the entries stay, that of the block gets the data,
\* and it and the entry of the inode are modified.
LEMMA AccessOutcome ==
  ASSUME CpuTypes, BlockTypes, CallsReady, NEW t \in FsUsers, access(t)
  PROVE  /\ current = t /\ pc[t] = "access" /\ call[t].blocks # <<>>
         /\ Head(call[t].blocks) \in DataBlocks /\ Tail(call[t].blocks) \in Seq(DataBlocks)
         /\ call' = [call EXCEPT ![t].blocks = Tail(call[t].blocks)]
         /\ Goto(t, IF Tail(call[t].blocks) # <<>> THEN "get_data"
                    ELSE IF call[t].op = "read" THEN "unlock" ELSE "sync")
         /\ UNCHANGED <<io, inflight, disk, fs_lock, panicked>>
         /\ DOMAIN cache' = DOMAIN cache /\ cache' \in Seq(Entries) /\ Len(cache') = Len(cache)
         /\ \A i \in DOMAIN cache : cache'[i].block = cache[i].block
         /\ IF call[t].op = "read" THEN UNCHANGED <<cache, written>>
            ELSE /\ written' = [written EXCEPT ![Head(call[t].blocks)] = call[t].data]
                 /\ \A i \in DOMAIN cache :
                      /\ cache'[i].data = IF cache[i].block = Head(call[t].blocks)
                                          THEN call[t].data ELSE cache[i].data
                      /\ cache[i].modified \/ cache[i].block = Head(call[t].blocks)
                           => cache'[i].modified
<1> DEFINE b == Head(call[t].blocks)
           v == call[t].data
<1>1. current = t /\ pc[t] = "access"
  BY Zenon DEF access, Runs
<1>2. call[t].blocks # <<>> /\ call[t].blocks \in Seq(DataBlocks) /\ v \in Bytes
  BY Zenon, <1>1 DEF CallsReady, CallReady, NextStep, IoSteps, BlockTypes, FsCalls
<1>3. b \in DataBlocks /\ Tail(call[t].blocks) \in Seq(DataBlocks)
  BY <1>2
<1>4. /\ call' = [call EXCEPT ![t].blocks = Tail(call[t].blocks)]
      /\ UNCHANGED <<io, inflight, disk, fs_lock, panicked>>
      /\ Goto(t, IF Tail(call[t].blocks) # <<>> THEN "get_data"
                 ELSE IF call[t].op = "read" THEN "unlock" ELSE "sync")
  BY Zenon DEF access, blk
<1>5. CASE call[t].op = "read"
  <2>1. UNCHANGED <<cache, written>>
    BY Zenon, <1>5 DEF access
  <2> QED
    BY <1>1, <1>2, <1>3, <1>4, <1>5, <2>1 DEF BlockTypes
<1>6. CASE call[t].op # "read"
  <2> DEFINE n(i) == CASE cache[i].block = b -> [cache[i] EXCEPT !.data = v, !.modified = TRUE]
                       [] cache[i].block = INODE_BLOCK -> [cache[i] EXCEPT !.modified = TRUE]
                       [] OTHER -> cache[i]
  <2>1. cache' = [i \in DOMAIN cache |-> n(i)] /\ written' = [written EXCEPT ![b] = v]
    BY Zenon, <1>6 DEF access
  <2>2. ASSUME NEW i \in DOMAIN cache
        PROVE  /\ n(i) \in Entries /\ n(i).block = cache[i].block
               /\ n(i).data = IF cache[i].block = b THEN v ELSE cache[i].data
               /\ cache[i].modified \/ cache[i].block = b => n(i).modified
    <3>1. cache[i] \in Entries
      BY CacheFacts
    <3> HIDE DEF b, v
    <3>2. CASE cache[i].block = b
      <4>1. n(i) = [cache[i] EXCEPT !.data = v, !.modified = TRUE]
        <5>1. cache[i].block # INODE_BLOCK
          BY Zenon, <1>3, <3>2, BlockFacts
        <5> QED
          BY <3>2, <5>1
      <4>2. \A r \in Entries : LET s == [r EXCEPT !.data = v, !.modified = TRUE]
                               IN  s \in Entries /\ s.block = r.block /\ s.data = v /\ s.modified
        BY Zenon, <1>2 DEF Entries
      <4> HIDE DEF n
      <4> QED
        BY Zenon, <3>1, <3>2, <4>1, <4>2
    <3>3. CASE cache[i].block # b /\ cache[i].block = INODE_BLOCK
      BY Zenon, <3>1, <3>3 DEF Entries
    <3>4. CASE cache[i].block # b /\ cache[i].block # INODE_BLOCK
      BY <3>1, <3>4 DEF Entries
    <3> QED
      BY <3>2, <3>3, <3>4
  <2> HIDE DEF n
  <2>3. DOMAIN cache' = DOMAIN cache /\ \A i \in DOMAIN cache : cache'[i] = n(i)
    BY Zenon, <2>1
  <2>4. cache' \in [1..Len(cache) -> Entries]
    BY <2>1, <2>2, CacheFacts
  <2>5. cache' \in Seq(Entries) /\ Len(cache') = Len(cache)
    BY <2>4, CacheFacts
  <2> QED
    BY Zenon, <1>1, <1>2, <1>3, <1>4, <1>6, <2>1, <2>2, <2>3, <2>5
<1> QED
  BY Zenon, <1>5, <1>6

\* What block_cache_sync_all does: it is done, or takes the next modified entry.
LEMMA SyncOutcomes ==
  ASSUME CpuTypes, BlockTypes, NEW t \in FsUsers, block_cache_sync_all(t)
  PROVE  /\ current = t /\ pc[t] = "sync"
         /\ UNCHANGED <<inflight, disk, fs_lock, call, written, panicked>>
         /\ \/ Unsynced = {} /\ Goto(t, "unlock") /\ UNCHANGED <<io, cache>>
            \/ \E i \in DOMAIN cache :
                 /\ cache[i].modified
                 /\ cache' = [cache EXCEPT ![i].modified = FALSE]
                 /\ cache' \in Seq(Entries) /\ Len(cache') = Len(cache)
                 /\ Request(t, "write", cache[i].block, cache[i].data, "sync")
<1>1. /\ current = t /\ pc[t] = "sync"
      /\ UNCHANGED <<inflight, disk, fs_lock, call, written, panicked>>
  BY Zenon DEF block_cache_sync_all, Runs
<1>2. CASE Unsynced = {}
  BY Zenon, <1>1, <1>2 DEF block_cache_sync_all
<1>3. CASE Unsynced # {}
  <2>1. PICK i \in Unsynced :
          /\ cache' = [cache EXCEPT ![i].modified = FALSE]
          /\ Request(t, "write", cache[i].block, cache[i].data, "sync")
    BY Zenon, <1>3 DEF block_cache_sync_all
  <2>2. i \in DOMAIN cache /\ cache[i].modified
    BY DEF Unsynced
  <2>3. cache[i] \in Entries /\ [cache[i] EXCEPT !.modified = FALSE] \in Entries
    BY Zenon, <2>2, CacheFacts DEF Entries
  <2>4. cache' = [cache EXCEPT ![i] = [cache[i] EXCEPT !.modified = FALSE]]
    BY <2>1
  <2>5. cache' \in Seq(Entries) /\ Len(cache') = Len(cache)
    BY <2>2, <2>3, <2>4, CacheFacts DEF BlockTypes
  <2> QED
    BY Zenon, <1>1, <2>1, <2>2, <2>5
<1> QED
  BY <1>2, <1>3

\* Every step stays within the types of the block device, and the cache within
\* its size.
LEMMA BlockTypesStep ==
  ASSUME CpuTypes, BlockTypes, OneInside, CallsReady, ContentsKept, Next
  PROVE  BlockTypes'
<1> USE DEF Runs, Goto
<1>1. CASE FsQuiet
  BY Zenon, <1>1 DEF FsQuiet, BlockTypes, fs
<1>2. ASSUME NEW t \in FsUsers, trap_handler(t) PROVE BlockTypes'
  <2>1. UNCHANGED call \/ \E c \in FsCalls : call' = [call EXCEPT ![t] = c]
    BY Zenon, <1>2, BlockFacts DEF trap_handler
  <2> QED
    BY <1>2, <2>1 DEF trap_handler, blk, BlockTypes
<1>3. ASSUME NEW t \in FsUsers, schedule(t) PROVE BlockTypes'
  BY Zenon, <1>3 DEF schedule, blk, fs, BlockTypes
<1>4. ASSUME NEW t \in FsUsers, io_enter(t) PROVE BlockTypes'
  BY <1>4 DEF io_enter, blk, fs, BlockTypes
<1>5. ASSUME NEW t \in FsUsers, io_submit(t) PROVE BlockTypes'
  BY <1>5 DEF io_submit, fs, BlockTypes
<1>6. ASSUME NEW t \in FsUsers, io_drop(t) PROVE BlockTypes'
  BY <1>6 DEF io_drop, blk, fs, BlockTypes
<1>7. ASSUME NEW t \in FsUsers, io_done(t) PROVE BlockTypes'
  <2> DEFINE e == [block |-> io[t].block, data |-> io[t].data, modified |-> FALSE]
  <2>1. e \in Entries /\ io[t].op \in {None, "read", "write"}
    BY DEF Entries, BlockTypes, Requests
  <2>2. /\ Append(cache, e) \in Seq(Entries) /\ Len(Append(cache, e)) = Len(cache) + 1
    BY <2>1, QueuePush DEF BlockTypes
  <2>3. io[t].op = "read" => Len(cache) < BLOCK_CACHE_SIZE
    BY Zenon, <1>7 DEF io_done, CallsReady, CallReady, IoSteps
  <2>4. cache' \in Seq(Entries) /\ Len(cache') <= BLOCK_CACHE_SIZE
    <3>1. cache' = IF io[t].op = "read" THEN Append(cache, e) ELSE cache
      BY Zenon, <1>7 DEF io_done
    <3>2. cache \in Seq(Entries) /\ Len(cache) \in Nat /\ Len(cache) <= BLOCK_CACHE_SIZE
      BY Zenon, CacheFacts DEF BlockTypes
    <3>3. BLOCK_CACHE_SIZE \in Nat
      BY DeviceAssumption
    <3> HIDE DEF e
    <3> QED
      BY ONLY <2>2, <2>3, <3>1, <3>2, <3>3
  <2>5. io' \in [FsUsers -> Requests]
    BY Zenon, <1>7, BlockFacts DEF io_done, BlockTypes
  <2> QED
    BY <1>7, <2>4, <2>5 DEF io_done, BlockTypes
<1>8. ASSUME NEW t \in FsUsers, lock(t) PROVE BlockTypes'
  BY <1>8 DEF lock, blk, BlockTypes
<1>9. ASSUME NEW t \in FsUsers, get_block_cache(t) PROVE BlockTypes'
  <2>1. io' \in [FsUsers -> Requests]
    <3>1. \A i \in DOMAIN cache : cache[i].block \in Blocks /\ cache[i].data \in Bytes
      BY CacheFacts DEF Entries
    <3>2. PICK op \in {"read", "write"}, b \in Blocks, d \in Bytes,
               s \in {"get_inode", "get_data", "access", "sync"} :
            UNCHANGED io \/ Request(t, op, b, d, s)
      BY Zenon, <1>9, <3>1, GetBlockOutcomes, BlockFacts DEF After
    <3>3. [op |-> op, block |-> b, data |-> d, then |-> s] \in Requests
      BY DEF Requests
    <3> QED
      BY <3>2, <3>3 DEF Request, BlockTypes
  <2>2. cache' \in Seq(Entries) /\ Len(cache') <= BLOCK_CACHE_SIZE
    <3>1. UNCHANGED cache \/ \E i \in DOMAIN cache : cache' = drain(cache, i)
      BY Zenon, <1>9, GetBlockOutcomes
    <3> QED
      BY <3>1, DrainOutcome, DeviceAssumption DEF BlockTypes
  <2> QED
    BY Zenon, <1>9, <2>1, <2>2, GetBlockOutcomes DEF BlockTypes
<1>10. ASSUME NEW t \in FsUsers, access(t) PROVE BlockTypes'
  <2>1. call' \in [FsUsers -> FsCalls]
    <3>1. [call[t] EXCEPT !.blocks = Tail(call[t].blocks)] \in FsCalls
      <4> DEFINE r == Tail(call[t].blocks)
      <4>1. r \in Seq(DataBlocks) /\ call[t] \in FsCalls
        BY <1>10, AccessOutcome DEF BlockTypes
      <4> HIDE DEF r
      <4>2. [call[t] EXCEPT !.blocks = r] \in FsCalls
        BY <4>1 DEF FsCalls
      <4> QED
        BY <4>2 DEF r
    <3> QED
      BY Zenon, <1>10, <3>1, AccessOutcome DEF BlockTypes
  <2>2. written' \in [Blocks -> Bytes]
    <3>1. call[t].data \in Bytes
      BY DEF BlockTypes, FsCalls
    <3> QED
      BY <1>10, <3>1, AccessOutcome, BlockFacts DEF BlockTypes
  <2> QED
    BY <1>10, <2>1, <2>2, AccessOutcome DEF BlockTypes
<1>11. ASSUME NEW t \in FsUsers, block_cache_sync_all(t) PROVE BlockTypes'
  <2>1. io' \in [FsUsers -> Requests]
    <3>1. ASSUME NEW i \in DOMAIN cache
          PROVE  [op |-> "write", block |-> cache[i].block, data |-> cache[i].data, then |-> "sync"]
                   \in Requests
      BY Zenon, CacheFacts DEF Entries, Requests
    <3> QED
      BY <1>11, <3>1, SyncOutcomes DEF Request, BlockTypes
  <2> QED
    BY <1>11, <2>1, SyncOutcomes DEF BlockTypes
<1>12. ASSUME NEW t \in FsUsers, unlock(t) PROVE BlockTypes'
  BY Zenon, <1>12, BlockFacts DEF unlock, blk, BlockTypes
<1>13. ASSUME NEW t \in FsUsers, device_done(t) PROVE BlockTypes'
  <2>1. io[t] \in Requests /\ io[t].block \in Blocks /\ io[t].data \in Bytes
    BY DEF BlockTypes, Requests
  <2>2. disk[io[t].block] \in Bytes /\ [io[t] EXCEPT !.data = disk[io[t].block]] \in Requests
    BY <2>1 DEF BlockTypes, Requests
  <2> QED
    BY <1>13, <2>1, <2>2 DEF device_done, fs, BlockTypes
<1> QED
  BY <1>1, <1>2, <1>3, <1>4, <1>5, <1>6, <1>7, <1>8, <1>9, <1>10, <1>11, <1>12, <1>13, Frames DEF FsMoves
=============================================================================
