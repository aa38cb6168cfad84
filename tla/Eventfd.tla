------------------------------- MODULE Eventfd -------------------------------
(***************************************************************************)
(* An eventfd (os/src/fs/eventfd.rs, sys_eventfd in os/src/syscall/fs.rs)  *)
(* shared by the tasks that read and write it, on top of the Scheduler.    *)
(*                                                                         *)
(* The kernel is not preemptive, so read runs without interruption up to   *)
(* block_current_and_run_next, and from there to its end or to the next    *)
(* block.  The count is a usize and is read as a u32: here a u32 has       *)
(* U32_BYTE_SIZE digits of base Byte.  Programs pass buffers of the size   *)
(* of a u32, which write asserts, and flags that the kernel knows.         *)
(***************************************************************************)
EXTENDS Scheduler, FiniteSets

CONSTANTS
  Byte,           \* values of a byte: 256
  U32_BYTE_SIZE,  \* bytes of a u32: 4
  MaxCount,       \* bound: no write beyond this count
  NoFlags         \* the eventfd has not been created

U32 == Byte ^ U32_BYTE_SIZE

VARIABLES
  flags,       \* the flags it was created with, or NoFlags
  count,       \* EventfdInner::count
  wait_queue,  \* EventfdInner::wait_queue
  kont,        \* where each task is: in "user" code, or in the loop of "read"
  buf          \* the bytes that the task's last read has filled in

efdVars == <<flags, count, wait_queue>>
vars == <<schedVars, efdVars, kont, buf>>

-----------------------------------------------------------------------------
(* u32::to_be_bytes and u32::from_be_bytes: the first byte counts most.    *)

Bytes == [1..U32_BYTE_SIZE -> 0 .. Byte - 1]

to_be_bytes(n) == [i \in 1..U32_BYTE_SIZE |-> (n \div Byte ^ (U32_BYTE_SIZE - i)) % Byte]

from_be_bytes(bytes) ==
  LET first[i \in 0..U32_BYTE_SIZE] == IF i = 0 THEN 0 ELSE first[i - 1] * Byte + bytes[i]
  IN  first[U32_BYTE_SIZE]

Flags == {{}, {"SEMAPHORE"}, {"NONBLOCK"}, {"SEMAPHORE", "NONBLOCK"}}

ASSUME EventfdAssumption ==
  /\ IsFiniteSet(Tasks)
  /\ Byte \in Nat \ {0, 1} /\ U32_BYTE_SIZE \in Nat \ {0} /\ U32 \in Nat \ {0, 1}
  /\ MaxCount \in Nat
  /\ NoFlags \notin Flags
  /\ NoFlags \notin {"default", "semaphore", "nonblock"}   \* modes of EventCounter

\* The conversions of the standard library are inverse to each other.
ASSUME BytesAssumption ==
  /\ \A n \in 0 .. U32 - 1 : to_be_bytes(n) \in Bytes /\ from_be_bytes(to_be_bytes(n)) = n
  /\ \A bytes \in Bytes : from_be_bytes(bytes) \in 0 .. U32 - 1

-----------------------------------------------------------------------------
\* nonblock_semaphore: NONBLOCK wins.
non_block == "NONBLOCK" \in flags
semaphore == flags = {"SEMAPHORE"}

Created == flags # NoFlags

\* A bug: the test of the loop looks at the whole usize.
value_usize == count
\* count as u32
value == count % U32

TypeOK ==
  /\ SchedTypeOK
  /\ flags \in Flags \cup {NoFlags}
  /\ count \in Nat
  /\ wait_queue \in Seq(Tasks)
  /\ kont \in [Tasks -> {"user", "read"}]
  /\ buf \in [Tasks -> Bytes \cup {<<>>}]

Init ==
  /\ \E order \in Bijection(1..Cardinality(Tasks), Tasks) : SchedInit(order)
  /\ flags = NoFlags /\ count = 0 /\ wait_queue = <<>>
  /\ kont = [t \in Tasks |-> "user"]
  /\ buf = [t \in Tasks |-> <<>>]

Calls(t) == current = t /\ kont[t] = "user"
Goto(t, k) == kont' = [kont EXCEPT ![t] = k]

sys_eventfd(t, initval, fl) ==
  /\ Calls(t) /\ ~Created
  /\ flags' = fl /\ count' = initval
  /\ UNCHANGED <<schedVars, wait_queue, kont, buf>>

-----------------------------------------------------------------------------
(* Eventfd::read, from its beginning or from where it has been blocked     *)

\* A bug: the reader that waits is also put back on the ready queue.
ReadBlocks_yields(t) ==
  /\ value = 0 /\ ~non_block
  /\ wait_queue' = Append(wait_queue, t)
  /\ Goto(t, "read")
  /\ suspend_current_and_run_next(<<>>)
  /\ UNCHANGED <<flags, count, buf>>

\* The count is 0: the task queues itself and blocks.
ReadBlocks(t) ==
  /\ value = 0 /\ ~non_block
  /\ wait_queue' = Append(wait_queue, t)
  /\ Goto(t, "read")
  /\ block_current_and_run_next(<<>>)
  /\ UNCHANGED <<flags, count, buf>>

\* In non-blocking mode it returns 0 instead and leaves the buffer alone.
ReadRefused(t) ==
  /\ value = 0 /\ non_block
  /\ Goto(t, "user")
  /\ UNCHANGED <<schedVars, efdVars, buf>>

\* A bug: semaphore mode takes everything.
ReadTakes_all(t) ==
  /\ value # 0
  /\ buf' = [buf EXCEPT ![t] = to_be_bytes(IF semaphore THEN 1 ELSE value)]
  /\ count' = 0
  /\ Goto(t, "user")
  /\ UNCHANGED <<schedVars, flags, wait_queue>>

ReadTakes(t) ==
  /\ value # 0
  /\ buf' = [buf EXCEPT ![t] = to_be_bytes(IF semaphore THEN 1 ELSE value)]
  /\ count' = IF semaphore THEN count - 1 ELSE 0
  /\ Goto(t, "user")
  /\ UNCHANGED <<schedVars, flags, wait_queue>>

read(t) == ReadBlocks(t) \/ ReadRefused(t) \/ ReadTakes(t)

sys_read(t) == Calls(t) /\ Created /\ read(t)

ReadResumes(t) == current = t /\ kont[t] = "read" /\ read(t)

-----------------------------------------------------------------------------
(* Eventfd::write                                                          *)

\* A bug: only a write that finds the count at 0 wakes a reader.
Popped_from_zero == IF wait_queue = <<>> \/ count # 0 THEN <<>> ELSE <<Head(wait_queue)>>
Popped == IF wait_queue = <<>> THEN <<>> ELSE <<Head(wait_queue)>>

sys_write(t, bytes) ==
  LET added == IF semaphore THEN 1 ELSE from_be_bytes(bytes)
  IN
  /\ Calls(t) /\ Created
  /\ count + added <= MaxCount
  /\ count' = count + added
  /\ wait_queue' = IF Popped = <<>> THEN wait_queue ELSE Tail(wait_queue)
  /\ wakeup_task(Popped)
  /\ UNCHANGED <<flags, kont, buf>>

-----------------------------------------------------------------------------
\* sys_yield, or the timer interrupt of user mode.
Yields(t) ==
  /\ Calls(t)
  /\ suspend_current_and_run_next(<<>>)
  /\ UNCHANGED <<efdVars, kont, buf>>

RunTasks == run_tasks /\ UNCHANGED <<efdVars, kont, buf>>

Next ==
  \/ RunTasks
  \/ \E t \in Tasks :
       \/ \E initval \in 0 .. U32 - 1, fl \in Flags : sys_eventfd(t, initval, fl)
       \/ sys_read(t)
       \/ ReadResumes(t)
       \/ \E bytes \in Bytes : sys_write(t, bytes)
       \/ Yields(t)

Spec == Init /\ [][Next]_vars

\* The idle loop looks for tasks, the timer interrupts user mode, and a reader
\* that runs again goes on in the kernel.
FairSpec ==
  /\ Spec
  /\ WF_vars(RunTasks)
  /\ \A t \in Tasks : WF_vars(Yields(t)) /\ WF_vars(ReadResumes(t))

-----------------------------------------------------------------------------
(* Properties                                                              *)

InQueue(t, q) == t \in Range(q)

\* Each task is in one place, once: running, ready, or waiting inside read for
\* a write.  write takes the reader that it wakes off the queue, and a reader
\* that comes too late queues itself again (eventfd.rs:89-93).
OnePlace ==
  /\ IsInjective(ready_queue) /\ IsInjective(wait_queue)
  /\ \A t \in Tasks :
       /\ current = t => ~InQueue(t, ready_queue) /\ ~InQueue(t, wait_queue)
       /\ InQueue(t, ready_queue) => ~InQueue(t, wait_queue)
       /\ current = t \/ InQueue(t, ready_queue) \/ InQueue(t, wait_queue)
       /\ InQueue(t, wait_queue) => kont[t] = "read"

\* Readers that a write has woken and that have not run yet.
Pending == {t \in Tasks : kont[t] = "read" /\ ~InQueue(t, wait_queue)}

\* No wakeup is lost although a write wakes one reader and another one may come
\* first (eventfd.rs:144): while readers wait, a value that is not 0 has a
\* reader on its way to it, and in semaphore mode one for each unit.
NoWakeupLost ==
  wait_queue # <<>> =>
    IF semaphore THEN value <= Cardinality(Pending)
    ELSE value # 0 => Pending # {}

Counter == INSTANCE EventCounter
  WITH Users <- Tasks, Modulus <- U32, Unset <- NoFlags,
       mode <- IF ~Created THEN NoFlags ELSE IF non_block THEN "nonblock"
               ELSE IF semaphore THEN "semaphore" ELSE "default",
       result <- [t \in Tasks |-> IF buf[t] = <<>> THEN NoFlags ELSE from_be_bytes(buf[t])]

\* The eventfd implements one counter modulo 2^32: what read puts into its buffer
\* is what it takes off the count, for any interleaving of readers that block,
\* are woken and find the count taken by somebody else (eventfd.rs:80-149).
ImplementsCounter == Counter!Spec

\* Readers do not sleep over a value: while readers wait and the value is not 0,
\* the value gets read or the queue gets empty, even if nobody writes again.
ValueIsRead == (wait_queue # <<>> /\ value # 0) ~> (value = 0 \/ wait_queue = <<>>)
=============================================================================
