-------------------------------- MODULE Pipe --------------------------------
(***************************************************************************)
(* One pipe and the processes that share it: the file operations of Pipe   *)
(* (os/src/fs/pipe.rs), the system calls that hand its two ends around     *)
(* (os/src/syscall/fs.rs), and what fork, thread creation and exit do to   *)
(* the descriptors (os/src/task/process.rs, os/src/task/mod.rs).           *)
(*                                                                         *)
(* read and write run in the kernel, which is not preemptive: once a task  *)
(* is in its loop no other task moves until it returns or calls            *)
(* suspend_current_and_run_next.  `cpu' is that task.                      *)
(*                                                                         *)
(* The end of file is seen through Weak<Pipe>::upgrade, that is, through   *)
(* the number of Arcs to the write end: the entries of the fd tables, the  *)
(* clone a system call keeps while it runs, and the clones on the kernel   *)
(* stacks of threads that died inside one, which nobody drops any more.    *)
(***************************************************************************)
EXTENDS RingBuffer, FiniteSets

CONSTANTS
  Procs,      \* the processes
  Creator,    \* the one that calls sys_pipe
  Tasks,      \* <<process, tid>>; tid 0 is the main thread
  NoTask,     \* no task is inside read or write
  MaxFds,     \* bound: entries for one end in one fd table
  ReadSizes,  \* the lengths passed to sys_read
  Buffers,    \* the user buffers passed to sys_write
  MaxSent     \* bound: bytes offered to write in a behaviour

ASSUME PipeAssumption ==
  /\ Creator \in Procs /\ NoTask \notin Tasks
  /\ Tasks \subseteq Procs \X Nat /\ Procs \X {0} \subseteq Tasks
  /\ ReadSizes \subseteq Nat /\ Buffers \subseteq Seq(Bytes)
  /\ MaxFds \in Nat /\ MaxSent \in Nat

VARIABLES
  made,      \* sys_pipe has been called
  fd_table,  \* how many descriptors of each end a process has
  life,      \* which tasks exist
  op,        \* the read or write a task is in
  cpu,       \* the task inside the loop of read or write
  left,      \* what remains of loop_read or loop_write in this round
  leaked,    \* the stack of a dead thread holds an Arc of the write end
  sent,      \* bytes offered to write so far
  taken,     \* history: the byte read_byte returned last
  eof        \* history: some read returned less than it wanted

vars == <<ringVars, made, fd_table, life, op, cpu, left, leaked, sent, taken, eof>>

Ends == {"read", "write"}
NoOp == [kind |-> "none", want |-> 0, done |-> 0, buf |-> <<>>]
Ops ==
  {NoOp}
    \cup [kind : {"read"}, want : Nat, done : Nat, buf : {<<>>}]
    \cup [kind : {"write"}, want : Nat, done : Nat, buf : Seq(Bytes)]

TypeOK ==
  /\ RingTypeOK
  /\ made \in BOOLEAN
  /\ fd_table \in [Procs -> [Ends -> Nat]]
  /\ life \in [Tasks -> {"unborn", "live", "dead"}]
  /\ op \in [Tasks -> Ops]
  /\ cpu \in Tasks \cup {NoTask}
  /\ left \in Nat
  /\ leaked \in BOOLEAN
  /\ sent \in Nat
  /\ taken \in Bytes
  /\ eof \in BOOLEAN

Init ==
  /\ RingNew
  /\ made = FALSE
  /\ fd_table = [p \in Procs |-> [e \in Ends |-> 0]]
  /\ life = [t \in Tasks |-> IF t = <<Creator, 0>> THEN "live" ELSE "unborn"]
  /\ op = [t \in Tasks |-> NoOp]
  /\ cpu = NoTask
  /\ left = 0
  /\ leaked = FALSE
  /\ sent = 0
  /\ taken = 0
  /\ eof = FALSE

Threads(p) == {t \in Tasks : t[1] = p}

\* A task in user mode that has the processor.
Runs(t) == cpu = NoTask /\ life[t] = "live" /\ op[t] = NoOp

loopVars == <<cpu, left, sent, taken, eof>>

\* No fd table has the write end: what all_write_ends_closed would be if the
\* system calls did not clone the Arc of the file.
no_write_descriptor == \A p \in Procs : fd_table[p]["write"] = 0

all_write_ends_closed ==
  /\ \A p \in Procs : fd_table[p]["write"] = 0
  /\ \A t \in Tasks : op[t].kind # "write"
  /\ ~leaked

-----------------------------------------------------------------------------
(* The descriptors                                                         *)

sys_pipe(t) ==
  /\ Runs(t) /\ ~made
  /\ made' = TRUE
  /\ fd_table' = [fd_table EXCEPT ![t[1]] = [e \in Ends |-> 1]]
  /\ UNCHANGED <<ringVars, life, op, leaked, loopVars>>

sys_dup(t, e) ==
  /\ Runs(t) /\ fd_table[t[1]][e] \in 1..(MaxFds - 1)
  /\ fd_table' = [fd_table EXCEPT ![t[1]][e] = @ + 1]
  /\ UNCHANGED <<ringVars, made, life, op, leaked, loopVars>>

sys_close(t, e) ==
  /\ Runs(t) /\ fd_table[t[1]][e] > 0
  /\ fd_table' = [fd_table EXCEPT ![t[1]][e] = @ - 1]
  /\ UNCHANGED <<ringVars, made, life, op, leaked, loopVars>>

\* The child's fd table is a copy.  fork asserts that the process has never had
\* a second thread.
fork(t, c) ==
  /\ Runs(t) /\ t[2] = 0
  /\ \A u \in Threads(t[1]) \ {t} : life[u] = "unborn"
  /\ \A u \in Threads(c) : life[u] = "unborn"
  /\ life' = [life EXCEPT ![<<c, 0>>] = "live"]
  /\ fd_table' = [fd_table EXCEPT ![c] = fd_table[t[1]]]
  /\ UNCHANGED <<ringVars, made, op, leaked, loopVars>>

sys_thread_create(t, u) ==
  /\ Runs(t) /\ u \in Threads(t[1]) /\ life[u] = "unborn"
  /\ life' = [life EXCEPT ![u] = "live"]
  /\ UNCHANGED <<ringVars, made, fd_table, op, leaked, loopVars>>

\* When the main thread exits the fd table is cleared and every thread of the
\* process is removed, wherever it is.
exit_current_and_run_next(t) ==
  /\ Runs(t)
  /\ \/ /\ t[2] # 0
        /\ life' = [life EXCEPT ![t] = "dead"]
        /\ UNCHANGED <<fd_table, op, leaked>>
     \/ /\ t[2] = 0
        /\ life' = [u \in Tasks |-> IF u[1] = t[1] THEN "dead" ELSE life[u]]
        /\ fd_table' = [fd_table EXCEPT ![t[1]] = [e \in Ends |-> 0]]
        /\ op' = [u \in Tasks |-> IF u[1] = t[1] THEN NoOp ELSE op[u]]
        /\ leaked' = (leaked \/ \E u \in Threads(t[1]) : op[u].kind = "write")
  /\ UNCHANGED <<ringVars, made, loopVars>>

-----------------------------------------------------------------------------
(* Pipe::read and Pipe::write                                              *)

sys_read(t, n) ==
  /\ Runs(t) /\ fd_table[t[1]]["read"] > 0
  /\ op' = [op EXCEPT ![t] = [kind |-> "read", want |-> n, done |-> 0, buf |-> <<>>]]
  /\ cpu' = t
  /\ left' = 0
  /\ UNCHANGED <<ringVars, made, fd_table, life, leaked, sent, taken, eof>>

sys_write(t, buf) ==
  /\ Runs(t) /\ fd_table[t[1]]["write"] > 0
  /\ sent + Len(buf) <= MaxSent
  /\ op' = [op EXCEPT ![t] = [kind |-> "write", want |-> Len(buf), done |-> 0, buf |-> buf]]
  /\ cpu' = t
  /\ left' = 0
  /\ sent' = sent + Len(buf)
  /\ UNCHANGED <<ringVars, made, fd_table, life, leaked, taken, eof>>

\* The scheduler comes back to a task that suspended itself in its loop.
Resume(t) ==
  /\ cpu = NoTask /\ op[t] # NoOp
  /\ cpu' = t
  /\ UNCHANGED <<ringVars, made, fd_table, life, op, left, leaked, sent, taken, eof>>

Return(t) == op' = [op EXCEPT ![t] = NoOp] /\ cpu' = NoTask /\ left' = 0

\* already_read == want_to_read, or buf_iter.next() is None.
BufferEnds(t) == op[t].done = op[t].want /\ (op[t].want > 0 \/ left > 0)

\* A write that waits until all of its buffer fits.
available_for_all(t) ==
  IF op[t].kind = "read" THEN available_read
  ELSE IF available_write >= op[t].want - op[t].done THEN available_write ELSE 0

available(t) == IF op[t].kind = "read" THEN available_read ELSE available_write

\* A loop that never asks whether the write end is closed.
LoopIgnoresEnd(t) ==
  /\ cpu = t /\ left = 0 /\ ~BufferEnds(t)
  /\ left' = available(t)
  /\ cpu' = IF available(t) = 0 THEN NoTask ELSE t
  /\ UNCHANGED <<ringVars, made, fd_table, life, op, leaked, sent, taken, eof>>

\* The head of the loop: how much can be moved in this round.
LoopStarts(t) ==
  /\ cpu = t /\ left = 0 /\ ~BufferEnds(t)
  /\ \/ /\ available(t) > 0
        /\ left' = available(t)
        /\ UNCHANGED <<op, cpu, eof>>
     \/ /\ available(t) = 0
        /\ op[t].kind = "read" /\ all_write_ends_closed
        /\ Return(t)
        /\ eof' = TRUE
     \/ /\ available(t) = 0
        /\ ~(op[t].kind = "read" /\ all_write_ends_closed)
        /\ cpu' = NoTask  \* suspend_current_and_run_next
        /\ UNCHANGED <<op, left, eof>>
  /\ UNCHANGED <<ringVars, made, fd_table, life, leaked, sent, taken>>

MoveByte(t) ==
  /\ cpu = t /\ left > 0 /\ ~BufferEnds(t)
  /\ \/ /\ op[t].kind = "read"
        /\ read_byte
        /\ taken' = arr[head]
     \/ /\ op[t].kind = "write"
        /\ write_byte(op[t].buf[op[t].done + 1])
        /\ UNCHANGED taken
  /\ op' = [op EXCEPT ![t].done = @ + 1]
  /\ left' = left - 1
  /\ UNCHANGED <<made, fd_table, life, cpu, leaked, sent, eof>>

ReturnsAll(t) ==
  /\ cpu = t /\ BufferEnds(t)
  /\ Return(t)
  /\ UNCHANGED <<ringVars, made, fd_table, life, leaked, sent, taken, eof>>

InLoop(t) == LoopStarts(t) \/ MoveByte(t) \/ ReturnsAll(t)

Next ==
  \E t \in Tasks :
    \/ sys_pipe(t)
    \/ \E e \in Ends : sys_dup(t, e) \/ sys_close(t, e)
    \/ \E c \in Procs : fork(t, c)
    \/ \E u \in Tasks : sys_thread_create(t, u)
    \/ exit_current_and_run_next(t)
    \/ \E n \in ReadSizes : sys_read(t, n)
    \/ \E buf \in Buffers : sys_write(t, buf)
    \/ Resume(t)
    \/ InLoop(t)

Spec == Init /\ [][Next]_vars

\* A task in its loop is not interrupted, and the FIFO scheduler comes back to
\* every task that suspended itself.
Fairness == \A t \in Tasks : WF_vars(InLoop(t)) /\ SF_vars(Resume(t))

FairSpec == Spec /\ Fairness

-----------------------------------------------------------------------------
(* Properties                                                              *)

\* The write end as its readers see it, open until the last Arc is dropped.
Writable == ~made \/ ~all_write_ends_closed

Fifo == INSTANCE BoundedFifo WITH
  Capacity <- RING_BUFFER_SIZE, queue <- Contents, writable <- Writable

\* Pipe::read and Pipe::write, run by any number of threads that suspend
\* themselves half way, implement a bounded FIFO: no byte is lost, duplicated,
\* reordered or made up when the ring wraps round or fills, and a read comes
\* back short only when the pipe is empty and nobody can write any more.
ImplementsFifo == Fifo!Spec

\* A blocked reader is not left waiting: once the last Arc of the write end has
\* been dropped, a task in Pipe::read returns.
ReaderSeesEnd ==
  \A t \in Tasks :
    (op[t].kind = "read" /\ all_write_ends_closed) ~> (op[t].kind # "read")

\* A reader and a writer of the pipe cannot both wait for ever in their loops:
\* Full and Empty exclude each other, and each round moves a byte.
PipeProgress ==
  \A r, w \in Tasks :
    (op[r].kind = "read" /\ op[w].kind = "write")
      ~> (op[r].kind # "read" \/ op[w].kind # "write")

\* What makes the unchecked read_byte and write_byte of one round safe: the
\* round's budget, computed at its start, never exceeds what the ring offers,
\* and the bytes a user buffer still has to give or take are there.
LoopWithinRing ==
  \A t \in Tasks :
    /\ cpu = t => op[t].kind # "none" /\ left <= available(t)
    /\ op[t].done <= op[t].want
    /\ op[t].kind = "write" => op[t].want = Len(op[t].buf)

\* The inductive invariant; it adds that nothing of the pipe exists before
\* sys_pipe has made it.
IInv ==
  /\ TypeOK
  /\ StatusAgrees
  /\ LoopWithinRing
  /\ cpu = NoTask => left = 0
  /\ ~made => /\ fd_table = [p \in Procs |-> [e \in Ends |-> 0]]
              /\ \A t \in Tasks : op[t] = NoOp
=============================================================================
